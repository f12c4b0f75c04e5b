----------------------------- MODULE TransformMC -----------------------------
(* Transform for a form of two questions, to which a third is added later. *)
EXTENDS Transform

FormQuestions == <<"q1", "q2">>
AnswerClasses ==
  [q \in {"q1", "q2", "q3"} |->
     CASE q = "q1" -> {"absent", "blank", "number", "dots"}
       [] q = "q2" -> {"absent", "number", "word"}
       [] OTHER    -> {"absent", "word", "quote"}]
AllSubs == <<"s1", "s2", "s3">>
=============================================================================

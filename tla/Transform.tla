------------------------------ MODULE Transform -------------------------------
(***************************************************************************)
(* From a form submission to a record: the mapping of questions to columns,  *)
(* suggested by the model and confirmed on the preview screen (mapping.go,   *)
(* target.go), the record made of an answer set (transform.go, tags.go), and *)
(* the lookup that recognises the record again by its stamp (dedup.go).      *)
(*                                                                         *)
(* An answer is a question and a class of values: blank, a number, a word    *)
(* that makes a tag, dots that make none, or a text that quotes a stamp.  A  *)
(* column holds the questions whose answers were written to it, and "label"  *)
(* when a template was; in which order, no property asks.                     *)
(***************************************************************************)
EXTENDS Integers, Sequences, Functions

CONSTANTS
  Questions,    \* the questions of the form when it was linked, in order
  Stray,        \* a question added to the form later
  ValuesOf,     \* per question, the classes of its answers; "absent" is none
  Picks,      \* targets that the model and the user come up with
  Subs,         \* submissions, in order
  Quoted,       \* the submission whose stamp a quote quotes
  DedupChunk    \* dedupQueryChunk (25)

NumberTargets   == {"score", "hours"}
FeedbackTargets == {"doing_well", "improve"}
TargetFields    == NumberTargets \cup FeedbackTargets \cup {"email", "tags"}
CustomFields    == "custom_fields"

ASSUME TransformAssumption ==
  /\ DedupChunk \in Nat \ {0}
  /\ Questions \in Seq(DOMAIN ValuesOf) /\ DOMAIN ValuesOf = Range(Questions) \cup {Stray}
  /\ Subs \in Seq(Range(Subs)) /\ Quoted \in Range(Subs)

VARIABLES
  preview,     \* the mapping suggested on the preview screen
  mapping,     \* the mapping of the job
  sub,         \* the submission being turned into a record, and its answers
  fields,      \* BuildFields of it
  nps          \* the stamps in the Custom Fields text of each record booked

transformVars == <<preview, mapping, sub, fields, nps>>

isValidTarget(t) == t \in TargetFields \cup {CustomFields, "ignore"}
Sane(t) == IF isValidTarget(t) THEN t ELSE CustomFields

Entry(q, target, template) ==
  [q |-> q, target |-> target,
   template |-> IF target \in FeedbackTargets THEN template ELSE "none"]

(* Map: questions that the model leaves out go to the catch-all, *)
AIMapping(chosen, template) ==
  [i \in DOMAIN Questions |->
     LET q == Questions[i]
     IN  Entry(q, IF q \in DOMAIN chosen THEN Sane(chosen[q]) ELSE CustomFields, template)]

(* and BuildMapping: so do targets the confirmed form does not know. *)
BuildMapping(targetFor, template) ==
  [i \in DOMAIN Questions |-> Entry(Questions[i], Sane(targetFor[Questions[i]]), template)]

(* renderAnswer, numericValue and NormalizeTags, as far as they tell values  *)
(* apart.                                                                    *)
Says(v) == v \notin {"absent", "blank"}
IsNumber(v) == v = "number"
NormalizeTags(v) == {v} \ {"absent", "blank", "dots"}

Yields(target, v) == IF target \in NumberTargets THEN IsNumber(v) ELSE Says(v)

(* The entries whose answers yield a value for a column. *)
Mapped(target, answers) ==
  {i \in DOMAIN mapping : /\ mapping[i].target = target
                          /\ Yields(target, answers[mapping[i].q])}

(* The first one. *)
FirstMapped(target, answers) ==
  LET hits == Mapped(target, answers)
  IN  {mapping[i].q : i \in {i \in hits : \A j \in hits : i <= j}}

(* A template without a place for the answer has it appended. *)
applyTemplate(template, q) == IF template = "none" THEN {q} ELSE {"label", q}

Feedback(target, answers) ==
  UNION {applyTemplate(mapping[i].template, mapping[i].q) : i \in Mapped(target, answers)}

JobTag == "job"

Tags(answers) ==
  {JobTag} \cup UNION {NormalizeTags(answers[mapping[i].q]) : i \in Mapped("tags", answers)}

(* Mutant: whatever is mapped is taken for written. *)
NotMapped(q) == ~\E i \in DOMAIN mapping : mapping[i].q = q

(* Not consumed by a column, nor ignored. *)
CatchAll(q) == ~\E i \in DOMAIN mapping : mapping[i].q = q /\ mapping[i].target # CustomFields

Custom(answers) ==
  {q \in Range(Questions) \cup {Stray} : CatchAll(q) /\ Says(answers[q])}

BuildFields(answers) ==
  [c \in TargetFields \cup {CustomFields} |->
     CASE c \in NumberTargets \cup {"email"} -> FirstMapped(c, answers)
       [] c \in FeedbackTargets -> Feedback(c, answers)
       [] c = "tags"            -> Tags(answers)
       [] OTHER                 -> Custom(answers)]

(* The stamps in a Custom Fields text, from the top: what its answers quote,  *)
(* and the record's own, in italics.                                         *)
StampLine(s) == [id |-> s, tail |-> "_"]
Stamps(s, answers, custom) ==
  IF \E q \in custom : answers[q] = "quote"
    THEN <<[id |-> Quoted, tail |-> ""], StampLine(s)>>
    ELSE <<StampLine(s)>>

(* FindStampedRecords: the query matches a stamp anywhere in the text, and   *)
(* the id is read from the first.                                            *)
Matches(r, ids) == \E i \in DOMAIN nps[r] : nps[r][i].id \in ids

(* Mutant: the italics are left on. *)
AsCaptured(stamp) == stamp

(* The captured token, its underscores trimmed. *)
Trimmed(stamp) == [id |-> stamp.id, tail |-> ""]

FoundInChunk(ids) ==
  LET want == {[id |-> s, tail |-> ""] : s \in ids}
  IN  {<<nps[r][1].id, r>> :
         r \in {r \in DOMAIN nps : Matches(r, ids) /\ Trimmed(nps[r][1]) \in want}}

(* The chunk that starts behind the first n. *)
Chunk(ids, n) == {ids[i] : i \in {i \in DOMAIN ids : n < i /\ i <= n + DedupChunk}}

FindStampedRecords(ids) ==
  UNION {FoundInChunk(Chunk(ids, k * DedupChunk)) : k \in 0..Len(ids)}

TransformInit ==
  /\ preview = <<>> /\ mapping = <<>> /\ sub = <<>> /\ fields = <<>> /\ nps = <<>>

Templates == {"none", "with answer", "without answer"}

(* The preview page of a form, before it is linked. *)
Suggest(chosen, template) ==
  /\ preview = <<>> /\ sub = <<>>
  /\ preview' = AIMapping(chosen, template) /\ mapping' = <<>>
  /\ UNCHANGED <<sub, fields, nps>>

(* The user confirms a target for each question. *)
Link(targetFor, template) ==
  /\ preview # <<>>
  /\ mapping' = BuildMapping(targetFor, template) /\ preview' = <<>>
  /\ UNCHANGED <<sub, fields, nps>>

Transform(s, answers) ==
  /\ mapping # <<>> /\ sub = <<>> /\ s \notin DOMAIN nps
  /\ sub' = [id |-> s, answers |-> answers]
  /\ fields' = BuildFields(answers)
  /\ UNCHANGED <<preview, mapping, nps>>

Book ==
  /\ sub # <<>>
  /\ nps' = [r \in DOMAIN nps \cup {sub.id} |->
                IF r = sub.id THEN Stamps(r, sub.answers, fields[CustomFields]) ELSE nps[r]]
  /\ sub' = <<>> /\ fields' = <<>>
  /\ UNCHANGED <<preview, mapping>>

AnswerSets == {a \in [DOMAIN ValuesOf -> UNION Range(ValuesOf)] : \A q \in DOMAIN a : a[q] \in ValuesOf[q]}

TransformNext ==
  \/ \E qs \in SUBSET Range(Questions), t \in Templates :
       \E chosen \in [qs -> Picks] : Suggest(chosen, t)
  \/ \E targetFor \in [Range(Questions) -> Picks], t \in Templates : Link(targetFor, t)
  \/ \E s \in Range(Subs), a \in AnswerSets : Transform(s, a)
  \/ Book

TransformSpec == TransformInit /\ [][TransformNext]_transformVars

-----------------------------------------------------------------------------
(* Properties *)

Entries == [q : Range(Questions), target : {t \in Picks : isValidTarget(t)} \cup {CustomFields}, template : Templates]

TransformTypeOK ==
  /\ \A m \in {preview, mapping} :
       m # <<>> => /\ m \in [DOMAIN Questions -> Entries]
                   /\ \A i \in DOMAIN m : m[i].q = Questions[i]
  /\ DOMAIN nps \subseteq Range(Subs)

(* What became of the answer to q. *)
TargetOf(q) == IF \E i \in DOMAIN mapping : mapping[i].q = q
                 THEN mapping[CHOOSE i \in DOMAIN mapping : mapping[i].q = q].target
                 ELSE CustomFields
Written(q) ==
  LET v == sub.answers[q] IN
  IF TargetOf(q) = "tags"
    THEN NormalizeTags(v) # {} /\ NormalizeTags(v) \subseteq fields["tags"]
    ELSE \E c \in DOMAIN fields \ {"tags"} : q \in fields[c]
Given == {q \in DOMAIN ValuesOf : Says(sub.answers[q])}

(* "Number/email columns take the first mapped answer that yields a value;    *)
(* ... feedback columns concatenate every mapped answer; ... everything else  *)
(* is preserved" (transform.go:32): an answer that is neither ignored nor     *)
(* written was not what its column takes, or found its column taken.          *)
OnlyUnfitAnswersAreDropped ==
  sub # <<>> =>
    \A q \in Given :
      \/ Written(q) \/ TargetOf(q) = "ignore"
      \/ TargetOf(q) \in NumberTargets /\ ~IsNumber(sub.answers[q])
      \/ TargetOf(q) = "tags" /\ NormalizeTags(sub.answers[q]) = {}
      \/ /\ TargetOf(q) \in NumberTargets \cup {"email"}
         /\ fields[TargetOf(q)] \notin {{}, {q}}

(* What the comment says: an answer that is not ignored is in the record.     *)
EveryAnswerIsKept ==
  sub # <<>> => \A q \in Given : Written(q) \/ TargetOf(q) = "ignore"

(* "It detects rows synced by us or by another instance" (dedup.go:39): the   *)
(* lookup finds each record by its own submission and no other, whatever is   *)
(* in one query with it, unless an answer kept verbatim quotes a stamp.       *)
StampsFindTheirRecords ==
  (\A r \in DOMAIN nps : Len(nps[r]) = 1) =>
     FindStampedRecords(Subs) = {<<s, s>> : s \in DOMAIN nps}
=============================================================================

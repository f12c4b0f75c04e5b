SPECIFICATION TransformSpec
CONSTANTS
  Questions <- FormQuestions
  Stray = "q3"
  ValuesOf <- AnswerClasses
  Picks = {"score", "email", "doing_well", "tags", "custom_fields", "ignore", "gone"}
  Subs <- AllSubs
  Quoted = "s1"
  DedupChunk = 2
INVARIANT EveryAnswerIsKept
CHECK_DEADLOCK FALSE

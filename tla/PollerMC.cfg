SPECIFICATION FairSpec
CONSTANTS
  s1 = s1
  s2 = s2
  s3 = s3
  Submissions = {s1, s2, s3}
  SubmissionTime <- MCSubmissionTime
  Second = 2
  Foreign = {s1}
  BatchSize = 2
  PageSize = 2
  QueryChunk = 1
  ChunkSize = 1
  MaxFaults = 2
INVARIANTS
  TypeOK
  DuplicatesWereAbandoned
  LedgerIsTruthful
  NoneSkipped
  CleanPassIsComplete
PROPERTIES
  NeverRecreated
  CursorNeverRegresses
  EventuallySettled
  KeepsPromise

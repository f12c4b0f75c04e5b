SPECIFICATION Spec
CONSTANTS
  p1 = p1
  p2 = p2
  b1 = b1
  b2 = b2
  Pollers = {p1, p2}
  Bases = {b1, b2}
  Last = 2
  MaxJobs = 2
  MaxRecords = 2
  MaxFaults = 1
  DeleteChunk = 1
SYMMETRY Permuted
CONSTRAINTS
  OneRemoval
  AloneWithTwo
  AloneWithDoubt
INVARIANTS
  TypeOK
  DuplicatesHaveACause
  OnlyOwnRecords
  LeftoversAreKnown
  BehindCursorIsLedgered
  DanglingRowsAreSkipped
CHECK_DEADLOCK FALSE

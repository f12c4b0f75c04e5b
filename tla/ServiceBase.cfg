SPECIFICATION Spec
CONSTANTS
  p1 = p1
  p2 = p2
  b1 = b1
  b2 = b2
  Pollers = {p1}
  Bases = {b1, b2}
  Last = 1
  MaxJobs = 2
  MaxRecords = 1
  MaxFaults = 1
  DeleteChunk = 1
INVARIANT PassedOverIsPresent
CHECK_DEADLOCK FALSE

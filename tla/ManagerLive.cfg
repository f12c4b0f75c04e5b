SPECIFICATION FairSpec
CONSTANTS
  j1 = j1
  j2 = j2
  g1 = g1
  g2 = g2
  g3 = g3
  r1 = r1
  r2 = r2
  None = None
  Jobs = {j1}
  Pollers = {g1, g2}
  Requests = {r1}
PROPERTY
  ShutdownCompletes

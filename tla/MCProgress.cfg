SPECIFICATION FairSpec
CONSTANTS
  m1 = m1
  m2 = m2
  p1 = p1
  p2 = p2
  Messages = {m1, m2}
  Parts = {p1, p2}
  PartOf <- OwnPart
  Injected = {}
  Cooperative = {}
  Backlogs <- NoBacklog
  MaxRev = 5
  MaxRetries = 2
  MaxExited = 1
  MaxDrains = 0
PROPERTY ProgressReported
CHECK_DEADLOCK FALSE

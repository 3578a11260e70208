SPECIFICATION FairSpec
CONSTANTS
  k1 = k1
  k2 = k2
  Keys = {k1, k2}
  Key = k1
  MaxRev = 3
  MaxFaults = 2
PROPERTY NamespaceEventsArrive
CHECK_DEADLOCK FALSE

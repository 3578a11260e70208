SPECIFICATION FairSpec
CONSTANTS
  c1 = c1
  c2 = c2
  c3 = c3
  Controllers = {c1, c2}
  NoLease = NoLease
  FaultKinds = {"answer"}
  MaxFaults = 1
  MaxLease = 3
PROPERTY OwnerStopsWaiting
CHECK_DEADLOCK FALSE

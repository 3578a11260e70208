SPECIFICATION BootOrSteadySpec
CONSTANTS
  n1 = n1
  n2 = n2
  p1 = p1
  p2 = p2
  c1 = c1
  c2 = c2
  q1 = q1
  q2 = q2
  q3 = q3
  NoList = NoList
  NoView = NoView
  Instances = {n1, n2}
  Partitions = {p1}
  Placements = {"both", "gone"}
  Crush = {}
  Throttled = FALSE
  Controllers = {c1, c2}
  InitPlacement = "both"
  InitConfigured = {n1, n2}
  Procs = {q1, q2}
  MaxRevision = 13
  MaxSession = 3
  MaxLease = 2
  MaxDelayed = 1
  MaxFaults = 2
  MaxChanges = 1
  PreferenceLists <- MCPreferenceLists
  ProcInstance <- MCProcInstance
INVARIANT Invariant
PROPERTIES OnlyNewestTermPublishes
CHECK_DEADLOCK FALSE

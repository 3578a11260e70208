SPECIFICATION SteadyFairSpec
CONSTANTS
  n1 = n1
  n2 = n2
  p1 = p1
  p2 = p2
  c1 = c1
  c2 = c2
  q1 = q1
  q2 = q2
  q3 = q3
  NoList = NoList
  NoView = NoView
  Instances = {n1, n2}
  Partitions = {p1}
  Placements = {"both"}
  Crush = {}
  Throttled = FALSE
  Controllers = {c1}
  InitPlacement = "both"
  InitConfigured = {n1, n2}
  Procs = {q1, q2}
  MaxRevision = 40
  MaxSession = 5
  MaxLease = 3
  MaxDelayed = 0
  MaxFaults = 1
  MaxChanges = 0
  PreferenceLists <- MCPreferenceLists
  ProcInstance <- MCProcInstance
INVARIANTS BoundedChurn
PROPERTIES OnlyFreshMessages Convergence

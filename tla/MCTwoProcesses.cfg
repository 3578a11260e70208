SPECIFICATION FaultsOrBothSpec
CONSTANTS
  n1 = n1
  n2 = n2
  p1 = p1
  p2 = p2
  c1 = c1
  c2 = c2
  q1 = q1
  q2 = q2
  q3 = q3
  NoList = NoList
  NoView = NoView
  Instances = {n1, n2}
  Partitions = {p1}
  Placements = {"both", "second"}
  Crush = {}
  Throttled = FALSE
  Controllers = {c1}
  InitPlacement = "both"
  InitConfigured = {n1, n2}
  Procs = {q1, q2, q3}
  MaxRevision = 14
  MaxSession = 3
  MaxLease = 1
  MaxDelayed = 0
  MaxFaults = 1
  MaxChanges = 1
  PreferenceLists <- MCPreferenceLists
  ProcInstance <- MCProcInstance
INVARIANTS ProcessedViewIsExact AtMostOneLeader ObservationIsSound
PROPERTIES OnlyLiveSessionsReport
CHECK_DEADLOCK FALSE

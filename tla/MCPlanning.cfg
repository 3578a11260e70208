SPECIFICATION PlanningFairSpec
CONSTANTS
  n1 = n1
  n2 = n2
  n3 = n3
  p1 = p1
  p2 = p2
  NoList = NoList
  Instances = {n1, n2, n3}
  Partitions = {p1}
  Placements = {"three", "pair", "gone"}
  InitPlacement = "three"
  Crush = {}
  Throttled = TRUE
  MaxSession = 2
  MaxChanges = 1
  PreferenceLists <- MCPreferenceLists
  PartitionOrder <- PartitionSeq
  InstanceOrder <- InstanceSeq
  ResourceOf <- OneResource
  Limits <- OneLoad
INVARIANT StagesAgree
PROPERTIES LimitsKept NothingWithheld Settles
CHECK_DEADLOCK FALSE

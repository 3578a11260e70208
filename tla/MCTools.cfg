SPECIFICATION ToolsSpec
CONSTANTS
  Nodes = {"a", "b"}
  Partitions = {"p"}
  MaxPuts = 2
  MaxTimeouts = 1
  MaxFailures = 1
  ControllerIds <- MCControllers
  InitialIds <- MCParticipants
  Node1 = "n1"
  Node4 = "n4"
  Node5 = "n5"
  ControllerA = "ca"
  ControllerC = "cc"
  Paths = 2
  PrSteps = 22
  NightlySteps = 11
INVARIANTS FaultsAreScoped  ReductionsAreWellFormed ResultIsMinimal 
CHECK_DEADLOCK FALSE

SPECIFICATION ComponentsSpec
CONSTANTS
  m1 = m1
  m2 = m2
  m3 = m3
  p1 = p1
  p2 = p2
  n1 = n1
  n2 = n2
  n3 = n3
  i1 = i1
  i2 = i2
  a1 = a1
  a2 = a2
  a3 = a3
  a4 = a4
  Messages = {m1, m2, m3}
  Parts = {p1, p2}
  PartOf <- MCPartOf
  Injected = {m2}
  Cooperative = {m2}
  Backlogs <- MCBacklogs
  MaxRev = 5
  MaxRetries = 2
  MaxExited = 1
  MaxDrains = 0
  Admins = {a1, a2, a3}
  AdminInstances = {i1, i2}
  AdminZones = {"z1", "z2", "default"}
  Resources = {"r1", "r2", "r3"}
  Job <- Jobs
  MaxTries = 2
  MaxConfigRev = 6
  i3 = i3
  i4 = i4
  Instances = {i1, i2, i3, i4}
  ZoneOf <- MCZoneOf
  Counts = {0, 1, 2, 3}
  MaxRetry = 3
  MaxLoopback = 1
INVARIANTS ComponentsTypeOK PlacementIsSpread RoutesAreShortest GivesUpOnlyUnderContention AppliedIsPlanned
PROPERTIES FrontierCoversWork RemovalIsExact SessionsImplemented
CHECK_DEADLOCK FALSE

SPECIFICATION FairSpec
CONSTANTS
  c1 = c1
  c2 = c2
  c3 = c3
  Controllers = {c1, c2, c3}
  NoLease = NoLease
  FaultKinds = {"answer", "timeout", "shutdown", "crash", "expiry", "slow"}
  MaxFaults = 3
  MaxLease = 5
INVARIANTS AuthorityFollowsLease
PROPERTIES LockSpec FirstComeFirstServed LeaderEmerges
CHECK_DEADLOCK FALSE

SPECIFICATION ClientsSpec
CONSTANTS
  k1 = k1
  k2 = k2
  m1 = m1
  m2 = m2
  p1 = p1
  Keys = {k1, k2}
  Key = k1
  WatchRev = 3
  WatchFaults = 2
  MaxRev = 4
  MaxFaults = 1
  ShortRev = 3
  WorkersRev = 5
  WorkersExited = 1
  MaxLifeFaults = 4
  ReadyFails = TRUE
INVARIANTS ClientsTypeOK ExactlyOnceInOrder IdleCoversThePast EndIsAnnounced
PROPERTIES KeyEventsArrive EveryWaitEnds DrainEnds QueueIsWorkedOff RecoveryIsQuiet ShutdownEnds
CHECK_DEADLOCK FALSE

SPECIFICATION LockSpec
CONSTANTS
  p1 = p1
  p2 = p2
  Processes = {p1, p2}
  WorkerIDs <- OwnOrHosts
  NoWorker = NoWorker
  Lease = 2
  MaxTime = 2
  MaxFaults = 1
  MaxCrashes = 0
INVARIANTS
  LockErrorIsReal
CHECK_DEADLOCK FALSE

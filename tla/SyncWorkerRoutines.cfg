SPECIFICATION FairWorkerSpec
CONSTANTS
  p1 = p1
  p2 = p2
  Jobs = {1, 2}
  Keys = {"k1"}
  Workers <- WorkerIDs
  NoWorker = NoWorker
  Procs <- OneProc
  BaseID <- OwnIDs
  Concurrency = 2
  BatchSize = 2
  PullSize = 2
  MaxAttempts = 2
  MaxCount = 3
  OneByOne = TRUE
  LeaseSized = TRUE
  MaxCancels = 1
  MaxStops = 1
  MaxFaults = 1
INVARIANTS
  BatchesConsistent
PROPERTIES
  EveryChangeSettles
CHECK_DEADLOCK FALSE

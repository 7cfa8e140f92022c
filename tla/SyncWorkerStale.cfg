SPECIFICATION WorkerSpec
CONSTANTS
  p1 = p1
  p2 = p2
  Jobs = {1, 2}
  Keys = {"k1"}
  Workers <- WorkerIDs
  NoWorker = NoWorker
  Procs <- TwoProcs
  BaseID <- OwnIDs
  Concurrency = 1
  BatchSize = 1
  PullSize = 2
  MaxAttempts = 2
  MaxCount = 3
  OneByOne = FALSE
  LeaseSized = TRUE
  MaxCancels = 0
  MaxStops = 0
  MaxFaults = 0
INVARIANTS
  Converged
CHECK_DEADLOCK FALSE

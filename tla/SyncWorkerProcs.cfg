SPECIFICATION WorkerSpec
CONSTANTS
  p1 = p1
  p2 = p2
  Jobs = {1, 2}
  Keys = {"k1"}
  Workers <- WorkerIDs
  NoWorker = NoWorker
  Procs <- TwoProcs
  BaseID <- OwnIDs
  Concurrency = 1
  BatchSize = 2
  PullSize = 2
  MaxAttempts = 2
  MaxCount = 3
  OneByOne = FALSE
  LeaseSized = FALSE
  MaxCancels = 0
  MaxStops = 1
  MaxFaults = 1
SYMMETRY ProcSymmetry
INVARIANTS
  SyncedMeansApplied
  DeadAfterLastAttempt
  ConvergedUnlessOverlapped
CHECK_DEADLOCK FALSE

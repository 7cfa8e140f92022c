SPECIFICATION FairOutboxSpec
CONSTANTS
  w1 = w1
  k1 = k1
  k2 = k2
  Workers <- MCWorkers
  NoWorker = NoWorker
  Keys = {k1, k2}
  NoWindow = NoWindow
  MaxCount = 0
  LockFors = {1}
  Delays = {0}
  MaxAttemptsInputs = {0}
  BatchLimits = {2}
  Syncs = {"s1"}
  Windows = {"v1"}
  Ages = {0, 1}
  PullLimits = {1, 2}
  MaxDeltas = 2
  MaxJobs = 2
  MaxTime = 1
  MaxBatch = 2
INVARIANTS
  RowsConsistent
PROPERTIES
  DispatchesInOrder
  ImplementsOutbox
  PendingIsDispatched
CHECK_DEADLOCK FALSE

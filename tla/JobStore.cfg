SPECIFICATION Spec
CONSTANTS
  w1 = w1
  w2 = w2
  NoWorker = NoWorker
  Workers <- TwoWorkers
  Syncs = {"s1"}
  MaxDeltas = 1
  MaxJobs = 2
  MaxTime = 3
  MaxCount = 2
  LockFors = {1, 2}
  Delays = {0, 1}
  MaxAttemptsInputs = {0}
  BatchLimits = {2}
SYMMETRY WorkerSymmetry
INVARIANTS
  TypeOK
  LeaseWellFormed
  OneOutboxJobPerDelta
PROPERTIES
  LiveLeaseKept
  ClaimsInOrder
  ImplementsJobLease
CHECK_DEADLOCK FALSE

SPECIFICATION JobsSpec
CONSTANTS
  c1 = c1
  c2 = c2
  NoWorker = NoWorker
  Clients <- TwoClients
  Syncs = {"s1"}
  MaxJobs = 2
  MaxTime = 1
  MaxCount = 1
  LockFors = {1}
  Delays = {0}
  BatchLimits = {2}
  MaxFaults = 1
SYMMETRY ClientSymmetry
INVARIANTS
  LeasesConsistent
  NoUnknownLease
  BatchIsDistinct
PROPERTIES
  LateCallsAreHarmless
  ImplementsJobLease
CHECK_DEADLOCK FALSE

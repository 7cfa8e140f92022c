SPECIFICATION JobsSpec
CONSTANTS
  c1 = c1
  c2 = c2
  NoWorker = NoWorker
  Clients <- TwoClients
  Syncs = {"s1"}
  MaxJobs = 2
  MaxTime = 2
  MaxCount = 1
  LockFors = {1, 2}
  Delays = {0, 1}
  BatchLimits = {1, 2}
  Skews <- OneMayBeAhead
SYMMETRY ClientSymmetry
INVARIANTS
  LeasesConsistent
PROPERTIES
  LateCallsAreHarmless
  ClaimsInOrder
  ImplementsJobLease
CHECK_DEADLOCK FALSE

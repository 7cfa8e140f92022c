SPECIFICATION FairOutboxSpec
CONSTANTS
  p1 = p1
  p2 = p2
  d1 = d1
  d2 = d2
  DB = DB
  NoWindow = NoWindow
  Producers = {p1, p2}
  Dispatchers = {d1, d2}
  Mappers = {"m1"}
  Inputs <- OppositeOrders
  Syncs = {"s1"}
  Keys = {"k1", "k2"}
  Windows = {"w1"}
  Ages = {0, 1}
  MaxDeltas = 2
  PullLimits = {1, 2}
  MaxAborts = 1
INVARIANTS
  RecordsConsistent
  WaitsAreConfined
PROPERTIES
  PullsInOrder
  ImplementsOutbox
  PendingIsDispatched
CHECK_DEADLOCK FALSE

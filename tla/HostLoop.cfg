SPECIFICATION FairHostSpec
CONSTANTS
  c1 = c1
  c2 = c2
  w1 = w1
  w2 = w2
  Changes = {c1, c2}
  Workers = {w1, w2}
  PullSize = 1
  BatchSize = 2
  MaxAttempts = 2
  MaxFaults = 1
INVARIANTS
  CompletionIsTrue
PROPERTIES
  DrainEnds
CHECK_DEADLOCK FALSE

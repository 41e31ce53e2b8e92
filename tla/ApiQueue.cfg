CONSTANTS
  Requests = {r1, r2, r3, r4}
  Workers = {w1, w2}
  Capacity = 2
  Nothing = Nothing
SPECIFICATION FairSpec
INVARIANTS NoLostWakeup
PROPERTIES RequestsComplete ImplementsService
CHECK_DEADLOCK FALSE

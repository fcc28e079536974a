\* Concurrent transactions on a row that does not exist yet, one of them recosting.
\* No deadlock check: the transactions end.
SPECIFICATION FairSpec
CONSTANTS
  Scale = 1
  Proc = {p1, p2, p3, p4}
  Recosting = {p4}
  None = None
  Initial <- Missing
  Delta <- Deltas
  Rates = {2}
  RateDelta <- RateDeltas
INVARIANTS QuantityIsExact CostMemoryPolicy
PROPERTIES EveryTransactionEnds
CHECK_DEADLOCK FALSE

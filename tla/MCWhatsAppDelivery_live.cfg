\* An occurrence of two files, one of which may fail.  Liveness: no symmetry.
SPECIFICATION FairSpec
CONSTANTS
  Worker = {w1, w2}
  NoWorker = none
  LastDay = 1
  NAtt = 2
INVARIANTS SentMeansDelivered
PROPERTIES ClaimsAreReleased
CHECK_DEADLOCK FALSE

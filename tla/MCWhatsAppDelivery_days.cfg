\* Two scheduler instances over two days, one file a day.
\* No deadlock check: the schedule ends with LastDay.
SPECIFICATION Spec
CONSTANTS
  Worker = {w1, w2}
  NoWorker = none
  LastDay = 2
  NAtt = 1
SYMMETRY WorkerSymmetry
INVARIANTS OneSender AtMostOnce
PROPERTIES AmbiguousIsFinal ImplementsOncePerFile
CHECK_DEADLOCK FALSE

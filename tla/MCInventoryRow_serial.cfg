SPECIFICATION Spec
CONSTANTS
  Scale = 1
  Proc = {p1, p2, p3, p4}
  Recosting = {}
  None = None
  Initial <- Short
  Delta <- Deltas
  Rates = {1, 3}
  RateDelta <- RateDeltas
SYMMETRY ProcSymmetry
INVARIANTS LayersUnderRow ShortageIsLayered
PROPERTIES Serializable
CHECK_DEADLOCK FALSE

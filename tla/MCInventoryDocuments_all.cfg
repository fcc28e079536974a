\* Every kind of document, in thirds of a unit: one third and one whole unit.
\* No deadlock check: a document is posted and deleted once.
SPECIFICATION Spec
CONSTANTS
  Scale = 3
  Doc = {d1, d2, d3, d4}
  NoDoc = NoDoc
  Deleted = Deleted
  Kinds = {"sale", "transfer in", "transfer out", "offload", "production", "consumption"}
  Amount = {1, 3}
  Rates = {1, 4}
  OpeningRate = 2
SYMMETRY DocSymmetry
INVARIANTS HelpersKeepLayers HelpersKeepPolicy RateMatchesValue QuantityIsDocumented
PROPERTIES NoopEditIsNeutral
CHECK_DEADLOCK FALSE

----------------------- MODULE MCLocationStockDelivery -----------------------
(* Small instances of LocationStockDelivery for TLC. *)
EXTENDS LocationStockDelivery, TLC

Symmetry == Permutations(Proc) \cup Permutations(Day)

=============================================================================

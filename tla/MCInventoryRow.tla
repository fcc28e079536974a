--------------------------- MODULE MCInventoryRow ---------------------------
(* Instances of InventoryRow for TLC. *)
EXTENDS InventoryRow, TLC

\* The stocks to start from: short, and a row that is missing.
Short == [exists |-> TRUE, qty |-> -2, rate |-> 3, value |-> 0, short |-> 2]
Missing == NoStock

Deltas == {-3, 1, 4}
RateDeltas == {-1, 2}

ProcSymmetry == Permutations(Proc \ Recosting)

=============================================================================

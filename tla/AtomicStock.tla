----------------------------- MODULE AtomicStock -----------------------------
(***************************************************************************)
(* What adjustInventory promises its callers: the row moves by one whole   *)
(* adjustment at a time, each applied to the result of the one before.     *)
(***************************************************************************)
EXTENDS StockArithmetic

CONSTANTS
  Initial,   \* the stock before
  Delta,     \* the signed quantities of the adjustments
  Rates      \* their rates

VARIABLE stock

Init == stock = Initial

Adjust == \E delta \in Delta, r \in Rates : stock' = Adjusted(stock, delta, r)

Spec == Init /\ [][Adjust]_stock

=============================================================================

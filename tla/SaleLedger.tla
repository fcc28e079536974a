----------------------------- MODULE SaleLedger -----------------------------
(***************************************************************************)
(* What the POS promises about its sales, whatever requests overlap, are   *)
(* lost or are sent again: a sale is sold once, with the quantities its    *)
(* client asked for, edits and the deletion replace or take back exactly   *)
(* what it holds, and the stock moves in the same step.                    *)
(***************************************************************************)
EXTENDS Integers

CONSTANTS SaleId, Item, Wanted, Edited, Opening

VARIABLES stock, sale

NoSaleYet == [status |-> "none", items |-> [i \in Item |-> 0]]

Init ==
  /\ stock = Opening
  /\ sale = [s \in SaleId |-> NoSaleYet]

\* The sale s changes from what it is to status st and quantities b.
Become(s, st, b) ==
  /\ sale' = [sale EXCEPT ![s] = [status |-> st, items |-> b]]
  /\ stock' = [i \in Item |-> stock[i] + sale[s].items[i] - b[i]]

Sell(s) == sale[s].status = "none" /\ Become(s, "active", Wanted[s])

Amend(s) == sale[s].status = "active" /\ \E b \in Edited : Become(s, "active", b)

Withdraw(s) == sale[s].status # "none" /\ Become(s, "deleted", [i \in Item |-> 0])

Spec == Init /\ [][\E s \in SaleId : Sell(s) \/ Amend(s) \/ Withdraw(s)]_<<stock, sale>>

=============================================================================

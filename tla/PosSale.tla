------------------------------- MODULE PosSale -------------------------------
(***************************************************************************)
(* POS sales as concurrent database transactions.  Sellers submit sales,   *)
(* each with the identity its client chose, and submit it again when they  *)
(* do not learn what became of it; maintainers edit and delete the stored  *)
(* sales.  A transaction locks the inventory rows of its items one by one  *)
(* while others run.                                                       *)
(*                                                                         *)
(* The rows exist (a sale is refused otherwise) and carry quantities here; *)
(* what a movement does to rate, value and layers is StockArithmetic.  The *)
(* lines of a sale for one item are added up.  saleLock stands for the     *)
(* locks on the voucher row and on the rows of its items.                  *)
(***************************************************************************)
EXTENDS Integers, FiniteSetsExt, Functions

CONSTANTS
  Seller,       \* requests that create a sale
  Maintainer,   \* requests that edit or delete one
  Privileged,   \* those whose user can sell negative stock
  SaleId,       \* the client sale ids
  None,         \* no request, or no sale
  NItem,        \* how many items there are
  Wanted,       \* the quantities each client sale asks for
  Edited,       \* the quantities an edit may ask for
  Opening       \* the stock before

\* The items of the location, in the order of their ids.
Item == 1 .. NItem

Request == Seller \cup Maintainer

Basket == [Item -> Nat]

Nothing == [i \in Item |-> 0]

Support(b) == {i \in Item : b[i] > 0}

ASSUME PosAssumption ==
  /\ IsFiniteSet(SaleId)
  /\ NItem \in Nat
  /\ Seller \cap Maintainer = {}
  /\ None \notin Request \cup SaleId
  /\ Wanted \in [SaleId -> Basket]
  /\ \A s \in SaleId : Support(Wanted[s]) # {}
  /\ Edited \subseteq Basket
  /\ \A b \in Edited : Support(b) # {}
  /\ Opening \in [Item -> Int]

VARIABLES
  stock,      \* the committed quantity of each item
  sale,       \* the committed sales
  rowLock,    \* who holds each inventory row
  keyLock,    \* who holds the advisory lock of each client sale id
  saleLock,   \* who holds each stored sale
  pc,         \* where each request is
  tx,         \* its variables and the rows it has written
  answer      \* what the client of a sale was told last

vars == <<stock, sale, rowLock, keyLock, saleLock, pc, tx, answer>>

\* id: the sale; want: the quantities asked for; old: the quantities it had;
\* left: the items still to do; row: the rows written; wrote: it has committed.
NoTx == [id |-> None, want |-> Nothing, old |-> Nothing, left |-> {}, row |-> Nothing,
         wrote |-> FALSE]

NoSaleYet == [status |-> "none", items |-> Nothing]

Init ==
  /\ stock = Opening
  /\ sale = [s \in SaleId |-> NoSaleYet]
  /\ rowLock = [i \in Item |-> None]
  /\ keyLock = [s \in SaleId |-> None]
  /\ saleLock = [s \in SaleId |-> None]
  /\ pc = [p \in Request |-> "idle"]
  /\ tx = [p \in Request |-> NoTx]
  /\ answer = [p \in Request |-> "none"]

Goto(p, l) == pc' = [pc EXCEPT ![p] = l]

Active(s) == sale[s].status = "active"

Free(lock, p) == lock \in {None, p}

\* p's own transaction sees what it wrote itself.
Seen(p, i) == IF rowLock[i] = p THEN tx[p].row[i] ELSE stock[i]

\* The order in which items are locked.
Lowest(p) == Min(tx[p].left)

\* p's variables once it has moved item i by q.
Moved(p, i, q) ==
  [tx[p] EXCEPT !.row = [@ EXCEPT ![i] = Seen(p, i) + q], !.left = @ \ {i}]

\* Mutation of Move: the row is read without FOR UPDATE.
MoveUnlocked(p, i, q) ==
  /\ rowLock' = [rowLock EXCEPT ![i] = p]
  /\ tx' = [tx EXCEPT ![p] = Moved(p, i, q)]

\* p locks the row of item i, waiting for its holder, and moves it by q.
Move(p, i, q) ==
  /\ Free(rowLock[i], p)
  /\ rowLock' = [rowLock EXCEPT ![i] = p]
  /\ tx' = [tx EXCEPT ![p] = Moved(p, i, q)]

\* The end of p's transaction frees what it holds.
Unlocked(lock, p) == [x \in DOMAIN lock |-> IF lock[x] = p THEN None ELSE lock[x]]

\* Mutation of ReleaseLocks: the advisory lock is one of the session.
ReleaseRows(p) ==
  /\ rowLock' = Unlocked(rowLock, p)
  /\ saleLock' = Unlocked(saleLock, p)
  /\ UNCHANGED keyLock

ReleaseLocks(p) ==
  /\ rowLock' = Unlocked(rowLock, p)
  /\ keyLock' = Unlocked(keyLock, p)
  /\ saleLock' = Unlocked(saleLock, p)

Locks == <<rowLock, keyLock, saleLock>>

Committed == <<stock, sale>>

\* p's transaction commits its rows.
CommitRows(p) ==
  /\ stock' = [i \in Item |-> Seen(p, i)]
  /\ ReleaseLocks(p)

Finish(p, reply) ==
  /\ Goto(p, "idle")
  /\ tx' = [tx EXCEPT ![p] = NoTx]
  /\ answer' = [answer EXCEPT ![p] = reply]

Rollback(p) == ReleaseLocks(p) /\ UNCHANGED Committed

\* Item i is short for p's want, and p's user may not sell what is not there.
Refused(p, i) == Seen(p, i) < tx[p].want[i] /\ p \notin Privileged

\* A failed request looks for its sale next; wrote says whether it stored it.
Recheckable(p, wrote) ==
  /\ Goto(p, "recheck")
  /\ tx' = [tx EXCEPT ![p] = [NoTx EXCEPT !.id = tx[p].id, !.wrote = wrote]]

-----------------------------------------------------------------------------
(* createPosSale *)

\* The checks before the transaction; a stored sale is answered again at once,
\* unless reading it fails.
Submit(p) ==
  /\ p \in Seller /\ pc[p] = "idle"
  /\ \E s \in SaleId :
       IF Active(s)
       THEN \E reply \in {"sold", "failed"} : Finish(p, reply)
       ELSE /\ tx' = [tx EXCEPT ![p] = [NoTx EXCEPT !.id = s, !.want = Wanted[s],
                                                   !.left = Support(Wanted[s])]]
            /\ Goto(p, "check")
            /\ answer' = [answer EXCEPT ![p] = "none"]
  /\ UNCHANGED <<Committed, Locks>>

\* Availability is checked item by item, without locks.
CheckItem(p) ==
  /\ pc[p] = "check"
  /\ \E i \in tx[p].left :
       IF Refused(p, i)
       THEN Recheckable(p, FALSE)
       ELSE /\ tx' = [tx EXCEPT ![p].left = IF @ = {i} THEN Support(tx[p].want) ELSE @ \ {i}]
            /\ IF tx[p].left = {i} THEN Goto(p, "key") ELSE UNCHANGED pc
  /\ UNCHANGED <<Committed, Locks, answer>>

\* pg_advisory_xact_lock waits for the holder of the same client sale id.
LockKey(p) ==
  /\ pc[p] = "key"
  /\ keyLock[tx[p].id] = None
  /\ keyLock' = [keyLock EXCEPT ![tx[p].id] = p]
  /\ Goto(p, "find")
  /\ UNCHANGED <<Committed, rowLock, saleLock, tx, answer>>

\* The sale was stored meanwhile: its transaction ends and it is answered again,
\* unless reading its location fails.
Replay(p) ==
  /\ pc[p] = "find"
  /\ Active(tx[p].id)
  /\ Rollback(p)
  /\ \E reply \in {"sold", "failed"} : Finish(p, reply)

\* The voucher of a deleted sale keeps its client sale id, which is unique.
Collide(p) ==
  /\ pc[p] = "find"
  /\ sale[tx[p].id].status = "deleted"
  /\ Rollback(p)
  /\ Recheckable(p, FALSE)
  /\ UNCHANGED answer

InsertVoucher(p) ==
  /\ pc[p] = "find"
  /\ sale[tx[p].id].status = "none"
  /\ Goto(p, "deduct")
  /\ UNCHANGED <<Committed, Locks, tx, answer>>

\* Mutation of Deduct: availability is not checked again under the lock.
DeductUnchecked(p) ==
  /\ pc[p] = "deduct" /\ tx[p].left # {}
  /\ Move(p, Lowest(p), -tx[p].want[Lowest(p)])
  /\ UNCHANGED <<Committed, keyLock, saleLock, pc, answer>>

\* Mutation of Deduct: the items are locked in any order.
DeductInAnyOrder(p) ==
  /\ pc[p] = "deduct"
  /\ \E i \in tx[p].left :
       /\ ~Refused(p, i)
       /\ Move(p, i, -tx[p].want[i])
  /\ UNCHANGED <<Committed, keyLock, saleLock, pc, answer>>

\* lockAndDeductInventoryForSaleItem, in the order of the items.
Deduct(p) ==
  /\ pc[p] = "deduct" /\ tx[p].left # {}
  /\ ~Refused(p, Lowest(p))
  /\ Move(p, Lowest(p), -tx[p].want[Lowest(p)])
  /\ UNCHANGED <<Committed, keyLock, saleLock, pc, answer>>

\* The locked row is short: the transaction is rolled back.
Refuse(p) ==
  /\ pc[p] = "deduct" /\ tx[p].left # {}
  /\ Free(rowLock[Lowest(p)], p)
  /\ Refused(p, Lowest(p))
  /\ Rollback(p)
  /\ Recheckable(p, FALSE)
  /\ UNCHANGED answer

\* The commit may be heard of, or be reported as an error.
CommitSale(p) ==
  /\ pc[p] = "deduct" /\ tx[p].left = {}
  /\ CommitRows(p)
  /\ sale' = [sale EXCEPT ![tx[p].id] = [status |-> "active", items |-> tx[p].want]]
  /\ \/ Finish(p, "sold")
     \/ Recheckable(p, TRUE) /\ UNCHANGED answer

\* Mutation of Recheck: an error is passed on without looking.
RecheckNothing(p) ==
  /\ pc[p] = "recheck"
  /\ Finish(p, "failed")
  /\ UNCHANGED <<Committed, Locks>>

\* After an error, checkIdempotentSale looks whether the sale is there.
Recheck(p) ==
  /\ pc[p] = "recheck"
  /\ Finish(p, IF Active(tx[p].id) THEN "sold" ELSE "failed")
  /\ UNCHANGED <<Committed, Locks>>

-----------------------------------------------------------------------------
(* applyPosSaleUpdateTx *)

\* The voucher and its items are locked and read; a sale that is not there, or
\* deleted, is not edited.
BeginEdit(p) ==
  /\ p \in Maintainer /\ pc[p] = "idle"
  /\ \E s \in SaleId, b \in Edited :
       /\ saleLock[s] = None
       /\ Active(s)
       /\ saleLock' = [saleLock EXCEPT ![s] = p]
       /\ tx' = [tx EXCEPT ![p] = [NoTx EXCEPT !.id = s, !.want = b, !.old = sale[s].items,
                                              !.left = Support(sale[s].items)]]
  /\ Goto(p, "restore")
  /\ UNCHANGED <<Committed, rowLock, keyLock, answer>>

\* Mutation of Restore: the new quantity is put back.
RestoreWanted(p) ==
  /\ pc[p] = "restore" /\ tx[p].left # {}
  /\ Move(p, Lowest(p), tx[p].want[Lowest(p)])
  /\ UNCHANGED <<Committed, keyLock, saleLock, pc, answer>>

\* reverseOriginalSaleInventory
Restore(p) ==
  /\ pc[p] = "restore" /\ tx[p].left # {}
  /\ Move(p, Lowest(p), tx[p].old[Lowest(p)])
  /\ UNCHANGED <<Committed, keyLock, saleLock, pc, answer>>

BeginRebuild(p) ==
  /\ pc[p] = "restore" /\ tx[p].left = {}
  /\ tx' = [tx EXCEPT ![p].left = Support(tx[p].want)]
  /\ Goto(p, "look")
  /\ UNCHANGED <<Committed, Locks, answer>>

\* rebuildSaleItems reads what is available without locking the row ..
Look(p) ==
  /\ pc[p] = "look" /\ tx[p].left # {}
  /\ IF Refused(p, Lowest(p))
     THEN Rollback(p) /\ Finish(p, "none")
     ELSE Goto(p, "issue") /\ UNCHANGED <<Committed, Locks, tx, answer>>

\* .. and locks it to move it.
Issue(p) ==
  /\ pc[p] = "issue"
  /\ Move(p, Lowest(p), -tx[p].want[Lowest(p)])
  /\ Goto(p, "look")
  /\ UNCHANGED <<Committed, keyLock, saleLock, answer>>

\* Mutation of CommitEdit: the cleared items are not written again.
CommitEditCleared(p) ==
  /\ pc[p] = "look" /\ tx[p].left = {}
  /\ CommitRows(p)
  /\ sale' = [sale EXCEPT ![tx[p].id].items = Nothing]
  /\ Finish(p, "none")

CommitEdit(p) ==
  /\ pc[p] = "look" /\ tx[p].left = {}
  /\ CommitRows(p)
  /\ sale' = [sale EXCEPT ![tx[p].id].items = tx[p].want]
  /\ Finish(p, "none")

-----------------------------------------------------------------------------
(* DELETE /api/vouchers/:id *)

\* The items are read without a lock, and whether or not the sale is deleted.
BeginDelete(p) ==
  /\ p \in Maintainer /\ pc[p] = "idle"
  /\ \E s \in SaleId :
       /\ sale[s].status # "none"
       /\ tx' = [tx EXCEPT ![p] = [NoTx EXCEPT !.id = s, !.old = sale[s].items,
                                              !.left = Support(sale[s].items)]]
  /\ Goto(p, "putback")
  /\ UNCHANGED <<Committed, Locks, answer>>

\* The items come in no order.
PutBack(p) ==
  /\ pc[p] = "putback"
  /\ \E i \in tx[p].left : Move(p, i, tx[p].old[i])
  /\ UNCHANGED <<Committed, keyLock, saleLock, pc, answer>>

\* The items are deleted and the voucher is marked.  The DELETE may have begun
\* before an edit committed, whose new items then survive it.
CommitDelete(p) ==
  /\ pc[p] = "putback" /\ tx[p].left = {}
  /\ saleLock[tx[p].id] = None
  /\ CommitRows(p)
  /\ \E rest \in {Nothing} \cup ({sale[tx[p].id].items} \ {tx[p].old}) :
       sale' = [sale EXCEPT ![tx[p].id] = [status |-> "deleted", items |-> rest]]
  /\ Finish(p, "none")

-----------------------------------------------------------------------------
\* An error in the transaction, such as being chosen as a deadlock's victim.
Fail(p) ==
  /\ pc[p] \notin {"idle", "recheck"}
  /\ Rollback(p)
  /\ IF p \in Seller
     THEN Recheckable(p, FALSE) /\ UNCHANGED answer
     ELSE Finish(p, "none")

\* An error elsewhere, be it in the second look itself, is passed on as it is.
PassOn(p) ==
  /\ p \in Seller
  /\ pc[p] \in {"check", "key", "recheck"}
  /\ Finish(p, "failed")
  /\ UNCHANGED <<Committed, Locks>>

\* The server or the connection dies: the client does not learn the outcome.
Lose(p) ==
  /\ pc[p] # "idle"
  /\ Rollback(p)
  /\ Finish(p, "none")

\* The steps the server takes by itself.
Advance(p) ==
  \/ CheckItem(p) \/ LockKey(p) \/ Replay(p) \/ Collide(p) \/ InsertVoucher(p)
  \/ Deduct(p) \/ Refuse(p) \/ CommitSale(p) \/ Recheck(p)
  \/ Restore(p) \/ BeginRebuild(p) \/ Look(p) \/ Issue(p) \/ CommitEdit(p)
  \/ PutBack(p) \/ CommitDelete(p)

Next ==
  \E p \in Request :
    \/ Advance(p) \/ Submit(p) \/ BeginEdit(p) \/ BeginDelete(p)
    \/ Fail(p) \/ PassOn(p) \/ Lose(p)

Spec == Init /\ [][Next]_vars

-----------------------------------------------------------------------------
(* Waiting *)

\* The item rows p cannot go on without one of.
Awaited(p) ==
  CASE pc[p] \in {"deduct", "restore", "issue"} /\ tx[p].left # {} -> {Lowest(p)}
    [] pc[p] = "putback" -> tx[p].left
    [] OTHER -> {}

\* The requests that hold what p waits for; none, if p can go on.
Holders(p) ==
  IF pc[p] = "key" THEN {keyLock[tx[p].id]} \ {None}
  ELSE IF pc[p] = "putback" /\ tx[p].left = {} THEN {saleLock[tx[p].id]} \ {None}
  ELSE IF \E i \in Awaited(p) : Free(rowLock[i], p) THEN {}
  ELSE {rowLock[i] : i \in Awaited(p)}

Stuck(S) == S # {} /\ \A p \in S : Holders(p) # {} /\ Holders(p) \subseteq S

Deadlocked(p) == \E S \in SUBSET Request : p \in S /\ Stuck(S)

\* Waiters of a lock are served in order, statements end, and the server breaks
\* a deadlock by failing one of its transactions.
FairSpec ==
  /\ Spec
  /\ \A p \in Request : SF_vars(Advance(p)) /\ WF_vars(Deadlocked(p) /\ Fail(p))

-----------------------------------------------------------------------------
TypeOK ==
  /\ stock \in [Item -> Int]
  /\ sale \in [SaleId -> [status : {"none", "active", "deleted"}, items : Basket]]
  /\ \A s \in SaleId : Active(s) => Support(sale[s].items) # {}
  /\ rowLock \in [Item -> Request \cup {None}]
  /\ keyLock \in [SaleId -> Seller \cup {None}]
  /\ saleLock \in [SaleId -> Maintainer \cup {None}]
  /\ pc \in [Request -> {"idle", "check", "key", "find", "deduct", "recheck",
                         "restore", "look", "issue", "putback"}]
  /\ tx \in [Request -> [id : SaleId \cup {None}, want : Basket, old : Basket,
                         left : SUBSET Item, row : [Item -> Int], wrote : BOOLEAN]]
  /\ answer \in [Request -> {"none", "sold", "failed"}]

\* Every sale is sold, edited and withdrawn as a whole, once, together with its
\* stock, however sales and one maintainer overlap, fail and are repeated.  It
\* does not hold of two deletions of one sale at the same time.
Ledger == INSTANCE SaleLedger
ImplementsSaleLedger == Ledger!Spec

\* What is missing from the stock is what the stored sales hold.
StockIsSold ==
  \A i \in Item :
    stock[i] = Opening[i] - SumFunction([s \in SaleId |-> sale[s].items[i]])

\* "prevents deadlocks when two cashiers sell the same items"
\* (buildSaleItems.ts:115): no set of sales waits on itself.
SalesNeverDeadlock == \A S \in SUBSET Seller : ~Stuck(S)

\* "If stock goes below zero and the user does not have negative-stock
\* permission .. the sale is blocked" (docs/pos-flow.md:40), although the check
\* before the transaction has seen enough: a request without the permission
\* takes no row below zero, with one exception.  An edit that adds an item to
\* its sale looks at that row before it locks it, and can oversell it.
OnlyPrivilegedOversell ==
  [][\A p \in Request \ Privileged, i \in Item :
       CommitRows(p) /\ stock'[i] < stock[i] =>
         stock'[i] >= 0 \/ (p \in Maintainer /\ tx[p].old[i] = 0)]_vars

\* A sale that its request has stored, although the commit was reported as an
\* error, is found by the second look whatever has happened to it meanwhile,
\* unless it was deleted.  Only when that look fails as well is its error passed
\* on to the client (PassOn; createSaleService.ts:337).
CommittedIsNotFailed ==
  [][\A p \in Seller :
       Recheck(p) /\ tx[p].wrote =>
         answer'[p] = "sold" \/ sale[tx[p].id].status = "deleted"]_vars

\* Every request comes to an end.
EveryRequestEnds == \A p \in Request : pc[p] # "idle" ~> pc[p] = "idle"

=============================================================================

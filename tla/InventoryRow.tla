---------------------------- MODULE InventoryRow ----------------------------
(***************************************************************************)
(* Concurrent transactions on one inventory row.                           *)
(*                                                                         *)
(* Each transaction runs adjustInventory: it reads the row FOR UPDATE,     *)
(* settles or adds negative layers, writes the row and commits.  Isolation *)
(* is READ COMMITTED: a statement sees what was committed before it, and   *)
(* only row locks order the transactions.  A row that does not exist       *)
(* cannot be locked: the transaction goes on to insert it, and merges its  *)
(* row into the one that a concurrent transaction has inserted meanwhile.  *)
(*                                                                         *)
(* A recosting is the update that follows an edit of the charges of a      *)
(* container offload.  It runs outside any transaction: one statement      *)
(* reads the row, without a lock, and another one writes it.               *)
(*                                                                         *)
(* stock is the committed state.  Of the layers only the total counts, so  *)
(* one lock stands for the locks on all of them; a SELECT FOR UPDATE that  *)
(* finds no layer locks nothing.                                           *)
(***************************************************************************)
EXTENDS StockArithmetic, FiniteSets, Functions

CONSTANTS
  Proc,        \* the transactions
  Recosting,   \* those of them that recost
  None,        \* no transaction
  Initial,     \* the stock before
  Delta,       \* the signed quantities of the adjustments
  Rates,       \* their rates
  RateDelta    \* the changes a recosting makes to the rate

ASSUME RowAssumption ==
  /\ IsFiniteSet(Proc)
  /\ None \notin Proc
  /\ Recosting \subseteq Proc
  /\ Initial \in Stock
  /\ Initial.exists \/ Initial = NoStock
  /\ Delta \subseteq Int \ {0}
  /\ Rates \subseteq Nat
  /\ RateDelta \subseteq Int

VARIABLES
  stock,       \* the committed row and the total of its committed layers
  rowLock,     \* who holds the row, or has inserted it and not committed
  layerLock,   \* who holds the layers
  pc,          \* where each transaction is
  move,        \* what it moves: [delta, rate]
  row,         \* the row it has read, or is about to insert, or has written
  layers       \* what it adds to the total of the layers

vars == <<stock, rowLock, layerLock, pc, move, row, layers>>

Location == {"idle", "select", "locked", "absent", "insert", "written", "recost", "done"}

NoMove == [delta |-> 0, rate |-> 0]

Init ==
  /\ stock = Initial
  /\ rowLock = None
  /\ layerLock = None
  /\ pc = [p \in Proc |-> "idle"]
  /\ move = [p \in Proc |-> NoMove]
  /\ row = [p \in Proc |-> NoStock]
  /\ layers = [p \in Proc |-> 0]

Goto(p, l) == pc' = [pc EXCEPT ![p] = l]

-----------------------------------------------------------------------------
(* adjustInventory *)

Begin(p) ==
  /\ pc[p] = "idle"
  /\ p \notin Recosting
  /\ \E d \in Delta, r \in Rates : move' = [move EXCEPT ![p] = [delta |-> d, rate |-> r]]
  /\ Goto(p, "select")
  /\ UNCHANGED <<stock, rowLock, layerLock, row, layers>>

\* Mutation of SelectRow: the row is read without FOR UPDATE.
SelectRowUnlocked(p) ==
  /\ pc[p] = "select"
  /\ stock.exists
  /\ row' = [row EXCEPT ![p] = stock]
  /\ Goto(p, "locked")
  /\ UNCHANGED <<stock, rowLock, layerLock, move, layers>>

\* Mutation of SelectRow: the layers of a short row are locked before the row.
SelectLayersFirst(p) ==
  /\ pc[p] = "select"
  /\ stock.exists
  /\ IF stock.short > 0 /\ layerLock # p
     THEN /\ layerLock = None
          /\ layerLock' = p
          /\ UNCHANGED <<rowLock, row, pc>>
     ELSE /\ rowLock = None
          /\ rowLock' = p
          /\ row' = [row EXCEPT ![p] = stock]
          /\ Goto(p, "locked")
          /\ UNCHANGED layerLock
  /\ UNCHANGED <<stock, move, layers>>

\* SELECT .. FOR UPDATE waits for the holder of the row.
SelectRow(p) ==
  /\ pc[p] = "select"
  /\ stock.exists
  /\ rowLock = None
  /\ rowLock' = p
  /\ row' = [row EXCEPT ![p] = stock]
  /\ Goto(p, "locked")
  /\ UNCHANGED <<stock, layerLock, move, layers>>

\* There is no committed row: nothing is locked.
SelectNothing(p) ==
  /\ pc[p] = "select"
  /\ ~stock.exists
  /\ Goto(p, "absent")
  /\ UNCHANGED <<stock, rowLock, layerLock, move, row, layers>>

\* The SELECT .. FOR UPDATE of settleNegativeLayers.
LockLayers(p) ==
  IF stock.short = 0
  THEN layerLock' = layerLock
  ELSE layerLock = None /\ layerLock' = p

\* Transaction p, which has read row s, is to write s adjusted, and the layers
\* settled or added with it.
Compute(p, s) ==
  LET after == Adjusted([s EXCEPT !.short = stock.short], move[p].delta, move[p].rate)
  IN /\ row' = [row EXCEPT ![p] = after]
     /\ layers' = [layers EXCEPT ![p] = after.short - stock.short]

\* The layers are only touched by an incoming quantity while the row is short.
AdjustRow(p) ==
  /\ pc[p] = "locked"
  /\ IF move[p].delta > 0 /\ row[p].qty < 0 THEN LockLayers(p) ELSE layerLock' = layerLock
  /\ Compute(p, row[p])
  /\ Goto(p, "written")
  /\ UNCHANGED <<stock, rowLock, move>>

\* Without a row, the layers are settled before the insert, or added.
AdjustNothing(p) ==
  /\ pc[p] = "absent"
  /\ IF move[p].delta > 0 THEN LockLayers(p) ELSE layerLock' = layerLock
  /\ Compute(p, NoStock)
  /\ Goto(p, "insert")
  /\ UNCHANGED <<stock, rowLock, move>>

\* Mutation of Insert: ON CONFLICT overwrites the row.
InsertOverwrites(p) ==
  /\ pc[p] = "insert"
  /\ rowLock = None
  /\ rowLock' = p
  /\ Goto(p, "written")
  /\ UNCHANGED <<stock, layerLock, move, row, layers>>

\* INSERT .. ON CONFLICT waits for a concurrent insert, and for the row's lock.
Insert(p) ==
  /\ pc[p] = "insert"
  /\ rowLock = None
  /\ rowLock' = p
  /\ row' = [row EXCEPT ![p] = IF stock.exists THEN Merged(stock, @) ELSE @]
  /\ Goto(p, "written")
  /\ UNCHANGED <<stock, layerLock, move, layers>>

ReleaseLocks(p) ==
  /\ rowLock' = IF rowLock = p THEN None ELSE rowLock
  /\ layerLock' = IF layerLock = p THEN None ELSE layerLock

\* The variables of the transaction are gone.
Forget(p) ==
  /\ row' = [row EXCEPT ![p] = NoStock]
  /\ layers' = [layers EXCEPT ![p] = 0]

Commit(p) ==
  /\ pc[p] = "written"
  /\ stock' = [row[p] EXCEPT !.short = stock.short + layers[p]]
  /\ ReleaseLocks(p)
  /\ Forget(p)
  /\ Goto(p, "done")
  /\ UNCHANGED move

Active == {"select", "locked", "absent", "insert", "written"}

\* Mutation of Abort: an error path leaves the transaction open.
AbortLeavingOpen(p) ==
  /\ pc[p] \in Active
  /\ Forget(p)
  /\ move' = [move EXCEPT ![p] = NoMove]
  /\ Goto(p, "idle")
  /\ UNCHANGED <<stock, rowLock, layerLock>>

\* An error, a lost connection or the choice of p as a deadlock's victim: the
\* transaction is rolled back, and the caller may try again.
Abort(p) ==
  /\ pc[p] \in Active
  /\ ReleaseLocks(p)
  /\ Forget(p)
  /\ move' = [move EXCEPT ![p] = NoMove]
  /\ Goto(p, "idle")
  /\ UNCHANGED stock

-----------------------------------------------------------------------------
(* applyInventoryRateDeltaAndSync *)

RecostRead(p) ==
  /\ pc[p] = "idle"
  /\ p \in Recosting
  /\ stock.exists
  /\ row' = [row EXCEPT ![p] = stock]
  /\ \E d \in RateDelta :
       move' = [move EXCEPT ![p] = [delta |-> 0, rate |-> Larger(stock.rate + d, 0)]]
  /\ Goto(p, "recost")
  /\ UNCHANGED <<stock, rowLock, layerLock, layers>>

\* The UPDATE waits for the row; it writes the value of the quantity it has read.
RecostWrite(p) ==
  /\ pc[p] = "recost"
  /\ rowLock = None
  /\ stock' = [stock EXCEPT !.rate = move[p].rate,
                            !.value = Rounded(row[p].qty * move[p].rate, Scale)]
  /\ Forget(p)
  /\ Goto(p, "done")
  /\ UNCHANGED <<rowLock, layerLock, move>>

-----------------------------------------------------------------------------
Step(p) ==
  \/ Begin(p) \/ SelectRow(p) \/ SelectNothing(p)
  \/ AdjustRow(p) \/ AdjustNothing(p) \/ Insert(p) \/ Commit(p) \/ Abort(p)
  \/ RecostRead(p) \/ RecostWrite(p)

Next == \E p \in Proc : Step(p)

Spec == Init /\ [][Next]_vars

\* p has the row and waits for the layers of q, which waits for the row.
Deadlocked(p) ==
  /\ rowLock = p
  /\ pc[p] = "locked" /\ move[p].delta > 0 /\ row[p].qty < 0
  /\ \E q \in Proc \ {p} : layerLock = q /\ pc[q] = "insert"

\* The server runs its statements, serves the waiters of a lock in order, and
\* breaks a deadlock by aborting one of its transactions.
Proceed(p) ==
  SelectRow(p) \/ SelectNothing(p) \/ AdjustRow(p) \/ AdjustNothing(p) \/ Insert(p) \/ Commit(p)

Fairness ==
  \A p \in Proc : SF_vars(Proceed(p)) /\ WF_vars(Deadlocked(p) /\ Abort(p))

FairSpec == Spec /\ Fairness

-----------------------------------------------------------------------------
TypeOK ==
  /\ stock \in Stock
  /\ rowLock \in Proc \cup {None}
  /\ layerLock \in Proc \cup {None}
  /\ pc \in [Proc -> Location]
  /\ move \in [Proc -> [delta : Int, rate : Nat]]
  /\ row \in [Proc -> Stock]
  /\ layers \in [Proc -> Int]

\* No update is lost: the quantity is the initial one and the committed moves.
QuantityIsExact ==
  stock.qty = Initial.qty
              + SumFunction([p \in Proc |-> IF pc[p] = "done" THEN move[p].delta ELSE 0])

\* The layers are only locked under the lock of the row, so that two adjustments
\* never wait for each other.
LayersUnderRow == layerLock # None => rowLock = layerLock

\* The open layers add up to the shortage of the row.
ShortageIsLayered == stock.short = Larger(-stock.qty, 0)

\* The cost-memory policy holds whoever creates the row and whoever else has its
\* insert merged into it, until a recosting has read the row.
CostMemoryPolicy ==
  (\A p \in Recosting : pc[p] = "idle") =>
    /\ stock.rate >= 0
    /\ stock.qty > 0 => stock.value >= 0
    /\ stock.qty <= 0 => stock.value = 0

\* The transactions are serializable: the committed row goes from one whole
\* adjustment to the next.
Atomic == INSTANCE AtomicStock
Serializable == Atomic!Spec

\* A transaction does not wait for ever.
EveryTransactionEnds ==
  \A p \in Proc : (pc[p] \in Active) ~> (pc[p] \in {"done", "idle"})

=============================================================================

------------------------- MODULE InventoryDocuments -------------------------
(***************************************************************************)
(* The life of one inventory row under the documents that move it: sales,  *)
(* transfers, container offloads, productions and consumptions are posted, *)
(* sales are edited, and every document can be deleted again, in any       *)
(* order.  Deleting one undoes it from what the document stored, while the *)
(* row has moved on.                                                       *)
(*                                                                         *)
(* One transaction is one step here: every writer holds the row's lock     *)
(* from its read to its commit.  What happens when the row does not exist  *)
(* yet, and there is nothing to lock, is the subject of InventoryRow.      *)
(***************************************************************************)
EXTENDS StockArithmetic, FiniteSets, Functions

CONSTANTS
  Doc,          \* the documents
  NoDoc,        \* a document that is not posted yet
  Deleted,      \* a document that was deleted; it is not posted again
  Kinds,        \* the kinds of document in use
  Amount,       \* the quantities they move
  Rates,        \* the rates they carry
  OpeningRate   \* stock_items.opening_rate

AllKinds == {"sale", "transfer in", "transfer out", "offload", "production", "consumption"}

ASSUME DocumentAssumption ==
  /\ IsFiniteSet(Doc)
  /\ NoDoc # Deleted
  /\ {NoDoc, Deleted} \cap [kind : AllKinds, qty : Nat, rate : Int, value : Int] = {}
  /\ Kinds \subseteq AllKinds
  /\ Amount \subseteq Nat \ {0}
  /\ Rates \subseteq Nat \ {0}
  /\ OpeningRate \in Nat \ {0}

VARIABLES
  stock,   \* the row and the total of its open layers
  doc,     \* what each posted document stored
  writers  \* history: the kinds of document posted so far

vars == <<stock, doc, writers>>

Document == [kind : Kinds, qty : Amount, rate : Int, value : Int]

Posted(kind) == {d \in Doc : doc[d] \notin {NoDoc, Deleted} /\ doc[d].kind = kind}

Worth(q, r) == Rounded(q * r, Scale)

Init == stock = NoStock /\ doc = [d \in Doc |-> NoDoc] /\ writers = {}

\* Document d of the given kind now moves q at rate r and value v.
Record(d, kind, q, r, v) ==
  doc' = [doc EXCEPT ![d] = [kind |-> kind, qty |-> q, rate |-> r, value |-> v]]

Post(d, kind) ==
  /\ kind \in Kinds
  /\ doc[d] = NoDoc
  /\ writers' = writers \cup {kind}

Retire(d) ==
  /\ doc' = [doc EXCEPT ![d] = Deleted]
  /\ UNCHANGED writers

-----------------------------------------------------------------------------
(* POS sales *)

\* lockAndDeductInventoryForSaleItem: the line is costed at the average rate
\* the row had before the deduction.  A sale needs a row; it may go short.
PostSale(d) ==
  /\ Post(d, "sale")
  /\ stock.exists
  /\ \E q \in Amount :
       /\ stock' = Issue(stock, q)
       /\ Record(d, "sale", q, stock.rate, Worth(q, stock.rate))

\* Mutation of EditSale: the old line is not undone.
EditSaleWithoutRestore(d) ==
  /\ d \in Posted("sale")
  /\ \E q \in Amount :
       /\ stock' = Issue(stock, q)
       /\ Record(d, "sale", q, stock.rate, Worth(q, stock.rate))
  /\ UNCHANGED writers

\* applyPosSaleUpdateTx: undo the old line, then issue the new one.  A line that
\* keeps its id keeps its cost price, a new line takes the row's rate.
EditSale(d) ==
  /\ d \in Posted("sale")
  /\ \E q \in Amount, keepsId \in BOOLEAN :
       LET restored == RestoreSale(stock, doc[d].qty)
           cost == IF keepsId THEN doc[d].rate ELSE restored.rate
       IN /\ stock' = Issue(restored, q)
          /\ Record(d, "sale", q, cost, Worth(q, cost))
  /\ UNCHANGED writers

\* A deleted sale comes back as a receipt at its cost price.
DeleteSale(d) ==
  /\ d \in Posted("sale")
  /\ stock' = Receive(stock, doc[d].qty, doc[d].rate)
  /\ Retire(d)

-----------------------------------------------------------------------------
(* Stock transfers: this row is the destination, or the source *)

PostTransferIn(d) ==
  /\ Post(d, "transfer in")
  /\ \E q \in Amount, r \in Rates :
       /\ stock' = Receive(stock, q, r)
       /\ Record(d, "transfer in", q, r, Worth(q, r))

\* A source row that is born short keeps the transfer's rate as cost memory.
PostTransferOut(d) ==
  /\ Post(d, "transfer out")
  /\ \E q \in Amount, r \in Rates :
       /\ stock' = IF stock.exists THEN Issue(stock, q)
                   ELSE [Issue(stock, q) EXCEPT !.rate = r]
       /\ Record(d, "transfer out", q, r, Worth(q, r))

DeleteTransferIn(d) ==
  /\ d \in Posted("transfer in")
  /\ stock' = ReverseExact(stock, doc[d].qty, doc[d].value, TRUE)
  /\ Retire(d)

DeleteTransferOut(d) ==
  /\ d \in Posted("transfer out")
  /\ stock' = RestoreExact(stock, doc[d].qty, doc[d].value)
  /\ Retire(d)

-----------------------------------------------------------------------------
(* Container offloads and stock adjustments *)

PostOffload(d) ==
  /\ Post(d, "offload")
  /\ \E q \in Amount, r \in Rates :
       /\ stock' = Offload(stock, q, Worth(q, r))
       /\ Record(d, "offload", q, r, Worth(q, r))

\* reverseExistingOffload passes no company.
DeleteOffload(d) ==
  /\ d \in Posted("offload")
  /\ stock' = ReverseExact(stock, doc[d].qty, doc[d].value, FALSE)
  /\ Retire(d)

PostProduction(d) ==
  /\ Post(d, "production")
  /\ \E q \in Amount, r \in Rates :
       /\ stock' = Produce(stock, q, r)
       /\ Record(d, "production", q, r, Worth(q, r))

DeleteProduction(d) ==
  /\ d \in Posted("production")
  /\ stock' = ReverseExact(stock, doc[d].qty, doc[d].value, TRUE)
  /\ Retire(d)

\* A consumption is costed at the row's rate, or at the opening rate of the item.
PostConsumption(d) ==
  /\ Post(d, "consumption")
  /\ \E q \in Amount :
       LET r == IF stock.exists THEN stock.rate ELSE OpeningRate
       IN /\ stock' = Consume(stock, q, OpeningRate)
          /\ Record(d, "consumption", q, r, Worth(q, Magnitude(r)))

DeleteConsumption(d) ==
  /\ d \in Posted("consumption")
  /\ stock' = RestoreExact(stock, doc[d].qty, doc[d].value)
  /\ Retire(d)

-----------------------------------------------------------------------------
Next ==
  \E d \in Doc :
    \/ PostSale(d) \/ EditSale(d) \/ DeleteSale(d)
    \/ PostTransferIn(d) \/ DeleteTransferIn(d)
    \/ PostTransferOut(d) \/ DeleteTransferOut(d)
    \/ PostOffload(d) \/ DeleteOffload(d)
    \/ PostProduction(d) \/ DeleteProduction(d)
    \/ PostConsumption(d) \/ DeleteConsumption(d)

Spec == Init /\ [][Next]_vars

-----------------------------------------------------------------------------
TypeOK ==
  /\ stock \in Stock
  /\ doc \in [Doc -> Document \cup {NoDoc, Deleted}]
  /\ writers \subseteq Kinds

\* The kinds of document that move the row through the helpers of
\* inventoryHelper and exactValueInventory; the others write it themselves.
HelperKinds == {"sale", "transfer in", "transfer out"}

HelperWritten == writers \subseteq HelperKinds

\* The open negative layers add up to the shortage of the row, exactly.
ShortageIsLayered == stock.short = Larger(-stock.qty, 0)

\* Settlement and release keep the layers equal to the shortage, whatever mix of
\* sales and transfers is posted, edited and deleted around them.
HelpersKeepLayers == HelperWritten => ShortageIsLayered

\* The cost-memory policy: stock on hand has a value that is not negative, a row
\* at or below zero has none, and a rate is never negative.
CostMemoryPolicy ==
  /\ stock.rate >= 0
  /\ stock.qty > 0 => stock.value >= 0
  /\ stock.qty <= 0 => stock.value = 0

\* The same documents keep the cost-memory policy.
HelpersKeepPolicy == HelperWritten => CostMemoryPolicy

\* The average rate of stock on hand is its value per unit, up to the rounding
\* of the two columns, after any sequence of writers that each round them.  A
\* value that was rounded away leaves the rate as cost memory.
RateMatchesValue ==
  stock.qty > 0 /\ stock.value # 0 =>
    2 * Magnitude(stock.value * Scale - stock.qty * stock.rate) <= Scale + stock.qty

Incomings == {"transfer in", "offload", "production"}

\* What a document has moved.
Moved(r) ==
  IF r \in {NoDoc, Deleted} THEN 0 ELSE IF r.kind \in Incomings THEN r.qty ELSE -r.qty

\* The quantity on hand is what the posted documents say: undoing a document
\* takes back exactly what posting it, or its last edit, had moved.
QuantityIsDocumented == stock.qty = SumFunction([d \in Doc |-> Moved(doc[d])])

\* In whole units, and while nothing is on hand, the row stays as it was.  With
\* fractions the value may move by a cent, and the rate with it; a value that was
\* rounded away may come back.
UnchangedButForACent ==
  /\ stock'.qty = stock.qty /\ stock'.short = stock.short
  /\ stock.value # 0 => Magnitude(stock'.value - stock.value) <= 1
  /\ Scale = 1 \/ stock.qty <= 0 => stock' = stock

\* Saving a sale again without changing it leaves the row as it was, up to one
\* rounding: "an unchanged edit is valuation-neutral", whatever happened since
\* the sale.  Each edit may add such a cent.
NoopEditIsNeutral ==
  [][HelperWritten =>
       \A d \in Doc : (EditSale(d) /\ doc' = doc) => UnchangedButForACent]_vars

=============================================================================

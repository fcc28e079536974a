--------------------------- MODULE NegativeLayers ---------------------------
(***************************************************************************)
(* The open negative layers of one inventory row, oldest first.            *)
(*                                                                         *)
(* StockArithmetic knows only their total.  Here are the layers themselves *)
(* and the two loops that consume them: a receipt settles the oldest ones  *)
(* first, the undoing of a sale releases the sale's own layers first.      *)
(***************************************************************************)
EXTENDS StockArithmetic, SequencesExt

CONSTANTS
  Voucher,    \* what adds the layers
  Amount,     \* the quantities
  MaxLayers   \* bound: how many layers are open at most

ASSUME LayersAssumption == Amount \subseteq Nat \ {0} /\ MaxLayers \in Nat

VARIABLE layers   \* a sequence of [voucher, qty], by id

Layer == [voucher : Voucher, qty : Nat \ {0}]

Init == layers = <<>>

\* createNegativeLayer
Create(v, q) ==
  /\ Len(layers) < MaxLayers
  /\ layers' = Append(layers, [voucher |-> v, qty |-> q])

\* Mutation of Take: what a layer has taken is taken from the next one again.
TakeRepeatedly(acc, i) ==
  [acc EXCEPT !.layers[i].qty = @ - Smaller(@, acc.remaining)]

\* One turn of either loop: layer i takes what it can of what remains.
Take(acc, i) ==
  LET consume == Smaller(acc.layers[i].qty, acc.remaining)
  IN [remaining |-> acc.remaining - consume,
      layers |-> [acc.layers EXCEPT ![i].qty = @ - consume]]

\* The layers after q has been taken from them in the given order of indices;
\* a layer with nothing left is deleted.
Consumed(order, q) ==
  SelectSeq(FoldLeft(Take, [remaining |-> q, layers |-> layers], order).layers,
            LAMBDA l : l.qty > 0)

Indices == [i \in 1 .. Len(layers) |-> i]

\* Mutation of ById: ORDER BY id DESC.
ByIdDescending == Reverse(Indices)

ById == Indices

\* Mutation of OwnFirst: ORDER BY id alone.
OwnAmongAll(v) == Indices

\* ORDER BY CASE WHEN the layer is of voucher v THEN 0 ELSE 1 END, id
OwnFirst(v) ==
  SelectSeq(Indices, LAMBDA i : layers[i].voucher = v)
    \o SelectSeq(Indices, LAMBDA i : layers[i].voucher # v)

\* settleNegativeLayers
Settle(q) == layers' = Consumed(ById, q)

\* releaseResolvedNegativeLayers, of a POS sale
Release(v, q) == layers' = Consumed(OwnFirst(v), q)

Next ==
  \E q \in Amount :
    \/ Settle(q)
    \/ \E v \in Voucher : Create(v, q) \/ Release(v, q)

Spec == Init /\ [][Next]_layers

-----------------------------------------------------------------------------
TypeOK == layers \in Seq(Layer) /\ Len(layers) <= MaxLayers

TotalOf(ls) == FoldLeft(LAMBDA sum, l : sum + l.qty, 0, ls)

\* The total left by either loop is the one StockArithmetic computes from totals
\* alone, however the quantity is spread over the layers.
TotalIsSettled ==
  [][\A q \in Amount :
       (Settle(q) \/ \E v \in Voucher : Release(v, q)) =>
         TotalOf(layers') = TotalOf(layers) - Settled(TotalOf(layers), q)]_layers

\* A receipt leaves the newest layers as they were, deletes the oldest ones, and
\* reduces at most one in between.
OldestFirst ==
  [][\A q \in Amount : Settle(q) =>
       LET gone == Len(layers) - Len(layers')
       IN \A i \in 1 .. Len(layers') :
            IF i = 1
            THEN /\ layers'[1].voucher = layers[gone + 1].voucher
                 /\ layers'[1].qty <= layers[gone + 1].qty
            ELSE layers'[i] = layers[gone + i]]_layers

Others(ls, v) == SelectSeq(ls, LAMBDA l : l.voucher # v)

\* Undoing a sale touches the layers of other vouchers only when none of its own
\* are left.
OwnLayersFirst ==
  [][\A q \in Amount, v \in Voucher : Release(v, q) =>
       \/ Others(layers', v) = Others(layers, v)
       \/ \A i \in 1 .. Len(layers') : layers'[i].voucher # v]_layers

=============================================================================

-------------------------- MODULE StockArithmetic ---------------------------
(***************************************************************************)
(* What the writers of one inventory row do to it.                         *)
(*                                                                         *)
(* A stock is the row of one item at one location together with the total  *)
(* quantity of its open negative layers.  Quantities are in units of the   *)
(* last decimal place of inventory.quantity, Scale of them to the unit     *)
(* that rates are quoted for (10^3 in the code); rates and values are in   *)
(* cents.  An intermediate result carries the exact product, and every     *)
(* column is rounded half up when it is written, as toFixed does.          *)
(*                                                                         *)
(* The layers enter only through their total: which layers a settlement    *)
(* consumes, and in which order, is the subject of NegativeLayers.         *)
(***************************************************************************)
EXTENDS Integers

CONSTANT Scale

ASSUME ScaleAssumption == Scale \in Nat \ {0}

Larger(a, b) == IF a >= b THEN a ELSE b
Smaller(a, b) == IF a <= b THEN a ELSE b
Magnitude(a) == IF a < 0 THEN -a ELSE a

\* The natural number nearest to n / d, half rounding up.
Nearest(n, d) == (2 * n + d) \div (2 * d)

\* The same for a quotient of either sign, half rounding away from zero.
Rounded(n, d) ==
  IF (n < 0) = (d < 0)
  THEN Nearest(Magnitude(n), Magnitude(d))
  ELSE -Nearest(Magnitude(n), Magnitude(d))

Stock == [exists : BOOLEAN, qty : Int, rate : Int, value : Int, short : Nat]

NoStock == [exists |-> FALSE, qty |-> 0, rate |-> 0, value |-> 0, short |-> 0]

\* A row with quantity q worth `worth` (in cents * Scale), at rate r, and s of
\* open layers.
Row(q, r, worth, s) ==
  [exists |-> TRUE, qty |-> q, rate |-> r, value |-> Rounded(worth, Scale), short |-> s]

-----------------------------------------------------------------------------
(* server/inventoryHelper.ts *)

\* Mutation of IncrementalShortage: the whole resulting shortage, not its growth.
IncrementalShortageWhole(before, after) == Larger(-after, 0)

IncrementalShortage(before, after) == Larger(Larger(-after, 0) - Larger(-before, 0), 0)

\* settleNegativeLayers: how much of the open layers an incoming quantity settles.
Settled(short, incoming) == Smaller(short, incoming)

\* adjustInventory, q coming in at rate r on an existing row.
Incoming(s, q, r) ==
  LET settled == IF s.qty < 0 THEN Settled(s.short, q) ELSE 0
      after == s.qty + q
      worth == Larger(s.value * Scale + (q - settled) * r, 0)
  IN IF after > 0
     THEN Row(after, Rounded(worth, after), worth, s.short - settled)
     ELSE Row(after, Larger(r, 0), 0, s.short - settled)

\* Mutation of Outgoing: a row that goes short keeps a value.
OutgoingKeepsValue(s, q) ==
  LET after == s.qty - q
      worth == s.value * Scale - q * Larger(s.rate, 0)
  IN Row(after, Larger(s.rate, 0), worth, s.short + IncrementalShortage(s.qty, after))

\* adjustInventory, q going out of an existing row.
Outgoing(s, q) ==
  LET after == s.qty - q
      rate == Larger(s.rate, 0)
      worth == Larger(s.value * Scale - q * rate, 0)
  IN IF after > 0
     THEN Row(after, Rounded(worth, after), worth, s.short)
     ELSE Row(after, rate, 0, s.short + IncrementalShortage(s.qty, after))

\* adjustInventory without a row.
FirstIncoming(s, q, r) ==
  LET settled == Settled(s.short, q)
      worth == (q - settled) * r
  IN Row(q, IF worth > 0 THEN Rounded(worth, q) ELSE r, worth, s.short - settled)

FirstOutgoing(s, q) == Row(-q, 0, 0, s.short + q)

Receive(s, q, r) == IF s.exists THEN Incoming(s, q, r) ELSE FirstIncoming(s, q, r)
Issue(s, q) == IF s.exists THEN Outgoing(s, q) ELSE FirstOutgoing(s, q)

\* The same with a signed quantity.
Adjusted(s, delta, r) == IF delta > 0 THEN Receive(s, delta, r) ELSE Issue(s, -delta)

\* Mutation of Merged: a merged row that is short keeps its value.
MergedValued(s, inserted) ==
  LET after == s.qty + inserted.qty
      value == Larger(s.value + inserted.value, 0)
  IN [exists |-> TRUE, qty |-> after, value |-> value, short |-> s.short,
      rate |-> IF after > 0 THEN Rounded(value * Scale, after) ELSE inserted.rate]

\* INSERT .. ON CONFLICT DO UPDATE: row s turned out to exist, and the row that
\* was to be inserted is merged into it.
Merged(s, inserted) ==
  LET after == s.qty + inserted.qty
      value == IF after > 0 THEN Larger(s.value + inserted.value, 0) ELSE 0
  IN [exists |-> TRUE, qty |-> after, value |-> value, short |-> s.short,
      rate |-> IF after > 0 THEN Rounded(value * Scale, after) ELSE inserted.rate]

\* Mutation of ReverseExact: what stays on hand keeps its rate.
ReverseExactKeepsRate(s, q, v, company) ==
  LET after == s.qty - q
  IN IF ~s.exists THEN s
     ELSE Row(after, s.rate, Larger(s.value - v, 0) * Scale,
              s.short + IncrementalShortage(s.qty, after))

\* reverseInventoryByExactValue: q and its value v are taken back.  Without a
\* company the shortage this leaves is not layered.
ReverseExact(s, q, v, company) ==
  LET after == s.qty - q
      worth == Larger(s.value - v, 0) * Scale
  IN IF ~s.exists THEN s
     ELSE IF after > 0 THEN Row(after, Rounded(worth, after), worth, s.short)
     ELSE Row(after, Larger(s.rate, 0), 0,
              s.short + IF company THEN IncrementalShortage(s.qty, after) ELSE 0)

-----------------------------------------------------------------------------
(* Restoring an earlier issue *)

\* releaseResolvedNegativeLayers: the layers lose the shortage that goes away.
ReleaseResolved(s, q) == s.short - Settled(s.short, Smaller(Larger(-s.qty, 0), q))

\* restoreInventoryByExactValue: an issue of q that was worth v is undone.
RestoreExact(s, q, v) ==
  LET after == s.qty + q
      short == ReleaseResolved(s, q)
  IN IF ~s.exists THEN Row(q, Rounded(v * Scale, q), v * Scale, s.short)
     ELSE IF after <= 0
          THEN Row(after, IF v > 0 THEN Rounded(v * Scale, q) ELSE Larger(s.rate, 0), 0, short)
     ELSE IF s.qty > 0
          THEN LET worth == (Larger(s.value, 0) + v) * Scale
               IN Row(after,
                      IF worth > 0 THEN Rounded(worth, after) ELSE Larger(s.rate, 0),
                      worth, short)
     ELSE IF v > 0
          THEN \* after units at the exact rate v * Scale / q
               [exists |-> TRUE, qty |-> after, rate |-> Rounded(v * Scale, q),
                value |-> Rounded(after * v, q), short |-> short]
     ELSE Row(after, Larger(s.rate, 0), after * Larger(s.rate, 0), short)

\* Mutation of RestoreSale: a restore that crosses zero is valued in full.
RestoreSaleInFull(s, q) ==
  LET after == s.qty + q
      worth == Larger(s.value, 0) * Scale + q * s.rate
  IN IF after > 0
     THEN Row(after, Rounded(worth, after), worth, ReleaseResolved(s, q))
     ELSE Row(after, s.rate, 0, ReleaseResolved(s, q))

\* restorePosSaleInventoryForReversal: a sale of q is undone at today's rate.
RestoreSale(s, q) ==
  LET after == s.qty + q
      rate == Larger(s.rate, 0)
      worth == IF s.qty > 0 THEN Larger(s.value, 0) * Scale + q * rate ELSE after * rate
  IN IF after > 0
     THEN Row(after, Rounded(worth, after), worth, ReleaseResolved(s, q))
     ELSE Row(after, rate, 0, ReleaseResolved(s, q))

-----------------------------------------------------------------------------
(* Writers that do not go through the helper *)

\* executeContainerOffloadLifecycle: q is received with total value v.
Offload(s, q, v) ==
  LET after == s.qty + q
      worth == s.value + v
  IN IF ~s.exists THEN Row(q, Rounded(v * Scale, q), v * Scale, s.short)
     ELSE IF after = 0 THEN Row(0, Rounded(v * Scale, q), 0, s.short)
     ELSE IF after < 0 \/ s.qty <= 0 \/ worth < 0
          THEN \* after units, of either sign, at the exact rate v * Scale / q
               [exists |-> TRUE, qty |-> after, rate |-> Rounded(v * Scale, q),
                value |-> Rounded(after * v, q), short |-> s.short]
     ELSE Row(after, Rounded(worth * Scale, after), worth * Scale, s.short)

\* createStockAdjustment, a production of q at rate r.
Produce(s, q, r) ==
  LET after == s.qty + q
      worth == s.qty * s.rate + q * r
  IN IF ~s.exists THEN Row(q, r, q * r, s.short)
     ELSE IF after = 0 THEN Row(0, 0, 0, s.short)
     ELSE Row(after, Rounded(worth, after), worth, s.short)

\* createStockAdjustment, a consumption of q; opening is the item's opening rate.
Consume(s, q, opening) ==
  LET after == s.qty - q
  IN IF ~s.exists THEN Row(-q, opening, -q * opening, s.short)
     ELSE Row(after, s.rate, IF after > 0 THEN after * s.rate ELSE 0, s.short)

=============================================================================

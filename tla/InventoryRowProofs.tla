------------------------- MODULE InventoryRowProofs -------------------------
(***************************************************************************)
(* First, of every instance: whoever creates the row, and whoever recosts  *)
(* it, no quantity is lost and the cost-memory policy holds.  Inv says     *)
(* what the lock on the row is worth (whoever is past the SELECT of a row  *)
(* holds it, and what he has read is still the committed row), what a      *)
(* transaction has written so far, and that the layers it has settled are  *)
(* there until it commits.  QuantityIsExact is a sum over the transactions *)
(* of which a commit changes one term.                                     *)
(*                                                                         *)
(* Second, of a row that exists: any number of concurrent adjustments,     *)
(* with any rollbacks and retries, behave as if they ran one after the     *)
(* other, and none of them waits for another one that waits for it.        *)
(***************************************************************************)
EXTENDS InventoryRow, StockArithmeticProofs, TLAPS

Holders == {"locked", "written"}

\* A row that does not exist has no quantity.
Absent == ~stock.exists => stock.qty = 0

LockOK == \A p \in Proc : rowLock = p <=> pc[p] \in Holders

MoveOK(p) ==
  /\ pc[p] \in Active =>
       p \notin Recosting /\ move[p].delta \in Delta /\ move[p].rate \in Rates
  /\ pc[p] = "recost" => p \in Recosting /\ move[p].delta = 0

RowOK(p) ==
  /\ pc[p] = "locked" => row[p] = stock /\ stock.exists
  /\ pc[p] = "insert" => row[p].qty = move[p].delta
  /\ pc[p] = "written" => row[p].qty = stock.qty + move[p].delta
  /\ pc[p] \in {"insert", "written"} => row[p].exists /\ Policy(row[p])

\* Layers that p has settled are locked by p, and are still there.
LayersOK(p) == layers[p] < 0 => layerLock = p /\ stock.short + layers[p] >= 0

PolicyKept == Policy(Initial) => CostMemoryPolicy

PartsOK(p) == MoveOK(p) /\ RowOK(p) /\ LayersOK(p)

Inv ==
  /\ TypeOK
  /\ Absent
  /\ LockOK
  /\ \A p \in Proc : PartsOK(p)
  /\ PolicyKept
  /\ QuantityIsExact

-----------------------------------------------------------------------------
(* The sum of the committed moves *)

Term(p) == IF pc[p] = "done" THEN move[p].delta ELSE 0

LEMMA TermsAreIntegers ==
  ASSUME TypeOK
  PROVE  [p \in Proc |-> Term(p)] \in [Proc -> Int]
BY DEF TypeOK, Term

\* A step that commits nothing.
LEMMA SameTerms ==
  ASSUME QuantityIsExact, stock'.qty = stock.qty, \A p \in Proc : Term(p)' = Term(p)
  PROVE  QuantityIsExact'
<1>1. [p \in Proc |-> Term(p)'] = [p \in Proc |-> Term(p)]
  OBVIOUS
<1> QED
  BY <1>1 DEF QuantityIsExact, Term

\* A step that commits what p moves.
LEMMA OneTerm ==
  ASSUME TypeOK, TypeOK', QuantityIsExact, NEW p \in Proc,
         \A q \in Proc \ {p} : Term(q)' = Term(q),
         Term(p) = 0, stock'.qty = stock.qty + Term(p)'
  PROVE  QuantityIsExact'
<1> DEFINE f == [q \in Proc |-> Term(q)]
           g == [q \in Proc |-> Term(q)']
<1>1. f \in [Proc -> Int] /\ g \in [Proc -> Int]
  BY DEF TypeOK, Term
<1>2. IsFiniteSet(Proc)
  BY RowAssumption
<1>3. f[p] = 0 /\ g[p] = Term(p)' /\ \A q \in Proc \ {p} : g[q] = f[q]
  OBVIOUS
<1> HIDE DEF f, g
<1>4. SumFunction(g) = SumFunction(f) - f[p] + g[p]
  BY <1>1, <1>2, <1>3, SumChanges
<1>5. SumFunction(f) \in Int /\ g[p] \in Int /\ Initial.qty \in Int
  BY <1>1, <1>2, SumInInt, RowAssumption DEF Stock
<1>6. stock.qty = Initial.qty + SumFunction(f)
  BY DEF f, Term, QuantityIsExact
<1>7. stock'.qty = Initial.qty + SumFunction(g)
  BY <1>3, <1>4, <1>5, <1>6
<1> QED
  BY <1>7 DEF g, Term, QuantityIsExact

LEMMA InitInv == Init => Inv
<1> SUFFICES ASSUME Init PROVE Inv
  OBVIOUS
<1>1. TypeOK
  BY RowAssumption DEF Init, TypeOK, Location, NoMove, NoStock, Stock
<1>2. Absent
  BY RowAssumption DEF Init, Absent, NoStock
<1>3. LockOK /\ \A p \in Proc : PartsOK(p)
  BY RowAssumption DEF Init, LockOK, Holders, PartsOK, MoveOK, RowOK, LayersOK, Active
<1>4. PolicyKept
  BY DEF Init, Policy, PolicyKept, CostMemoryPolicy
<1>5. QuantityIsExact
  <2>1. [p \in Proc |-> IF pc[p] = "done" THEN move[p].delta ELSE 0] = [p \in Proc |-> 0]
    BY DEF Init
  <2>2. SumFunction([p \in Proc |-> 0]) = 0
    BY SumOfZeros, RowAssumption
  <2>3. Initial.qty = Initial.qty + 0
    BY RowAssumption DEF Stock
  <2> QED
    BY <2>1, <2>2, <2>3 DEF Init, QuantityIsExact
<1> QED
  BY <1>1, <1>2, <1>3, <1>4, <1>5 DEF Inv

-----------------------------------------------------------------------------
(* The steps *)

LEMMA BeginInv ==
  ASSUME Inv, NEW p \in Proc, Begin(p)
  PROVE  Inv'
<1>1. PICK d \in Delta, r \in Rates : move' = [move EXCEPT ![p] = [delta |-> d, rate |-> r]]
  BY DEF Begin
<1>2. d \in Int /\ r \in Nat
  BY RowAssumption
<1>3. TypeOK'
  BY <1>1, <1>2 DEF Inv, TypeOK, Begin, Goto, Location
<1>4. Absent' /\ LockOK'
  BY DEF Inv, Absent, LockOK, Holders, TypeOK, Begin, Goto
<1>5. ASSUME NEW q \in Proc PROVE PartsOK(q)'
  BY <1>1, <1>2 DEF Inv, PartsOK, MoveOK, RowOK, LayersOK, Active, TypeOK, Begin, Goto
<1>6. PolicyKept'
  BY DEF Inv, PolicyKept, CostMemoryPolicy, TypeOK, Begin, Goto
<1>7. QuantityIsExact'
  <2>1. \A q \in Proc : Term(q)' = Term(q)
    BY <1>1 DEF Inv, Term, TypeOK, Begin, Goto
  <2> QED
    BY <2>1, SameTerms DEF Inv, Begin
<1> QED
  BY <1>3, <1>4, <1>5, <1>6, <1>7 DEF Inv

LEMMA SelectRowInv ==
  ASSUME Inv, NEW p \in Proc, SelectRow(p)
  PROVE  Inv'
<1>1. TypeOK'
  BY DEF Inv, TypeOK, SelectRow, Goto, Location
<1>2. Absent' /\ LockOK'
  BY RowAssumption DEF Inv, Absent, LockOK, Holders, TypeOK, SelectRow, Goto
<1>3. ASSUME NEW q \in Proc PROVE PartsOK(q)'
  BY DEF Inv, PartsOK, MoveOK, RowOK, LayersOK, Active, TypeOK, SelectRow, Goto
<1>4. PolicyKept'
  BY DEF Inv, PolicyKept, CostMemoryPolicy, PartsOK, MoveOK, Active, TypeOK, SelectRow, Goto
<1>5. QuantityIsExact'
  <2>1. \A q \in Proc : Term(q)' = Term(q)
    BY DEF Inv, Term, TypeOK, SelectRow, Goto
  <2> QED
    BY <2>1, SameTerms DEF Inv, SelectRow
<1> QED
  BY <1>1, <1>2, <1>3, <1>4, <1>5 DEF Inv

LEMMA SelectNothingInv ==
  ASSUME Inv, NEW p \in Proc, SelectNothing(p)
  PROVE  Inv'
<1>1. TypeOK'
  BY DEF Inv, TypeOK, SelectNothing, Goto, Location
<1>2. Absent' /\ LockOK'
  BY DEF Inv, Absent, LockOK, Holders, TypeOK, SelectNothing, Goto
<1>3. ASSUME NEW q \in Proc PROVE PartsOK(q)'
  BY DEF Inv, PartsOK, MoveOK, RowOK, LayersOK, Active, TypeOK, SelectNothing, Goto
<1>4. PolicyKept'
  BY DEF Inv, PolicyKept, CostMemoryPolicy, PartsOK, MoveOK, Active, TypeOK, SelectNothing, Goto
<1>5. QuantityIsExact'
  <2>1. \A q \in Proc : Term(q)' = Term(q)
    BY DEF Inv, Term, TypeOK, SelectNothing, Goto
  <2> QED
    BY <2>1, SameTerms DEF Inv, SelectNothing
<1> QED
  BY <1>1, <1>2, <1>3, <1>4, <1>5 DEF Inv

\* What a transaction has computed from the row s it has read, or from none.
LEMMA Computed ==
  ASSUME Inv, NEW p \in Proc, pc[p] \in Active, NEW s \in Stock, ~s.exists => s.qty = 0,
         Compute(p, s),
         \/ layerLock' = layerLock /\ ((s.exists /\ s.qty >= 0) \/ ~(move[p].delta > 0))
         \/ LockLayers(p)
  PROVE  /\ row' = [row EXCEPT ![p] = row'[p]] /\ layers' = [layers EXCEPT ![p] = layers'[p]]
         /\ row'[p] \in Stock /\ row'[p].exists /\ Policy(row'[p])
         /\ row'[p].qty = s.qty + move[p].delta
         /\ layers'[p] \in Int
         /\ layerLock' = layerLock \/ (layerLock = None /\ layerLock' = p)
         /\ layers'[p] < 0 => layerLock' = p /\ stock.short + layers'[p] >= 0
<1> DEFINE read == [s EXCEPT !.short = stock.short]
           after == Adjusted(read, move[p].delta, move[p].rate)
<1>1. /\ move[p].delta \in Int \ {0} /\ move[p].rate \in Nat
      /\ stock \in Stock /\ stock.short \in Nat /\ row \in [Proc -> Stock] /\ layers \in [Proc -> Int]
  BY RowAssumption DEF Inv, PartsOK, MoveOK, TypeOK, Stock
<1>2. /\ read \in Stock /\ read.exists = s.exists /\ read.qty = s.qty
      /\ read.short = stock.short /\ s.qty \in Int
  BY <1>1 DEF Stock
<1>3. /\ row' = [row EXCEPT ![p] = after]
      /\ layers' = [layers EXCEPT ![p] = after.short - stock.short]
  BY DEF Compute
<1> HIDE DEF read
<1>4. after \in Stock /\ Policy(after)
  <2>1. PICK delta, r : delta = move[p].delta /\ r = move[p].rate
    OBVIOUS
  <2>2. delta \in Int \ {0} /\ r \in Nat /\ r \in Int /\ read \in Stock
    BY <1>1, <1>2, <2>1
  <2>3. Adjusted(read, delta, r) \in Stock
    BY <2>2, AdjustedInStock
  <2>4. Policy(Adjusted(read, delta, r))
    BY <2>2, AdjustedKeepsPolicy
  <2> QED
    BY <2>1, <2>3, <2>4
<1>5. after.exists /\ after.qty = s.qty + move[p].delta
  BY <1>1, <1>2, AdjustedMoves
<1>6. /\ after.short \in Nat
      /\ after.short < stock.short =>
           move[p].delta > 0 /\ stock.short # 0 /\ (s.exists => s.qty < 0)
  BY <1>1, <1>2, AdjustedLayers
<1> HIDE DEF after
<1>7. row'[p] = after /\ layers'[p] = after.short - stock.short
  BY <1>1, <1>3
<1>8. layerLock' = layerLock \/ (layerLock = None /\ layerLock' = p)
  BY DEF LockLayers
<1>9. layers'[p] < 0 => after.short < stock.short
  BY <1>1, <1>6, <1>7
<1>10. after.short < stock.short => layerLock' = p
  BY <1>2, <1>6 DEF LockLayers
<1>11. stock.short + layers'[p] >= 0 /\ layers'[p] \in Int
  BY <1>1, <1>6, <1>7
<1> QED
  BY <1>3, <1>4, <1>5, <1>7, <1>8, <1>9, <1>10, <1>11

LEMMA AdjustRowInv ==
  ASSUME Inv, NEW p \in Proc, AdjustRow(p)
  PROVE  Inv'
<1>1. /\ pc[p] = "locked" /\ row[p] = stock /\ stock.exists /\ stock \in Stock
      /\ stock.qty \in Int /\ move[p].delta \in Int
  BY DEF AdjustRow, Inv, TypeOK, PartsOK, RowOK, Stock
<1>2. /\ row' = [row EXCEPT ![p] = row'[p]] /\ layers' = [layers EXCEPT ![p] = layers'[p]]
      /\ row'[p] \in Stock /\ row'[p].exists /\ Policy(row'[p])
      /\ row'[p].qty = stock.qty + move[p].delta
      /\ layers'[p] \in Int
      /\ layerLock' = layerLock \/ (layerLock = None /\ layerLock' = p)
      /\ layers'[p] < 0 => layerLock' = p /\ stock.short + layers'[p] >= 0
  BY <1>1, Computed DEF AdjustRow, Active
<1>3. TypeOK'
  BY <1>2 DEF Inv, TypeOK, AdjustRow, Goto, Location
<1>4. Absent' /\ LockOK'
  BY <1>1 DEF Inv, Absent, LockOK, Holders, TypeOK, AdjustRow, Goto
<1>5. PartsOK(p)'
  BY <1>1, <1>2 DEF Inv, PartsOK, MoveOK, RowOK, LayersOK, Active, TypeOK, AdjustRow, Goto
<1>6. ASSUME NEW q \in Proc, q # p PROVE PartsOK(q)'
  BY <1>2, <1>6, RowAssumption
  DEF Inv, PartsOK, MoveOK, RowOK, LayersOK, Active, TypeOK, AdjustRow, Goto
<1>7. PolicyKept'
  BY <1>1 DEF Inv, PolicyKept, CostMemoryPolicy, PartsOK, MoveOK, Active, TypeOK, AdjustRow, Goto
<1>8. QuantityIsExact'
  <2>1. \A q \in Proc : Term(q)' = Term(q)
    BY <1>1 DEF Inv, Term, TypeOK, AdjustRow, Goto
  <2> QED
    BY <2>1, SameTerms DEF Inv, AdjustRow
<1> QED
  BY <1>3, <1>4, <1>5, <1>6, <1>7, <1>8 DEF Inv

LEMMA AdjustNothingInv ==
  ASSUME Inv, NEW p \in Proc, AdjustNothing(p)
  PROVE  Inv'
<1>1. pc[p] = "absent" /\ move[p].delta \in Int
  BY DEF AdjustNothing, Inv, TypeOK
<1>2. NoStock \in Stock /\ ~NoStock.exists /\ NoStock.qty = 0
  BY DEF NoStock, Stock
<1>3. /\ row' = [row EXCEPT ![p] = row'[p]] /\ layers' = [layers EXCEPT ![p] = layers'[p]]
      /\ row'[p] \in Stock /\ row'[p].exists /\ Policy(row'[p])
      /\ row'[p].qty = NoStock.qty + move[p].delta
      /\ layers'[p] \in Int
      /\ layerLock' = layerLock \/ (layerLock = None /\ layerLock' = p)
      /\ layers'[p] < 0 => layerLock' = p /\ stock.short + layers'[p] >= 0
  BY <1>1, <1>2, Computed DEF AdjustNothing, Active
<1>4. row'[p].qty = move[p].delta
  BY <1>1, <1>2, <1>3
<1>5. TypeOK'
  BY <1>3 DEF Inv, TypeOK, AdjustNothing, Goto, Location
<1>6. Absent' /\ LockOK'
  BY <1>1 DEF Inv, Absent, LockOK, Holders, TypeOK, AdjustNothing, Goto
<1>7. PartsOK(p)'
  BY <1>1, <1>3, <1>4 DEF Inv, PartsOK, MoveOK, RowOK, LayersOK, Active, TypeOK, AdjustNothing, Goto
<1>8. ASSUME NEW q \in Proc, q # p PROVE PartsOK(q)'
  BY <1>3, <1>8, RowAssumption
  DEF Inv, PartsOK, MoveOK, RowOK, LayersOK, Active, TypeOK, AdjustNothing, Goto
<1>9. PolicyKept'
  BY <1>1 DEF Inv, PolicyKept, CostMemoryPolicy, PartsOK, MoveOK, Active, TypeOK, AdjustNothing, Goto
<1>10. QuantityIsExact'
  <2>1. \A q \in Proc : Term(q)' = Term(q)
    BY <1>1 DEF Inv, Term, TypeOK, AdjustNothing, Goto
  <2> QED
    BY <2>1, SameTerms DEF Inv, AdjustNothing
<1> QED
  BY <1>5, <1>6, <1>7, <1>8, <1>9, <1>10 DEF Inv

LEMMA InsertInv ==
  ASSUME Inv, NEW p \in Proc, Insert(p)
  PROVE  Inv'
<1> DEFINE merged == IF stock.exists THEN Merged(stock, row[p]) ELSE row[p]
<1>1. /\ pc[p] = "insert" /\ rowLock = None /\ stock \in Stock /\ row[p] \in Stock
      /\ row[p].exists /\ row[p].qty = move[p].delta /\ Policy(row[p])
      /\ move[p].delta \in Int /\ stock.qty \in Int
  BY DEF Insert, Inv, TypeOK, PartsOK, RowOK, Stock
<1>2. row' = [row EXCEPT ![p] = merged]
  BY DEF Insert
<1>3. merged \in Stock /\ merged.exists /\ Policy(merged) /\ merged.qty = stock.qty + move[p].delta
  <2>1. CASE stock.exists
    BY <1>1, <2>1, MergedFacts
  <2>2. CASE ~stock.exists
    <3>1. stock.qty = 0
      BY <2>2 DEF Inv, Absent
    <3> QED
      BY <1>1, <2>2, <3>1
  <2> QED
    BY <2>1, <2>2
<1> HIDE DEF merged
<1>4. TypeOK'
  BY <1>2, <1>3 DEF Inv, TypeOK, Insert, Goto, Location
<1>5. Absent' /\ LockOK'
  BY <1>1, RowAssumption DEF Inv, Absent, LockOK, Holders, TypeOK, Insert, Goto
<1>6. PartsOK(p)'
  BY <1>1, <1>2, <1>3 DEF Inv, PartsOK, MoveOK, RowOK, LayersOK, Active, TypeOK, Insert, Goto
<1>7. ASSUME NEW q \in Proc, q # p PROVE PartsOK(q)'
  BY <1>2, <1>7 DEF Inv, PartsOK, MoveOK, RowOK, LayersOK, Active, TypeOK, Insert, Goto
<1>8. PolicyKept'
  BY <1>1 DEF Inv, PolicyKept, CostMemoryPolicy, PartsOK, MoveOK, Active, TypeOK, Insert, Goto
<1>9. QuantityIsExact'
  <2>1. \A q \in Proc : Term(q)' = Term(q)
    BY <1>1 DEF Inv, Term, TypeOK, Insert, Goto
  <2> QED
    BY <2>1, SameTerms DEF Inv, Insert
<1> QED
  BY <1>4, <1>5, <1>6, <1>7, <1>8, <1>9 DEF Inv

\* While somebody else holds the row, p is not past its SELECT.
LEMMA OneHolder ==
  ASSUME Inv, NEW p \in Proc, NEW q \in Proc, pc[p] \in Holders, q # p
  PROVE  pc[q] \notin Holders
BY DEF Inv, LockOK

LEMMA CommitInv ==
  ASSUME Inv, NEW p \in Proc, Commit(p)
  PROVE  Inv'
<1>1. /\ pc[p] = "written" /\ stock \in Stock /\ row[p] \in Stock /\ layers[p] \in Int
      /\ row[p].exists /\ row[p].qty = stock.qty + move[p].delta /\ Policy(row[p])
      /\ move[p].delta \in Int /\ stock.short \in Nat
  BY DEF Commit, Inv, TypeOK, PartsOK, RowOK, Stock
<1>2. stock.short + layers[p] \in Nat
  BY <1>1 DEF Inv, PartsOK, LayersOK
<1>3. /\ stock' \in Stock /\ stock'.exists /\ stock'.qty = row[p].qty
      /\ stock'.short = stock.short + layers[p]
      /\ stock'.rate = row[p].rate /\ stock'.value = row[p].value
  BY <1>1, <1>2 DEF Commit, Stock
<1>4. Policy(stock')
  BY <1>1, <1>3 DEF Policy
<1>5. rowLock = p /\ rowLock' = None
  BY <1>1 DEF Inv, LockOK, Holders, Commit, ReleaseLocks
<1>6. NoStock \in Stock
  BY DEF NoStock, Stock
<1>7. TypeOK'
  BY <1>3, <1>5, <1>6 DEF Inv, TypeOK, Commit, ReleaseLocks, Forget, Goto, Location
<1>8. \A q \in Proc : pc'[q] \notin Holders
  BY <1>1, OneHolder DEF Commit, Goto, Holders, Inv, TypeOK
<1>9. Absent' /\ LockOK'
  BY <1>3, <1>5, <1>8, RowAssumption DEF Absent, LockOK
<1>10. PartsOK(p)'
  <2>1. layers'[p] = 0 /\ pc'[p] = "done"
    BY DEF Inv, TypeOK, Commit, Forget, Goto
  <2> QED
    BY <2>1 DEF PartsOK, MoveOK, RowOK, LayersOK, Active
<1>11. ASSUME NEW q \in Proc, q # p PROVE PartsOK(q)'
  <2>1. /\ pc'[q] = pc[q] /\ row'[q] = row[q] /\ layers'[q] = layers[q] /\ move' = move
        /\ pc[q] \notin Holders
    BY <1>1, <1>11, OneHolder DEF Inv, TypeOK, Commit, Forget, Goto, Holders
  <2>2. LayersOK(q)'
    <3> SUFFICES ASSUME layers[q] < 0 PROVE layerLock' = q /\ stock'.short + layers[q] >= 0
      BY <2>1 DEF LayersOK
    <3>1. layerLock = q /\ stock.short + layers[q] >= 0
      BY DEF Inv, PartsOK, LayersOK
    <3>2. layerLock' = q
      BY <3>1, <1>11 DEF Commit, ReleaseLocks
    <3>3. ~(layers[p] < 0)
      BY <3>1, <1>11 DEF Inv, PartsOK, LayersOK
    <3>4. layers[q] \in Int
      BY DEF Inv, TypeOK
    <3> QED
      BY <1>1, <1>3, <3>1, <3>2, <3>3, <3>4
  <2> QED
    BY <2>1, <2>2 DEF Inv, PartsOK, MoveOK, RowOK, Holders
<1>12. PolicyKept'
  BY <1>4 DEF PolicyKept, CostMemoryPolicy, Policy
<1>13. QuantityIsExact'
  <2>1. Term(p) = 0 /\ Term(p)' = move[p].delta
    BY <1>1 DEF Term, Inv, TypeOK, Commit, Goto
  <2>2. \A q \in Proc \ {p} : Term(q)' = Term(q)
    BY DEF Term, Inv, TypeOK, Commit, Goto
  <2> QED
    BY <1>1, <1>3, <1>7, <2>1, <2>2, OneTerm DEF Inv
<1> QED
  BY <1>7, <1>9, <1>10, <1>11, <1>12, <1>13 DEF Inv

LEMMA AbortInv ==
  ASSUME Inv, NEW p \in Proc, Abort(p)
  PROVE  Inv'
<1>1. NoStock \in Stock /\ NoMove \in [delta : Int, rate : Nat]
  BY DEF NoStock, NoMove, Stock
<1>2. TypeOK'
  BY <1>1 DEF Inv, TypeOK, Abort, ReleaseLocks, Forget, Goto, Location
<1>3. Absent' /\ LockOK'
  BY RowAssumption DEF Inv, Absent, LockOK, Holders, TypeOK, Abort, ReleaseLocks, Goto
<1>4. PartsOK(p)'
  <2>1. layers'[p] = 0 /\ pc'[p] = "idle"
    BY DEF Inv, TypeOK, Abort, Forget, Goto
  <2> QED
    BY <2>1 DEF PartsOK, MoveOK, RowOK, LayersOK, Active
<1>5. ASSUME NEW q \in Proc, q # p PROVE PartsOK(q)'
  BY <1>5 DEF Inv, PartsOK, MoveOK, RowOK, LayersOK, TypeOK, Abort, ReleaseLocks, Forget, Goto
<1>6. PolicyKept'
  <2>1. p \notin Recosting
    BY DEF Inv, PartsOK, MoveOK, Abort
  <2> QED
    BY <2>1 DEF Inv, PolicyKept, CostMemoryPolicy, TypeOK, Abort, Goto
<1>7. QuantityIsExact'
  <2>1. \A q \in Proc : Term(q)' = Term(q)
    BY DEF Inv, Term, TypeOK, Abort, Active, Goto
  <2> QED
    BY <2>1, SameTerms DEF Inv, Abort
<1> QED
  BY <1>2, <1>3, <1>4, <1>5, <1>6, <1>7 DEF Inv

LEMMA RecostReadInv ==
  ASSUME Inv, NEW p \in Proc, RecostRead(p)
  PROVE  Inv'
<1>1. PICK d \in RateDelta :
        move' = [move EXCEPT ![p] = [delta |-> 0, rate |-> Larger(stock.rate + d, 0)]]
  BY DEF RecostRead
<1>2. Larger(stock.rate + d, 0) \in Nat
  BY RowAssumption DEF Inv, TypeOK, Stock, Larger
<1>3. TypeOK'
  BY <1>1, <1>2 DEF Inv, TypeOK, RecostRead, Goto, Location
<1>4. Absent' /\ LockOK'
  BY DEF Inv, Absent, LockOK, Holders, TypeOK, RecostRead, Goto
<1>5. PartsOK(p)'
  BY <1>1 DEF Inv, PartsOK, MoveOK, RowOK, LayersOK, Active, TypeOK, RecostRead, Goto
<1>6. ASSUME NEW q \in Proc, q # p PROVE PartsOK(q)'
  BY <1>1, <1>6 DEF Inv, PartsOK, MoveOK, RowOK, LayersOK, Active, TypeOK, RecostRead, Goto
<1>7. PolicyKept'
  <2>1. p \in Recosting /\ pc'[p] # "idle"
    BY DEF Inv, TypeOK, RecostRead, Goto
  <2> QED
    BY <2>1 DEF PolicyKept, CostMemoryPolicy
<1>8. QuantityIsExact'
  <2>1. \A q \in Proc : Term(q)' = Term(q)
    BY <1>1 DEF Inv, Term, TypeOK, RecostRead, Goto
  <2> QED
    BY <2>1, SameTerms DEF Inv, RecostRead
<1> QED
  BY <1>3, <1>4, <1>5, <1>6, <1>7, <1>8 DEF Inv

LEMMA RecostedInStock ==
  ASSUME NEW s \in Stock, NEW r \in Int, NEW v \in Int
  PROVE  /\ [s EXCEPT !.rate = r, !.value = v] \in Stock
         /\ [s EXCEPT !.rate = r, !.value = v].exists = s.exists
         /\ [s EXCEPT !.rate = r, !.value = v].qty = s.qty
         /\ [s EXCEPT !.rate = r, !.value = v].short = s.short
BY DEF Stock

LEMMA RecostWriteInv ==
  ASSUME Inv, NEW p \in Proc, RecostWrite(p)
  PROVE  Inv'
<1>1. /\ pc[p] = "recost" /\ rowLock = None /\ p \in Recosting /\ move[p].delta = 0
      /\ stock \in Stock /\ row[p].qty \in Int /\ move[p].rate \in Nat
  BY DEF RecostWrite, Inv, TypeOK, PartsOK, MoveOK, Stock
<1>2. Rounded(row[p].qty * move[p].rate, Scale) \in Int
  BY <1>1, RoundedInInt, ScaleAssumption
<1>3. /\ stock' \in Stock /\ stock'.exists = stock.exists /\ stock'.qty = stock.qty
      /\ stock'.short = stock.short
  <2> DEFINE value == Rounded(row[p].qty * move[p].rate, Scale)
  <2>1. stock' = [stock EXCEPT !.rate = move[p].rate, !.value = value]
    BY DEF RecostWrite
  <2>2. value \in Int
    BY <1>2
  <2>3. move[p].rate \in Int
    BY <1>1
  <2> HIDE DEF value
  <2> QED
    BY <1>1, <2>1, <2>2, <2>3, RecostedInStock
<1>4. NoStock \in Stock
  BY DEF NoStock, Stock
<1>5. TypeOK'
  BY <1>3, <1>4 DEF Inv, TypeOK, RecostWrite, Forget, Goto, Location
<1>6. \A q \in Proc : pc[q] \notin Holders
  BY <1>1, RowAssumption DEF Inv, LockOK
<1>7. Absent' /\ LockOK'
  BY <1>3, <1>1, <1>6, RowAssumption
  DEF Inv, Absent, LockOK, Holders, TypeOK, RecostWrite, Goto
<1>8. PartsOK(p)'
  <2>1. layers'[p] = 0 /\ pc'[p] = "done"
    BY DEF Inv, TypeOK, RecostWrite, Forget, Goto
  <2> QED
    BY <2>1 DEF PartsOK, MoveOK, RowOK, LayersOK, Active
<1>9. ASSUME NEW q \in Proc, q # p PROVE PartsOK(q)'
  <2>1. /\ pc'[q] = pc[q] /\ row'[q] = row[q] /\ layers'[q] = layers[q] /\ move' = move
        /\ layerLock' = layerLock /\ pc[q] \notin Holders
    BY <1>6, <1>9 DEF Inv, TypeOK, RecostWrite, Forget, Goto
  <2> QED
    BY <1>3, <2>1 DEF Inv, PartsOK, MoveOK, RowOK, LayersOK, Holders
<1>10. PolicyKept'
  <2>1. pc'[p] # "idle"
    BY DEF Inv, TypeOK, RecostWrite, Goto
  <2> QED
    BY <1>1, <2>1 DEF PolicyKept, CostMemoryPolicy
<1>11. QuantityIsExact'
  <2>1. \A q \in Proc : Term(q)' = Term(q)
    BY <1>1 DEF Inv, Term, TypeOK, RecostWrite, Goto
  <2> QED
    BY <1>3, <2>1, SameTerms DEF Inv
<1> QED
  BY <1>5, <1>7, <1>8, <1>9, <1>10, <1>11 DEF Inv

LEMMA NextInv == Inv /\ [Next]_vars => Inv'
<1> SUFFICES ASSUME Inv, [Next]_vars PROVE Inv'
  OBVIOUS
<1>1. ASSUME NEW p \in Proc, Step(p) PROVE Inv'
  BY <1>1, BeginInv, SelectRowInv, SelectNothingInv, AdjustRowInv, AdjustNothingInv, InsertInv,
     CommitInv, AbortInv, RecostReadInv, RecostWriteInv DEF Step
<1>2. CASE UNCHANGED vars
  <2>1. /\ stock' = stock /\ rowLock' = rowLock /\ layerLock' = layerLock
        /\ pc' = pc /\ move' = move /\ row' = row /\ layers' = layers
    BY <1>2 DEF vars
  <2>2. TypeOK' /\ Absent' /\ LockOK' /\ PolicyKept'
    BY <2>1 DEF Inv, TypeOK, Absent, LockOK, PolicyKept, CostMemoryPolicy
  <2>3. \A p \in Proc : PartsOK(p)'
    BY <2>1 DEF Inv, PartsOK, MoveOK, RowOK, LayersOK
  <2>4. QuantityIsExact'
    BY <2>1, SameTerms DEF Inv, Term
  <2> QED
    BY <2>2, <2>3, <2>4 DEF Inv
<1> QED
  BY <1>1, <1>2 DEF Next

-----------------------------------------------------------------------------
(* Theorems about every instance *)

\* Inv is an invariant, whether or not the row exists, and with recostings.
THEOREM RowInvariance == Spec => []Inv
BY InitInv, NextInv, PTL DEF Spec

\* No update of the row is lost, whoever creates it: its quantity is the initial
\* one and everything the committed adjustments moved.
THEOREM QuantityIsExactHolds == Spec => []QuantityIsExact
<1>1. Inv => QuantityIsExact
  BY DEF Inv
<1> QED
  BY <1>1, RowInvariance, PTL

\* The cost-memory policy, if the initial row keeps it (a missing one does),
\* survives concurrent inserts that are merged, until a recosting has read the row.
THEOREM CostMemoryPolicyHolds ==
  ASSUME Policy(Initial)
  PROVE  Spec => []CostMemoryPolicy
<1>1. Inv => CostMemoryPolicy
  BY DEF Inv, PolicyKept
<1> QED
  BY <1>1, RowInvariance, PTL

-----------------------------------------------------------------------------
(* A row that exists *)

\* The row exists from the start, and every transaction is an adjustment.
Existing == Initial.exists /\ Recosting = {}

\* What p has written is the committed row, adjusted once.
WrittenOK(p) ==
  pc[p] = "written" =>
    [row[p] EXCEPT !.short = stock.short + layers[p]]
      = Adjusted(stock, move[p].delta, move[p].rate)

ExistingInv ==
  /\ stock.exists
  /\ \A p \in Proc : pc[p] \in {"idle", "select", "locked", "written", "done"}
  /\ LayersUnderRow
  /\ \A p \in Proc : WrittenOK(p)

LEMMA ExistingInitially == Existing /\ Init => ExistingInv
BY DEF Init, Existing, ExistingInv, LayersUnderRow, WrittenOK

LEMMA BeginStep ==
  ASSUME Inv, ExistingInv, NEW p \in Proc, Begin(p)
  PROVE  ExistingInv'
<1>1. PICK d \in Delta, r \in Rates : move' = [move EXCEPT ![p] = [delta |-> d, rate |-> r]]
  BY DEF Begin
<1>2. \A q \in Proc : WrittenOK(q)'
  BY <1>1 DEF Inv, ExistingInv, WrittenOK, TypeOK, Begin, Goto
<1> QED
  BY <1>2 DEF Inv, ExistingInv, LayersUnderRow, TypeOK, Begin, Goto

LEMMA SelectRowStep ==
  ASSUME Inv, ExistingInv, NEW p \in Proc, SelectRow(p)
  PROVE  ExistingInv'
<1>1. \A q \in Proc : WrittenOK(q)'
  BY DEF Inv, ExistingInv, WrittenOK, TypeOK, SelectRow, Goto
<1>2. LayersUnderRow'
  BY RowAssumption DEF Inv, ExistingInv, LayersUnderRow, TypeOK, SelectRow
<1> QED
  BY <1>1, <1>2 DEF Inv, ExistingInv, TypeOK, SelectRow, Goto

LEMMA AdjustRowStep ==
  ASSUME Inv, ExistingInv, NEW p \in Proc, AdjustRow(p)
  PROVE  ExistingInv'
<1> DEFINE after == Adjusted(stock, move[p].delta, move[p].rate)
<1>1. /\ pc[p] = "locked" /\ row[p] = stock /\ stock \in Stock
      /\ move[p].delta \in Int \ {0} /\ move[p].rate \in Nat
  BY RowAssumption DEF AdjustRow, Inv, TypeOK, PartsOK, RowOK, MoveOK, Active
<1>2. [row[p] EXCEPT !.short = stock.short] = stock
  BY <1>1 DEF Stock
<1>3. after \in Stock
  BY <1>1, AdjustedInStock
<1>4. /\ row' = [row EXCEPT ![p] = after]
      /\ layers' = [layers EXCEPT ![p] = after.short - stock.short]
  BY <1>2 DEF AdjustRow, Compute
<1>5. after.short \in Nat /\ stock.short \in Nat
  BY <1>1, <1>3 DEF Stock
<1>6. layerLock' = layerLock \/ (layerLock = None /\ layerLock' = p)
  BY DEF AdjustRow, LockLayers
<1>7. rowLock = p
  BY <1>1 DEF Inv, LockOK, Holders
<1>8. LayersUnderRow'
  BY <1>6, <1>7 DEF ExistingInv, LayersUnderRow, AdjustRow
<1>9. WrittenOK(p)'
  <2>1. [after EXCEPT !.short = stock.short + (after.short - stock.short)] = after
    BY <1>3, <1>5 DEF Stock
  <2>2. row'[p] = after /\ layers'[p] = after.short - stock.short
    BY <1>4 DEF Inv, TypeOK
  <2> QED
    BY <2>1, <2>2 DEF WrittenOK, AdjustRow
<1>10. ASSUME NEW q \in Proc, q # p PROVE WrittenOK(q)'
  BY <1>4, <1>10 DEF Inv, ExistingInv, WrittenOK, TypeOK, AdjustRow, Goto
<1> QED
  BY <1>8, <1>9, <1>10 DEF Inv, ExistingInv, TypeOK, AdjustRow, Goto

LEMMA CommitStep ==
  ASSUME Inv, ExistingInv, NEW p \in Proc, Commit(p)
  PROVE  /\ ExistingInv'
         /\ stock' = Adjusted(stock, move[p].delta, move[p].rate)
         /\ move[p].delta \in Delta /\ move[p].rate \in Rates
<1>1. /\ pc[p] = "written" /\ stock \in Stock
      /\ move[p].delta \in Delta /\ move[p].rate \in Rates
  BY DEF Commit, Inv, TypeOK, PartsOK, MoveOK, Active
<1>2. stock' = Adjusted(stock, move[p].delta, move[p].rate)
  BY <1>1 DEF Commit, ExistingInv, WrittenOK
<1>3. stock'.exists
  <2>1. move[p].delta \in Int \ {0}
    BY <1>1, RowAssumption
  <2> QED
    BY <1>1, <1>2, <2>1, AdjustedMoves DEF ExistingInv
<1>4. rowLock = p
  BY <1>1 DEF Inv, LockOK, Holders
<1>5. layerLock' = None
  BY <1>4 DEF Commit, ReleaseLocks, ExistingInv, LayersUnderRow
<1>6. \A q \in Proc : pc'[q] # "written"
  BY <1>1, OneHolder DEF Commit, Goto, Holders, Inv, TypeOK
<1>7. LayersUnderRow' /\ \A q \in Proc : WrittenOK(q)'
  BY <1>5, <1>6 DEF LayersUnderRow, WrittenOK
<1> QED
  BY <1>1, <1>2, <1>3, <1>7 DEF Inv, ExistingInv, TypeOK, Commit, Goto

LEMMA AbortStep ==
  ASSUME Inv, ExistingInv, NEW p \in Proc, Abort(p)
  PROVE  ExistingInv'
<1>1. \A q \in Proc : WrittenOK(q)'
  BY DEF Inv, ExistingInv, WrittenOK, TypeOK, Abort, Forget, Goto
<1>2. LayersUnderRow'
  BY RowAssumption DEF Inv, ExistingInv, LayersUnderRow, TypeOK, Abort, ReleaseLocks
<1> QED
  BY <1>1, <1>2 DEF Inv, ExistingInv, TypeOK, Abort, Goto

\* The other steps need a row that is missing, or a recosting.
LEMMA NoOtherStep ==
  ASSUME Existing, ExistingInv, NEW p \in Proc,
         \/ SelectNothing(p) \/ AdjustNothing(p) \/ Insert(p)
         \/ RecostRead(p) \/ RecostWrite(p)
  PROVE  FALSE
BY DEF Existing, ExistingInv, SelectNothing, AdjustNothing, Insert, RecostRead, RecostWrite

LEMMA ExistingInduction ==
  ASSUME Existing, Inv, ExistingInv, [Next]_vars
  PROVE  ExistingInv'
<1>1. ASSUME NEW p \in Proc, Step(p) PROVE ExistingInv'
  BY <1>1, BeginStep, SelectRowStep, AdjustRowStep, CommitStep, AbortStep, NoOtherStep DEF Step
<1>2. CASE UNCHANGED vars
  BY <1>2 DEF vars, ExistingInv, LayersUnderRow, WrittenOK
<1> QED
  BY <1>1, <1>2 DEF Next

-----------------------------------------------------------------------------
\* Both invariants hold of every instance that starts with a row.
THEOREM Invariance ==
  ASSUME Existing
  PROVE  Spec => [](Inv /\ ExistingInv)
<1>1. Existing /\ Init => ExistingInv
  BY ExistingInitially
<1>2. Inv /\ ExistingInv /\ [Next]_vars => ExistingInv'
  BY ExistingInduction
<1> QED
  BY <1>1, <1>2, RowInvariance, PTL DEF Spec

\* Layers are only locked by the holder of the row: no two adjustments of an
\* existing row can deadlock.
THEOREM LayersUnderRowHolds ==
  ASSUME Existing
  PROVE  Spec => []LayersUnderRow
<1>1. Inv /\ ExistingInv => LayersUnderRow
  BY DEF ExistingInv
<1> QED
  BY <1>1, Invariance, PTL

\* AtomicStock is about the same arithmetic.
LEMMA SameOperator ==
  ASSUME NEW s, NEW delta, NEW r
  PROVE  Atomic!Adjusted(s, delta, r) = Adjusted(s, delta, r)
BY Zenon
DEF Adjusted, Receive, Issue, Incoming, Outgoing, FirstIncoming, FirstOutgoing, Row, Settled, IncrementalShortage, Rounded, Nearest, Magnitude, Larger, Smaller,
    Atomic!Adjusted, Atomic!Receive, Atomic!Issue, Atomic!Incoming, Atomic!Outgoing, Atomic!FirstIncoming, Atomic!FirstOutgoing, Atomic!Row, Atomic!Settled, Atomic!IncrementalShortage, Atomic!Rounded, Atomic!Nearest, Atomic!Magnitude, Atomic!Larger, Atomic!Smaller

\* Concurrent adjustments of an existing row implement AtomicStock: a commit is
\* one adjustment of the committed row, every other step changes nothing of it.
THEOREM Refinement ==
  ASSUME Existing
  PROVE  Spec => Serializable
<1>1. Init => Atomic!Init
  BY DEF Init, Atomic!Init
<1>2. Inv /\ ExistingInv /\ [Next]_vars => [Atomic!Adjust]_stock
  <2> SUFFICES ASSUME Inv, ExistingInv, [Next]_vars PROVE [Atomic!Adjust]_stock
    OBVIOUS
  <2>1. ASSUME NEW p \in Proc, Commit(p) PROVE Atomic!Adjust
    <3>1. /\ stock' = Adjusted(stock, move[p].delta, move[p].rate)
          /\ move[p].delta \in Delta /\ move[p].rate \in Rates
      BY <2>1, CommitStep
    <3> QED
      BY <3>1, SameOperator DEF Atomic!Adjust
  <2>2. ASSUME NEW p \in Proc,
               Begin(p) \/ SelectRow(p) \/ AdjustRow(p) \/ Abort(p)
        PROVE  UNCHANGED stock
    BY <2>2 DEF Begin, SelectRow, AdjustRow, Abort
  <2>3. CASE UNCHANGED vars
    BY <2>3 DEF vars
  <2> QED
    BY <2>1, <2>2, <2>3, NoOtherStep DEF Next, Step
<1> QED
  BY <1>1, <1>2, Invariance, PTL DEF Spec, Serializable, Atomic!Spec

\* Concurrent adjustments keep an existing row sound: its layers add up to its
\* shortage.
THEOREM ShortageIsLayeredHolds ==
  ASSUME Existing, Initial \in SoundStock
  PROVE  Spec => []ShortageIsLayered
<1>1. Init => stock \in SoundStock
  BY DEF Init
<1>2. Inv /\ ExistingInv /\ stock \in SoundStock /\ [Next]_vars => (stock \in SoundStock)'
  <2> SUFFICES ASSUME Inv, ExistingInv, stock \in SoundStock, [Next]_vars PROVE stock' \in SoundStock
    OBVIOUS
  <2>1. ASSUME NEW p \in Proc, Commit(p) PROVE stock' \in SoundStock
    <3>1. /\ stock' = Adjusted(stock, move[p].delta, move[p].rate)
          /\ move[p].delta \in Int \ {0} /\ move[p].rate \in Nat
      BY <2>1, CommitStep, RowAssumption
    <3> QED
      BY <3>1, AdjustedIsSound
  <2>2. ASSUME NEW p \in Proc,
               Begin(p) \/ SelectRow(p) \/ AdjustRow(p) \/ Abort(p)
        PROVE  UNCHANGED stock
    BY <2>2 DEF Begin, SelectRow, AdjustRow, Abort
  <2>3. CASE UNCHANGED vars
    BY <2>3 DEF vars
  <2> QED
    BY <2>1, <2>2, <2>3, NoOtherStep DEF Next, Step
<1>3. stock \in SoundStock => ShortageIsLayered
  BY DEF SoundStock, ShortageIsLayered
<1> QED
  BY <1>1, <1>2, <1>3, Invariance, PTL DEF Spec

=============================================================================

-------------------------- MODULE FiscalCloseProofs --------------------------
(***************************************************************************)
(* Theorems about FiscalClose, for any number of transactions, vouchers,   *)
(* accounts and dates.                                                     *)
(*                                                                         *)
(* Inv says who is in the lock (Locks), which dates the lock protects for  *)
(* a guarded write (Guarded), what a close in progress has found           *)
(* (Totalled), how the closures follow each other (Periods), and the two   *)
(* properties of the closed books.  Of the amounts it asks nothing: no sum *)
(* is ever evaluated, only compared before and after a step.  AmountsTyped *)
(* adds that they are integers: then what is reconstructed for a closure   *)
(* is what its snapshot holds.                                             *)
(***************************************************************************)
EXTENDS FiscalClose, SequenceTheorems, FiniteSetTheorems, TLAPS

USE FiscalAssumption

\* The shape of the state, but for the amounts, which are of any set.
ShapeIn(A) ==
  /\ voucher \in [Voucher -> [date : 0..LastDate, live : BOOLEAN, amount : A]]
  /\ closures \in Seq([start : Date, end : Date, journal : Voucher, snapshot : A])
  /\ held \subseteq Proc
  /\ rowLock \in [Voucher -> Proc \cup {None}]
  /\ pc \in [Proc -> Location]
  /\ tx \in [Proc -> [voucher : Voucher \cup {None}, header : Header, parent : 0..LastDate,
                      lines : A, check : SUBSET Date,
                      start : 0..LastDate, end : 0..LastDate, snapshot : A]]
  /\ Nothing \in A

Shape == \E A : ShapeIn(A)

Locks ==
  \A p \in Proc :
    /\ pc[p] = "idle" => tx[p] = NoTx /\ p \notin held
    /\ pc[p] \in {"guard", "write"} => tx[p].voucher \in Voucher
    /\ pc[p] = "write" => p \in held /\ tx[p].check = {}
    /\ pc[p] = "totalled" => held = {p}

\* d is still to be checked, or cannot be closed before p ends.
Vouched(p, d) == d \in tx[p].check \/ (p \in held /\ d > ClosedThrough)

DateGuarded(p) ==
  LET v == tx[p].voucher IN
  IF tx[p].header = NoHeader
  THEN tx[p].parent \in Date /\ Vouched(p, tx[p].parent)
  ELSE /\ rowLock[v] = p
       /\ tx[p].header.date \in Date /\ Vouched(p, tx[p].header.date)
       /\ voucher[v].date = 0 \/ Vouched(p, voucher[v].date)

Guarded == \A p \in Proc : pc[p] \in {"guard", "write"} => DateGuarded(p)

TotalledBy(p) ==
  LET t == tx[p] IN
  /\ t.voucher \in Journal /\ rowLock[t.voucher] = p /\ voucher[t.voucher].date = 0
  /\ t.start \in Date /\ t.end \in Date /\ t.start <= t.end
  /\ MayClose(t.start)
  /\ \A a \in Account : t.lines[a] = -(t.snapshot[a] + Activity(t.start, t.end, t.voucher, a))

Totalled == \A p \in Proc : pc[p] = "totalled" => TotalledBy(p)

Periods ==
  \A i \in DOMAIN closures :
    /\ closures[i].start <= closures[i].end
    /\ \A j \in DOMAIN closures : i < j => closures[i].end < closures[j].start

Inv == Shape /\ Locks /\ Guarded /\ Totalled /\ Periods /\ ClosesExactly /\ PeriodsCoverBooks

-----------------------------------------------------------------------------
(* Sums, shapes and closures *)

\* A step that changes nothing dated in a period leaves its activity.
LEMMA SameActivity ==
  ASSUME NEW s, NEW e, NEW j, NEW a,
         \A v \in Voucher \ {j} :
           \/ voucher'[v] = voucher[v]
           \/ voucher[v].date \notin s..e /\ voucher'[v].date \notin s..e
  PROVE  Activity(s, e, j, a)' = Activity(s, e, j, a)
<1> DEFINE f == [v \in Voucher |-> IF v # j /\ voucher[v].live /\ voucher[v].date \in s..e
                                   THEN voucher[v].amount[a] ELSE 0]
           g == [v \in Voucher |-> IF v # j /\ voucher'[v].live /\ voucher'[v].date \in s..e
                                   THEN voucher'[v].amount[a] ELSE 0]
<1>1. f = g
  OBVIOUS
<1>2. Activity(s, e, j, a) = SumFunction(f) /\ Activity(s, e, j, a)' = SumFunction(g)
  BY DEF Activity
<1> QED
  BY <1>1, <1>2

LEMMA Wider ==
  ASSUME NEW A, ShapeIn(A), NEW x, NEW y
  PROVE  \E B : ShapeIn(B) /\ x \in B /\ y \in B
<1> DEFINE B == A \cup {x, y}
           R == [start : Date, end : Date, journal : Voucher, snapshot : A]
           S == [start : Date, end : Date, journal : Voucher, snapshot : B]
<1>1. closures \in Seq(S)
  <2>1. R \subseteq S
    OBVIOUS
  <2>2. closures \in Seq(R)
    BY DEF ShapeIn
  <2> HIDE DEF R, S
  <2> QED
    BY <2>1, <2>2, SeqMonotonic
<1>2. voucher \in [Voucher -> [date : 0..LastDate, live : BOOLEAN, amount : B]]
  BY DEF ShapeIn
<1>3. tx \in [Proc -> [voucher : Voucher \cup {None}, header : Header, parent : 0..LastDate,
                       lines : B, check : SUBSET Date,
                       start : 0..LastDate, end : 0..LastDate, snapshot : B]]
  BY DEF ShapeIn
<1>4. ShapeIn(B)
  BY <1>1, <1>2, <1>3 DEF ShapeIn
<1> QED
  BY <1>4

\* The parts of the shape that do not depend on the amounts.
LEMMA ShapeFacts ==
  ASSUME Shape
  PROVE  /\ \A v \in Voucher : /\ voucher[v].date \in 0..LastDate /\ voucher[v].live \in BOOLEAN
                               /\ rowLock[v] \in Proc \cup {None}
         /\ Len(closures) \in Nat /\ DOMAIN closures = 1..Len(closures)
         /\ \A i \in 1..Len(closures) : /\ closures[i].start \in Date /\ closures[i].end \in Date
                                        /\ closures[i].journal \in Voucher
         /\ closures = <<>> <=> Len(closures) = 0
         /\ held \subseteq Proc
         /\ \A p \in Proc : /\ pc[p] \in Location
                            /\ tx[p].voucher \in Voucher \cup {None}
                            /\ tx[p].header \in Header /\ tx[p].check \subseteq Date
                            /\ tx[p].parent \in 0..LastDate
<1>1. PICK A : ShapeIn(A)
  BY DEF Shape
<1> DEFINE R == [start : Date, end : Date, journal : Voucher, snapshot : A]
<1>2. closures \in Seq(R)
  BY <1>1 DEF ShapeIn
<1>3. /\ Len(closures) \in Nat /\ DOMAIN closures = 1..Len(closures)
      /\ \A i \in 1..Len(closures) : closures[i] \in R
      /\ closures = <<>> <=> Len(closures) = 0
  <2> HIDE DEF R
  <2> QED
    BY <1>2
<1> QED
  BY <1>1, <1>3 DEF ShapeIn

\* The closed books end with the last closure.
LEMMA Closed ==
  ASSUME Shape, Periods
  PROVE  /\ ClosedThrough \in 0..LastDate
         /\ closures = <<>> => ClosedThrough = 0
         /\ closures # <<>> => Len(closures) \in DOMAIN closures /\ ClosedThrough = closures[Len(closures)].end
         /\ \A i \in DOMAIN closures : /\ closures[i].start \in 1..ClosedThrough
                                       /\ closures[i].end \in 1..ClosedThrough
                                       /\ closures[i].start..closures[i].end \subseteq 1..ClosedThrough
<1> DEFINE n == Len(closures)
<1>1. /\ n \in Nat /\ DOMAIN closures = 1..n /\ (closures = <<>> <=> n = 0)
      /\ \A i \in 1..n : closures[i].start \in Date /\ closures[i].end \in Date
  BY ShapeFacts
<1>2. /\ closures = <<>> => ClosedThrough = 0
      /\ closures # <<>> => ClosedThrough = closures[n].end
  BY DEF ClosedThrough, Latest
<1> HIDE DEF n
<1>3. closures # <<>> => n \in 1..n
  BY <1>1
<1>4. \A i \in 1..n : closures[i].start <= closures[i].end /\ closures[i].end <= ClosedThrough
  <2> SUFFICES ASSUME NEW i \in 1..n
               PROVE  closures[i].start <= closures[i].end /\ closures[i].end <= ClosedThrough
    OBVIOUS
  <2>1. closures[i].start <= closures[i].end /\ (i < n => closures[i].end < closures[n].start)
        /\ closures[n].start <= closures[n].end
    BY <1>1, <1>3 DEF Periods
  <2>2. ClosedThrough = closures[n].end
    BY <1>1, <1>2
  <2>3. i = n \/ i < n
    BY <1>1
  <2> QED
    BY <1>1, <1>3, <2>1, <2>2, <2>3 DEF Date
<1> QED
  BY <1>1, <1>2, <1>3, <1>4 DEF Date, n

\* What a closure owes to its journal.
ExactOf(c) ==
  /\ voucher[c.journal].live /\ voucher[c.journal].date = c.end
  /\ \A a \in Account :
       voucher[c.journal].amount[a] = -(c.snapshot[a] + Activity(c.start, c.end, c.journal, a))

LEMMA Exactly ==
  /\ ClosesExactly <=> (~late => \A i \in DOMAIN closures : ExactOf(closures[i]))
  /\ ClosesExactly' <=> (~late' => \A i \in DOMAIN closures' : ExactOf(closures[i])')
BY DEF ClosesExactly, ExactOf

LEMMA KeepsExact ==
  ASSUME NEW c, ExactOf(c), voucher'[c.journal] = voucher[c.journal],
         \A v \in Voucher \ {c.journal} :
           \/ voucher'[v] = voucher[v]
           \/ voucher[v].date \notin c.start..c.end /\ voucher'[v].date \notin c.start..c.end
  PROVE  ExactOf(c)'
<1>1. \A a : Activity(c.start, c.end, c.journal, a)' = Activity(c.start, c.end, c.journal, a)
  BY SameActivity
<1> QED
  BY <1>1 DEF ExactOf

-----------------------------------------------------------------------------
(* Initially, and the steps that change neither vouchers nor closures *)

LEMMA InitInv == Init => Inv
<1> SUFFICES ASSUME Init PROVE Inv
  OBVIOUS
<1>1. Shape
  <2> DEFINE A == {Nothing}
             R == [start : Date, end : Date, journal : Voucher, snapshot : A]
  <2>1. closures \in Seq(R)
    BY DEF Init
  <2>2. NoVoucher \in [date : 0..LastDate, live : BOOLEAN, amount : A]
    BY DEF NoVoucher
  <2>3. NoTx \in [voucher : Voucher \cup {None}, header : Header, parent : 0..LastDate,
                  lines : A, check : SUBSET Date,
                  start : 0..LastDate, end : 0..LastDate, snapshot : A]
    BY DEF NoTx, NoHeader, Header
  <2>4. ShapeIn(A)
    BY <2>1, <2>2, <2>3 DEF ShapeIn, Init, Location
  <2> QED
    BY <2>4 DEF Shape
<1>2. Locks /\ Guarded /\ Totalled
  BY DEF Init, Locks, Guarded, Totalled
<1>3. DOMAIN closures = {} /\ ClosedThrough = 0
  BY DEF Init, ClosedThrough
<1>4. Periods /\ ClosesExactly /\ PeriodsCoverBooks
  BY <1>3 DEF Periods, ClosesExactly, PeriodsCoverBooks
<1> QED
  BY <1>1, <1>2, <1>4 DEF Inv

\* What depends on the vouchers and the closures only.
LEMMA SameBooks ==
  ASSUME Inv, UNCHANGED <<voucher, closures, late>>
  PROVE  /\ ClosedThrough' = ClosedThrough
         /\ \A s : MayClose(s)' = MayClose(s)
         /\ \A s, e, j, a : Activity(s, e, j, a)' = Activity(s, e, j, a)
         /\ Periods' /\ ClosesExactly' /\ PeriodsCoverBooks'
<1>1. ClosedThrough' = ClosedThrough
  BY DEF ClosedThrough, Latest
<1>2. \A s : MayClose(s)' = MayClose(s)
  BY DEF MayClose, Latest
<1>3. \A s, e, j, a : Activity(s, e, j, a)' = Activity(s, e, j, a)
  BY SameActivity
<1>4. Periods'
  BY DEF Inv, Periods
<1>5. ClosesExactly'
  <2> SUFFICES ASSUME ~late, NEW i \in DOMAIN closures PROVE ExactOf(closures[i])'
    BY Exactly
  <2>1. PICK c : c = closures[i]
    OBVIOUS
  <2>2. ExactOf(c)
    BY <2>1, Exactly DEF Inv
  <2>3. ExactOf(c)'
    BY <2>2, KeepsExact
  <2> QED
    BY <2>1, <2>3
<1>6. PeriodsCoverBooks'
  BY <1>1 DEF Inv, PeriodsCoverBooks
<1> QED
  BY <1>1, <1>2, <1>3, <1>4, <1>5, <1>6

LocksOf(p) ==
  /\ pc[p] = "idle" => tx[p] = NoTx /\ p \notin held
  /\ pc[p] \in {"guard", "write"} => tx[p].voucher \in Voucher
  /\ pc[p] = "write" => p \in held /\ tx[p].check = {}
  /\ pc[p] = "totalled" => held = {p}

\* p moves on, and leaves the others and their locks alone.
LEMMA QuietStep ==
  ASSUME Inv, NEW p \in Proc, Shape', UNCHANGED <<voucher, closures, late>>,
         \A q \in Proc \ {p} : pc'[q] = pc[q] /\ tx'[q] = tx[q] /\ (q \in held' <=> q \in held),
         \A v \in Voucher : rowLock'[v] = rowLock[v] \/ rowLock[v] \in {None, p},
         \A q \in Proc \ {p} : pc[q] = "totalled" => held' = held,
         LocksOf(p)',
         pc'[p] \in {"guard", "write"} => DateGuarded(p)',
         pc'[p] = "totalled" => TotalledBy(p)'
  PROVE  Inv'
<1>1. /\ ClosedThrough' = ClosedThrough
      /\ \A s : MayClose(s)' = MayClose(s)
      /\ \A s, e, j, a : Activity(s, e, j, a)' = Activity(s, e, j, a)
      /\ Periods' /\ ClosesExactly' /\ PeriodsCoverBooks'
  BY SameBooks
<1>2. Locks'
  BY DEF Inv, Locks, LocksOf
<1>3. \A v \in Voucher, q \in Proc \ {p} : rowLock[v] = q => rowLock'[v] = q
  OBVIOUS
<1>4. Guarded'
  <2> SUFFICES ASSUME NEW q \in Proc \ {p}, pc[q] \in {"guard", "write"} PROVE DateGuarded(q)'
    BY DEF Guarded
  <2>1. DateGuarded(q) /\ tx[q].voucher \in Voucher
    BY DEF Inv, Guarded, Locks
  <2> QED
    BY <1>1, <1>3, <2>1 DEF DateGuarded, Vouched
<1>5. Totalled'
  <2> SUFFICES ASSUME NEW q \in Proc \ {p}, pc[q] = "totalled" PROVE TotalledBy(q)'
    BY DEF Totalled
  <2>1. PICK t : t = tx[q]
    OBVIOUS
  <2>2. TotalledBy(q) /\ t.voucher \in Voucher
    BY <2>1 DEF Inv, Totalled, TotalledBy, Voucher
  <2> QED
    BY <1>1, <1>3, <2>1, <2>2 DEF TotalledBy
<1> QED
  BY <1>1, <1>2, <1>4, <1>5 DEF Inv

\* What the transactions hold, in the amounts of A.
TxIn(A) == [voucher : Voucher \cup {None}, header : Header, parent : 0..LastDate,
            lines : A, check : SUBSET Date,
            start : 0..LastDate, end : 0..LastDate, snapshot : A]

LEMMA OwnTx ==
  ASSUME NEW A, ShapeIn(A), NEW p \in Proc
  PROVE  tx[p] \in TxIn(A)
BY DEF ShapeIn, TxIn

LEMMA EditOpeningInv ==
  ASSUME Inv, EditOpening
  PROVE  Inv'
<1>1. UNCHANGED <<voucher, closures, held, rowLock, pc, tx, late>>
  BY DEF EditOpening
<1>2. /\ ClosedThrough' = ClosedThrough
      /\ \A s : MayClose(s)' = MayClose(s)
      /\ \A s, e, j, a : Activity(s, e, j, a)' = Activity(s, e, j, a)
      /\ Periods' /\ ClosesExactly' /\ PeriodsCoverBooks'
  BY <1>1, SameBooks
<1>3. Shape'
  BY <1>1 DEF Inv, Shape, ShapeIn
<1>4. Locks' /\ Guarded'
  BY <1>1, <1>2 DEF Inv, Locks, Guarded, DateGuarded, Vouched
<1>5. Totalled'
  <2> SUFFICES ASSUME NEW q \in Proc, pc[q] = "totalled" PROVE TotalledBy(q)'
    BY <1>1 DEF Totalled
  <2>1. PICK t : t = tx[q]
    OBVIOUS
  <2>2. TotalledBy(q)
    BY DEF Inv, Totalled
  <2> QED
    BY <1>1, <1>2, <2>1, <2>2 DEF TotalledBy
<1> QED
  BY <1>2, <1>3, <1>4, <1>5 DEF Inv

LEMMA HeadersOf ==
  ASSUME Shape, NEW v \in Voucher, NEW h \in NewHeaders(v)
  PROVE  h \in Header /\ h.date \in Date /\ h # NoHeader
<1>1. voucher[v].date \in 0..LastDate
  BY ShapeFacts
<1>2. h \in Header /\ h.date \in Date
  <2>1. CASE voucher[v].date = 0
    <3>1. h \in [date : Date, live : {TRUE}]
      BY <2>1 DEF NewHeaders
    <3>2. h.date \in Date /\ h.live \in BOOLEAN /\ h = [date |-> h.date, live |-> h.live]
      BY <3>1
    <3> QED
      BY <3>2 DEF Header, Date
  <2>2. CASE voucher[v].date # 0
    <3>1. voucher[v].date \in Date
      BY <1>1, <2>2 DEF Date
    <3>2. \/ h.date \in Date /\ h.live = TRUE /\ h = [date |-> h.date, live |-> h.live]
          \/ h.date = voucher[v].date /\ h.live \in BOOLEAN /\ h = [date |-> h.date, live |-> h.live]
      BY <2>2 DEF NewHeaders
    <3>3. h.date \in Date /\ h.live \in BOOLEAN /\ h = [date |-> h.date, live |-> h.live]
      BY <3>1, <3>2
    <3> QED
      BY <3>3 DEF Header, Date
  <2> QED
    BY <2>1, <2>2
<1> QED
  BY <1>2 DEF NoHeader, Date

LEMMA WriteHeaderInv ==
  ASSUME Inv, NEW p \in Proc, WriteHeader(p)
  PROVE  Inv'
<1>1. PICK v \in Voucher : \E h \in NewHeaders(v) :
        /\ Writing(p, v) /\ rowLock[v] = None
        /\ rowLock' = [rowLock EXCEPT ![v] = p]
        /\ tx' = [tx EXCEPT ![p].voucher = v, ![p].header = h, ![p].check = HeaderDates(v, h)]
        /\ Goto(p, "guard")
        /\ UNCHANGED <<voucher, closures, held, late>>
  BY DEF WriteHeader
<1>2. PICK h \in NewHeaders(v) :
        /\ Writing(p, v) /\ rowLock[v] = None
        /\ rowLock' = [rowLock EXCEPT ![v] = p]
        /\ tx' = [tx EXCEPT ![p].voucher = v, ![p].header = h, ![p].check = HeaderDates(v, h)]
        /\ Goto(p, "guard")
        /\ UNCHANGED <<voucher, closures, held, late>>
  BY <1>1
<1>3. h \in Header /\ h.date \in Date /\ h # NoHeader /\ voucher[v].date \in 0..LastDate
  BY HeadersOf, ShapeFacts DEF Inv
<1>4. PICK C \in SUBSET Date : C = HeaderDates(v, h)
  <2>1. \A x \in HeaderDates(v, h) : x \in Date
    BY <1>3 DEF HeaderDates, Date
  <2> QED
    BY <2>1
<1>5. PICK A : ShapeIn(A)
  BY DEF Inv, Shape
<1>6. PICK t \in TxIn(A) : t = [tx[p] EXCEPT !.voucher = v, !.header = h, !.check = C]
  BY <1>3, <1>5, OwnTx DEF TxIn
<1>7. t.voucher = v /\ t.header = h /\ t.check = C
  BY <1>5, <1>6, OwnTx DEF TxIn
<1>8. /\ held' \subseteq Proc /\ rowLock' \in [Voucher -> Proc \cup {None}]
      /\ "guard" \in Location /\ pc' = [pc EXCEPT ![p] = "guard"]
      /\ tx' = [tx EXCEPT ![p] = t] /\ voucher' = voucher /\ closures' = closures
  BY <1>2, <1>4, <1>5, <1>6 DEF ShapeIn, Location, Goto
<1>9. /\ Shape' /\ pc'[p] = "guard" /\ tx'[p] = t
      /\ \A q \in Proc \ {p} : pc'[q] = pc[q] /\ tx'[q] = tx[q]
  <2>1. ShapeIn(A)'
    BY <1>5, <1>6, <1>8 DEF ShapeIn, TxIn
  <2> QED
    BY <1>5, <1>8, <2>1 DEF Shape, ShapeIn
<1>10. /\ rowLock'[v] = p
       /\ \A u \in Voucher : rowLock'[u] = rowLock[u] \/ rowLock[u] \in {None, p}
  BY <1>2, <1>5 DEF ShapeIn
<1>11. LocksOf(p)'
  BY <1>7, <1>9 DEF LocksOf
<1>12. DateGuarded(p)'
  <2>1. h.date \in C /\ (voucher[v].date = 0 \/ voucher[v].date \in C)
    BY <1>3, <1>4 DEF HeaderDates, Date
  <2>2. voucher' = voucher
    BY <1>2
  <2> QED
    BY <1>3, <1>7, <1>9, <1>10, <2>1, <2>2 DEF DateGuarded, Vouched
<1> QED
  BY <1>2, <1>9, <1>10, <1>11, <1>12, QuietStep

LEMMA WriteLineInv ==
  ASSUME Inv, NEW p \in Proc, WriteLine(p)
  PROVE  Inv'
<1>1. PICK v, L, d :
        /\ v \in Voucher /\ Writing(p, v) /\ d = SeenDate(p, v) /\ d # 0
        /\ tx' = [tx EXCEPT ![p].voucher = v, ![p].parent = d, ![p].lines = L, ![p].check = {d}]
        /\ Goto(p, "guard")
        /\ UNCHANGED <<voucher, closures, held, rowLock, late>>
  BY DEF WriteLine
<1>2. d \in Date
  BY <1>1, ShapeFacts DEF Inv, SeenDate, Header, Date
<1>3. PICK A : ShapeIn(A) /\ L \in A
  BY Wider DEF Inv, Shape
<1>4. PICK t \in TxIn(A) : t = [tx[p] EXCEPT !.voucher = v, !.parent = d, !.lines = L, !.check = {d}]
  <2>1. tx[p] \in TxIn(A) /\ d \in 0..LastDate /\ {d} \in SUBSET Date
    BY <1>2, <1>3, OwnTx DEF Date
  <2> QED
    BY <1>1, <1>3, <2>1 DEF TxIn
<1>5. t.voucher = v /\ t.header = tx[p].header /\ t.parent = d /\ t.check = {d}
  BY <1>3, <1>4, OwnTx DEF TxIn
<1>6. /\ held' \subseteq Proc /\ rowLock' \in [Voucher -> Proc \cup {None}]
      /\ "guard" \in Location /\ pc' = [pc EXCEPT ![p] = "guard"]
      /\ tx' = [tx EXCEPT ![p] = t] /\ voucher' = voucher /\ closures' = closures
  BY <1>1, <1>3, <1>4 DEF ShapeIn, Location, Goto
<1>7. /\ Shape' /\ pc'[p] = "guard" /\ tx'[p] = t
      /\ \A q \in Proc \ {p} : pc'[q] = pc[q] /\ tx'[q] = tx[q]
  <2>1. ShapeIn(A)'
    BY <1>3, <1>4, <1>6 DEF ShapeIn, TxIn
  <2> QED
    BY <1>3, <1>6, <2>1 DEF Shape, ShapeIn
<1>8. LocksOf(p)'
  BY <1>1, <1>5, <1>7 DEF LocksOf
<1>9. DateGuarded(p)'
  <2>1. CASE tx[p].header = NoHeader
    BY <1>2, <1>5, <1>7, <2>1 DEF DateGuarded, Vouched
  <2>2. CASE tx[p].header # NoHeader
    <3>1. pc[p] = "write" /\ tx[p].voucher = v /\ DateGuarded(p) /\ p \in held /\ tx[p].check = {}
      BY <1>1, <2>2 DEF Writing, Inv, Locks, Guarded, NoTx
    <3>2. ClosedThrough' = ClosedThrough
      BY <1>1, SameBooks
    <3>3. d = tx[p].header.date
      BY <1>1, <2>2 DEF SeenDate
    <3> QED
      BY <1>1, <1>2, <1>5, <1>7, <2>2, <3>1, <3>2, <3>3 DEF DateGuarded, Vouched
  <2> QED
    BY <2>1, <2>2
<1> QED
  BY <1>1, <1>7, <1>8, <1>9, QuietStep

LEMMA GuardInv ==
  ASSUME Inv, NEW p \in Proc, Guard(p)
  PROVE  Inv'
<1>1. /\ pc[p] = "guard" /\ CanTake(p, FALSE) /\ Open(p)
      /\ held' = held \cup {p}
      /\ tx' = [tx EXCEPT ![p].check = {}]
      /\ Goto(p, "write")
      /\ UNCHANGED <<voucher, closures, rowLock, late>>
  BY DEF Guard
<1>2. PICK A : ShapeIn(A)
  BY DEF Inv, Shape
<1>3. PICK t \in TxIn(A) : t = [tx[p] EXCEPT !.check = {}]
  BY <1>2, OwnTx DEF TxIn
<1>4. t.voucher = tx[p].voucher /\ t.header = tx[p].header /\ t.parent = tx[p].parent /\ t.check = {}
  BY <1>2, <1>3, OwnTx DEF TxIn
<1>5. /\ held' \subseteq Proc /\ rowLock' \in [Voucher -> Proc \cup {None}]
      /\ "write" \in Location /\ pc' = [pc EXCEPT ![p] = "write"]
      /\ tx' = [tx EXCEPT ![p] = t] /\ voucher' = voucher /\ closures' = closures
  BY <1>1, <1>2, <1>3 DEF ShapeIn, Location, Goto
<1>6. /\ Shape' /\ pc'[p] = "write" /\ tx'[p] = t
      /\ \A q \in Proc \ {p} : pc'[q] = pc[q] /\ tx'[q] = tx[q]
  <2>1. ShapeIn(A)'
    BY <1>2, <1>3, <1>5 DEF ShapeIn, TxIn
  <2> QED
    BY <1>2, <1>5, <2>1 DEF Shape, ShapeIn
<1>7. LocksOf(p)'
  BY <1>1, <1>4, <1>6 DEF LocksOf, Inv, Locks
<1>8. DateGuarded(p)'
  <2>1. DateGuarded(p) /\ ClosedThrough' = ClosedThrough /\ \A d \in tx[p].check : d > ClosedThrough
    BY <1>1, SameBooks DEF Inv, Guarded, Open
  <2> QED
    BY <1>1, <1>4, <1>6, <2>1 DEF DateGuarded, Vouched
<1>9. \A q \in Proc \ {p} : pc[q] # "totalled"
  BY <1>1 DEF CanTake, Inv, Locks
<1> QED
  BY <1>1, <1>6, <1>7, <1>8, <1>9, QuietStep

\* A transaction that ends leaves the others and their locks alone.
LEMMA EndFacts ==
  ASSUME Inv, NEW p \in Proc, End(p)
  PROVE  /\ pc' = [pc EXCEPT ![p] = "idle"] /\ tx' = [tx EXCEPT ![p] = NoTx]
         /\ pc'[p] = "idle" /\ tx'[p] = NoTx /\ p \notin held' /\ held' \subseteq Proc
         /\ \A q \in Proc \ {p} : pc'[q] = pc[q] /\ tx'[q] = tx[q] /\ (q \in held' <=> q \in held)
         /\ rowLock' \in [Voucher -> Proc \cup {None}]
         /\ \A v \in Voucher : rowLock'[v] = rowLock[v] \/ rowLock[v] \in {None, p}
         /\ \A A : ShapeIn(A) => NoTx \in TxIn(A)
<1>1. PICK A : ShapeIn(A)
  BY DEF Inv, Shape
<1>2. \A B : ShapeIn(B) => NoTx \in TxIn(B)
  BY DEF ShapeIn, TxIn, NoTx, NoHeader, Header
<1> QED
  BY <1>1, <1>2 DEF End, Goto, ShapeIn

LEMMA AbortInv ==
  ASSUME Inv, NEW p \in Proc, Abort(p)
  PROVE  Inv'
<1>1. pc[p] # "idle" /\ End(p) /\ UNCHANGED <<voucher, closures, late>>
  BY DEF Abort
<1>2. PICK A : ShapeIn(A)
  BY DEF Inv, Shape
<1>3. Shape'
  <2>1. /\ NoTx \in TxIn(A) /\ held' \subseteq Proc /\ rowLock' \in [Voucher -> Proc \cup {None}]
        /\ pc' = [pc EXCEPT ![p] = "idle"] /\ tx' = [tx EXCEPT ![p] = NoTx]
    BY <1>1, <1>2, EndFacts
  <2>2. ShapeIn(A)'
    BY <1>1, <1>2, <2>1 DEF ShapeIn, TxIn, Location
  <2> QED
    BY <2>2 DEF Shape
<1>4. LocksOf(p)'
  BY <1>1, EndFacts DEF LocksOf
<1>5. \A q \in Proc \ {p} : pc[q] = "totalled" => held' = held
  BY <1>1 DEF End, Inv, Locks
<1> QED
  BY <1>1, <1>3, <1>4, <1>5, EndFacts, QuietStep

LEMMA TotalInv ==
  ASSUME Inv, NEW p \in Proc, Total(p)
  PROVE  Inv'
<1>1. /\ pc[p] = "idle" /\ CanTake(p, TRUE) /\ held' = held \cup {p}
      /\ Goto(p, "totalled") /\ UNCHANGED <<voucher, closures, late>>
  BY DEF Total
<1>2. PICK s \in Date, v \in Voucher : \E e \in s..LastDate :
       /\ MayClose(s) /\ Fresh(v, Journal)
       /\ rowLock' = [rowLock EXCEPT ![v] = p]
       /\ tx' = [tx EXCEPT ![p].voucher = v, ![p].start = s, ![p].end = e,
                           ![p].lines = Settling(s, e, v), ![p].snapshot = opening]
  BY DEF Total
<1>3. PICK e \in s..LastDate :
       /\ MayClose(s) /\ Fresh(v, Journal)
       /\ rowLock' = [rowLock EXCEPT ![v] = p]
       /\ tx' = [tx EXCEPT ![p].voucher = v, ![p].start = s, ![p].end = e,
                           ![p].lines = Settling(s, e, v), ![p].snapshot = opening]
  BY <1>2
<1>4. PICK L, O : L = Settling(s, e, v) /\ O = opening
  OBVIOUS
<1>5. PICK A : ShapeIn(A) /\ L \in A /\ O \in A
  BY Wider DEF Inv, Shape
<1>6. e \in Date /\ s <= e /\ s \in 0..LastDate /\ e \in 0..LastDate
  BY DEF Date
<1>7. PICK t \in TxIn(A) : t = [tx[p] EXCEPT !.voucher = v, !.start = s, !.end = e,
                                             !.lines = L, !.snapshot = O]
  <2>1. tx[p] \in TxIn(A)
    BY <1>5, OwnTx
  <2> QED
    BY <1>5, <1>6, <2>1 DEF TxIn
<1>8. /\ t.voucher = v /\ t.start = s /\ t.end = e /\ t.lines = L /\ t.snapshot = O
  <2>1. tx[p] \in TxIn(A)
    BY <1>5, OwnTx
  <2> QED
    BY <1>7, <2>1 DEF TxIn
<1>9. /\ held' \subseteq Proc /\ rowLock' \in [Voucher -> Proc \cup {None}]
      /\ pc' = [pc EXCEPT ![p] = "totalled"] /\ "totalled" \in Location
      /\ voucher' = voucher /\ closures' = closures
  BY <1>1, <1>3, <1>5 DEF ShapeIn, Location, Goto
<1>10. tx' = [tx EXCEPT ![p] = t]
  BY <1>3, <1>4, <1>7
<1>11. /\ Shape' /\ pc'[p] = "totalled" /\ tx'[p] = t
       /\ \A q \in Proc \ {p} : pc'[q] = pc[q] /\ tx'[q] = tx[q]
  <2>1. ShapeIn(A)'
    BY <1>5, <1>7, <1>9, <1>10 DEF ShapeIn, TxIn
  <2> QED
    BY <1>5, <1>9, <1>10, <2>1 DEF Shape, ShapeIn
<1>12. held = {}
  <2>1. held \subseteq Proc /\ p \notin held
    BY <1>1, ShapeFacts DEF Inv, Locks
  <2> QED
    BY <1>1, <2>1 DEF CanTake
<1>13. LocksOf(p)' /\ \A q \in Proc \ {p} : pc[q] # "totalled"
  BY <1>1, <1>11, <1>12 DEF LocksOf, Inv, Locks
<1>14. v \in Journal /\ voucher[v].date = 0 /\ rowLock[v] = None
  BY <1>3 DEF Fresh
<1>15. rowLock'[v] = p /\ \A u \in Voucher : rowLock'[u] = rowLock[u] \/ rowLock[u] \in {None, p}
  BY <1>3, <1>5, <1>14 DEF ShapeIn
<1>16. TotalledBy(p)'
  <2>1. MayClose(s)' /\ \A a : Activity(s, e, v, a)' = Activity(s, e, v, a)
    BY <1>1, <1>3, SameBooks
  <2>2. \A a \in Account : L[a] = -(O[a] + Activity(s, e, v, a))
    BY <1>4 DEF Settling
  <2>3. \A a \in Account : L[a] = -(O[a] + Activity(s, e, v, a)')
    BY <2>1, <2>2
  <2> QED
    BY <1>6, <1>8, <1>9, <1>11, <1>14, <1>15, <2>1, <2>3 DEF TotalledBy
<1> QED
  BY <1>1, <1>11, <1>12, <1>13, <1>15, <1>16, QuietStep

-----------------------------------------------------------------------------
(* The commit of a guarded write *)

\* Unless a line finds its voucher moved into the closed books, its commit finds
\* the voucher outside them and leaves it there.
LEMMA CommitFacts ==
  ASSUME Inv, NEW p \in Proc, CommitWrite(p), NEW w, w = tx[p].voucher
  PROVE  /\ w \in Voucher /\ p \in held
         /\ closures' = closures /\ ClosedThrough' = ClosedThrough
         /\ \A v \in Voucher \ {w} : voucher'[v] = voucher[v]
         /\ rowLock[w] = p \/ voucher'[w].date = voucher[w].date
         /\ Moved(p) \/ (voucher[w].date \notin 1..ClosedThrough /\ voucher'[w].date \notin 1..ClosedThrough)
         /\ ~late' => voucher[w].date \notin 1..ClosedThrough /\ voucher'[w].date \notin 1..ClosedThrough
         /\ Shape'
<1>1. /\ pc[p] = "write" /\ voucher' = [voucher EXCEPT ![w] = Written(p)]
      /\ late' = (late \/ (Moved(p) /\ voucher[w].date <= ClosedThrough))
      /\ End(p) /\ closures' = closures
  BY DEF CommitWrite
<1>2. w \in Voucher /\ p \in held /\ tx[p].check = {} /\ DateGuarded(p)
  BY <1>1 DEF Inv, Locks, Guarded
<1>3. ClosedThrough' = ClosedThrough /\ ClosedThrough \in 0..LastDate
  BY <1>1, Closed DEF ClosedThrough, Latest, Inv
<1>4. PICK A : ShapeIn(A)
  BY DEF Inv, Shape
<1>5. /\ \A v \in Voucher \ {w} : voucher'[v] = voucher[v]
      /\ voucher'[w] = Written(p)
  BY <1>1, <1>2, <1>4 DEF ShapeIn
<1>6. PICK L : Written(p).amount = L
  OBVIOUS
<1>7. /\ tx[p].header = NoHeader => Written(p).date = voucher[w].date /\ Written(p).live = voucher[w].live
      /\ tx[p].header # NoHeader => Written(p).date = tx[p].header.date /\ Written(p).live = tx[p].header.live
      /\ Written(p) = [date |-> Written(p).date, live |-> Written(p).live, amount |-> L]
  BY <1>6 DEF Written
<1>8. Written(p).date \in 0..LastDate /\ Written(p).live \in BOOLEAN
  BY <1>2, <1>7, ShapeFacts DEF Inv, Header
<1>9. Shape'
  <2>1. PICK B : ShapeIn(B) /\ L \in B
    BY Wider DEF Inv, Shape
  <2>2. Written(p) \in [date : 0..LastDate, live : BOOLEAN, amount : B]
    BY <1>7, <1>8, <2>1
  <2>3. voucher' \in [Voucher -> [date : 0..LastDate, live : BOOLEAN, amount : B]]
    BY <1>1, <2>1, <2>2 DEF ShapeIn
  <2>4. /\ NoTx \in TxIn(B) /\ held' \subseteq Proc /\ rowLock' \in [Voucher -> Proc \cup {None}]
        /\ pc' = [pc EXCEPT ![p] = "idle"] /\ tx' = [tx EXCEPT ![p] = NoTx]
    BY <1>1, <2>1, EndFacts
  <2>5. ShapeIn(B)'
    BY <1>1, <2>1, <2>3, <2>4 DEF ShapeIn, TxIn, Location
  <2> QED
    BY <2>5 DEF Shape
<1>10. CASE tx[p].header = NoHeader
  <2>1. voucher'[w].date = voucher[w].date /\ tx[p].parent > ClosedThrough
    BY <1>2, <1>5, <1>7, <1>10 DEF DateGuarded, Vouched
  <2>2. voucher[w].date \in 0..LastDate
    BY <1>2, ShapeFacts DEF Inv
  <2>3. Moved(p) <=> tx[p].parent # voucher[w].date
    BY <1>10 DEF Moved
  <2>4. voucher[w].date > ClosedThrough => voucher[w].date \notin 1..ClosedThrough
    BY <1>3, <2>2
  <2>5. Moved(p) \/ voucher[w].date > ClosedThrough
    BY <2>1, <2>3
  <2>5a. ~late' => ~(Moved(p) /\ voucher[w].date <= ClosedThrough)
    BY <1>1, Zenon
  <2>6. ~late' => voucher[w].date > ClosedThrough
    BY <1>3, <2>2, <2>5, <2>5a
  <2> QED
    BY <1>1, <1>2, <1>3, <1>5, <1>9, <2>1, <2>4, <2>5, <2>6
<1>11. CASE tx[p].header # NoHeader
  <2>1. /\ rowLock[w] = p /\ voucher'[w].date > ClosedThrough
        /\ voucher[w].date = 0 \/ voucher[w].date > ClosedThrough
    BY <1>2, <1>5, <1>7, <1>11 DEF DateGuarded, Vouched
  <2> QED
    BY <1>1, <1>2, <1>3, <1>5, <1>9, <2>1
<1> QED
  BY <1>10, <1>11

\* The other writes are as guarded as before when p ends and the books stay closed
\* as far, or nobody else is in the lock.
LEMMA OthersGuarded ==
  ASSUME Inv, NEW p \in Proc, End(p),
         \A v \in Voucher : voucher'[v].date = voucher[v].date \/ rowLock[v] = p,
         ClosedThrough' = ClosedThrough \/ held \subseteq {p}
  PROVE  Guarded'
<1> SUFFICES ASSUME NEW q \in Proc \ {p}, pc[q] \in {"guard", "write"} PROVE DateGuarded(q)'
  BY EndFacts DEF Guarded
<1>1. DateGuarded(q) /\ tx[q].voucher \in Voucher
  BY DEF Inv, Guarded, Locks
<1>2. pc'[q] = pc[q] /\ tx'[q] = tx[q] /\ (q \in held' <=> q \in held)
  BY EndFacts
<1>3. \A d : Vouched(q, d) => Vouched(q, d)'
  BY <1>2 DEF Vouched
<1>4. rowLock[tx[q].voucher] = q => rowLock'[tx[q].voucher] = q /\ voucher'[tx[q].voucher].date = voucher[tx[q].voucher].date
  BY <1>1, EndFacts
<1> QED
  BY <1>1, <1>2, <1>3, <1>4 DEF DateGuarded

LEMMA CommitWriteInv ==
  ASSUME Inv, ~late, NEW p \in Proc, CommitWrite(p)
  PROVE  Inv'
<1>1. PICK w : w = tx[p].voucher
  OBVIOUS
<1>2. /\ w \in Voucher /\ p \in held
      /\ closures' = closures /\ ClosedThrough' = ClosedThrough
      /\ \A v \in Voucher \ {w} : voucher'[v] = voucher[v]
      /\ rowLock[w] = p \/ voucher'[w].date = voucher[w].date
      /\ ~late' => voucher[w].date \notin 1..ClosedThrough /\ voucher'[w].date \notin 1..ClosedThrough
      /\ Shape'
  BY <1>1, CommitFacts
<1>3. End(p) /\ pc[p] = "write"
  BY DEF CommitWrite
<1>4. \A v \in Voucher : voucher'[v].date = voucher[v].date \/ rowLock[v] = p
  BY <1>2
<1>5. Guarded'
  BY <1>2, <1>3, <1>4, OthersGuarded
<1>6. Totalled' /\ Locks'
  <2>1. \A q \in Proc \ {p} : pc[q] # "totalled"
    BY <1>2 DEF Inv, Locks
  <2> QED
    BY <1>3, <2>1, EndFacts DEF Inv, Locks, Totalled
<1>7. Periods'
  BY <1>2 DEF Inv, Periods
<1>8. ClosesExactly'
  <2> SUFFICES ASSUME ~late', NEW i \in DOMAIN closures PROVE ExactOf(closures[i])'
    BY <1>2, Exactly
  <2>1. PICK c : c = closures[i]
    OBVIOUS
  <2>2. ExactOf(c)
    BY <2>1, Exactly DEF Inv
  <2>3. c.start..c.end \subseteq 1..ClosedThrough /\ c.end \in 1..ClosedThrough /\ c.journal \in Voucher
    BY <2>1, Closed, ShapeFacts DEF Inv
  <2>4. voucher[w].date \notin c.start..c.end /\ voucher'[w].date \notin c.start..c.end /\ c.journal # w
    BY <1>2, <2>2, <2>3 DEF ExactOf
  <2>5. ExactOf(c)'
    BY <1>2, <2>2, <2>3, <2>4, KeepsExact
  <2> QED
    BY <1>2, <2>1, <2>5
<1>9. PeriodsCoverBooks'
  <2> SUFFICES ASSUME ~late', NEW v \in Voucher, voucher'[v].live, voucher'[v].amount # Nothing,
                      voucher'[v].date \in 1..ClosedThrough
               PROVE  \E i \in DOMAIN closures : voucher'[v].date \in closures[i].start..closures[i].end
    BY <1>2 DEF PeriodsCoverBooks
  <2>1. v # w
    BY <1>2
  <2> QED
    BY <1>2, <2>1 DEF Inv, PeriodsCoverBooks
<1> QED
  BY <1>2, <1>5, <1>6, <1>7, <1>8, <1>9 DEF Inv

-----------------------------------------------------------------------------
(* The steps that change the closures *)

LEMMA FinishInv ==
  ASSUME Inv, NEW p \in Proc, Finish(p)
  PROVE  Inv'
<1>1. PICK t, w : t = tx[p] /\ w = t.voucher
  OBVIOUS
<1> DEFINE rec == [date |-> t.end, live |-> TRUE, amount |-> t.lines]
           n == Len(closures)
<1>2. PICK c : c = [start |-> t.start, end |-> t.end, journal |-> w, snapshot |-> t.snapshot]
  OBVIOUS
<1>3. /\ pc[p] = "totalled" /\ End(p) /\ late' = late
      /\ voucher' = [voucher EXCEPT ![w] = rec] /\ closures' = Append(closures, c)
  BY <1>1, <1>2 DEF Finish
<1>4. /\ held = {p} /\ w \in Voucher /\ rowLock[w] = p /\ voucher[w].date = 0
      /\ t.start \in Date /\ t.end \in Date /\ t.start <= t.end /\ MayClose(t.start)
      /\ \A a \in Account : t.lines[a] = -(t.snapshot[a] + Activity(t.start, t.end, w, a))
  BY <1>1, <1>3 DEF Inv, Locks, Totalled, TotalledBy, Voucher
<1>5. c.start = t.start /\ c.end = t.end /\ c.journal = w /\ c.snapshot = t.snapshot
  BY <1>2
<1>6. PICK A : ShapeIn(A)
  BY DEF Inv, Shape
<1>7. t.lines \in A /\ t.snapshot \in A
  BY <1>1, <1>6, OwnTx DEF TxIn
<1>8. voucher'[w] = rec /\ \A v \in Voucher \ {w} : voucher'[v] = voucher[v]
  BY <1>3, <1>4, <1>6 DEF ShapeIn
<1>8a. PICK R : R = [start : Date, end : Date, journal : Voucher, snapshot : A]
  OBVIOUS
<1>9. /\ closures' \in Seq(R)
      /\ n \in Nat /\ DOMAIN closures = 1..n /\ DOMAIN closures' = 1..(n + 1) /\ Len(closures') = n + 1
      /\ \A i \in 1..n : closures'[i] = closures[i]
      /\ closures'[n + 1] = c /\ closures' # <<>>
  <2>1. closures \in Seq(R)
    BY <1>6, <1>8a DEF ShapeIn
  <2>2. c \in R
    BY <1>2, <1>4, <1>7, <1>8a
  <2>3. /\ closures' \in Seq(R) /\ Len(closures') = n + 1
        /\ \A i \in 1..n : closures'[i] = closures[i]
        /\ closures'[n + 1] = c /\ closures' # <<>>
    BY <1>3, <2>1, <2>2, AppendProperties
  <2>4. n \in Nat /\ DOMAIN closures = 1..n
    BY <2>1, LenProperties
  <2>5. DOMAIN closures' = 1..Len(closures')
    BY <2>3, LenProperties
  <2>6. DOMAIN closures' = 1..(n + 1)
    BY <2>3, <2>5
  <2> HIDE DEF n
  <2> QED
    BY <2>3, <2>4, <2>6
<1>10. ClosedThrough' = c.end
  BY <1>9 DEF ClosedThrough, Latest
<1>11. ClosedThrough < c.start /\ ClosedThrough \in 0..LastDate /\ (closures = <<>> => ClosedThrough = 0)
  <2>1. closures = <<>> \/ c.start = ClosedThrough + 1
    BY <1>4, <1>5 DEF MayClose, ClosedThrough
  <2>2. ClosedThrough \in 0..LastDate /\ (closures = <<>> => ClosedThrough = 0)
    BY Closed DEF Inv
  <2> QED
    BY <1>4, <1>5, <2>1, <2>2 DEF Date
<1>12. Shape'
  <2>1. rec \in [date : 0..LastDate, live : BOOLEAN, amount : A]
    BY <1>4, <1>7 DEF Date
  <2>2. voucher' \in [Voucher -> [date : 0..LastDate, live : BOOLEAN, amount : A]]
    BY <1>3, <1>6, <2>1 DEF ShapeIn
  <2>3. /\ NoTx \in TxIn(A) /\ held' \subseteq Proc /\ rowLock' \in [Voucher -> Proc \cup {None}]
        /\ pc' = [pc EXCEPT ![p] = "idle"] /\ tx' = [tx EXCEPT ![p] = NoTx]
    BY <1>3, <1>6, EndFacts
  <2>4. ShapeIn(A)'
    BY <1>6, <1>8a, <1>9, <2>2, <2>3 DEF ShapeIn, TxIn, Location
  <2> QED
    BY <2>4 DEF Shape
<1>13. Guarded'
  <2>1. \A v \in Voucher : voucher'[v].date = voucher[v].date \/ rowLock[v] = p
    BY <1>4, <1>8
  <2> QED
    BY <1>3, <1>4, <2>1, OthersGuarded
<1>14. Totalled' /\ Locks'
  <2>1. \A q \in Proc \ {p} : pc[q] # "totalled"
    BY <1>4 DEF Inv, Locks
  <2> QED
    BY <1>3, <2>1, EndFacts DEF Inv, Locks, Totalled
<1> HIDE DEF n
<1>15. \A i \in 1..n : /\ closures[i].start..closures[i].end \subseteq 1..ClosedThrough
                       /\ closures[i].end \in 1..ClosedThrough /\ closures[i].start \in Date
                       /\ closures[i].journal \in Voucher
  BY <1>9, Closed, ShapeFacts DEF Inv, n
<1>16. Periods'
  <2> SUFFICES ASSUME NEW i \in 1..(n + 1), NEW j \in 1..(n + 1)
               PROVE  /\ closures'[i].start <= closures'[i].end
                      /\ i < j => closures'[i].end < closures'[j].start
    BY <1>9 DEF Periods
  <2>1. CASE i = n + 1
    BY <1>4, <1>5, <1>9, <2>1
  <2>2. CASE i \in 1..n /\ j \in 1..n
    BY <1>9, <2>2 DEF Inv, Periods
  <2>3. CASE i \in 1..n /\ j = n + 1
    <3>1. closures[i].start <= closures[i].end /\ closures[i].end <= ClosedThrough /\ closures[i].end \in Int
      BY <1>9, <1>11, <1>15, <2>3 DEF Inv, Periods
    <3> QED
      BY <1>4, <1>5, <1>9, <1>11, <2>3, <3>1 DEF Date
  <2> QED
    BY <1>9, <2>1, <2>2, <2>3
<1>17. ClosesExactly'
  <2> SUFFICES ASSUME ~late, NEW i \in 1..(n + 1) PROVE ExactOf(closures[i])'
    BY <1>3, <1>9, Exactly
  <2>1. CASE i \in 1..n
    <3>1. PICK b : b = closures[i]
      OBVIOUS
    <3>2. ExactOf(b)
      BY <1>9, <2>1, <3>1, Exactly DEF Inv
    <3>3. b.start..b.end \subseteq 1..ClosedThrough /\ b.end \in 1..ClosedThrough /\ b.journal \in Voucher
      BY <1>15, <2>1, <3>1
    <3>4. voucher[w].date \notin b.start..b.end /\ voucher'[w].date \notin b.start..b.end /\ b.journal # w
      <4>1. voucher[w].date \notin 1..ClosedThrough
        BY <1>4
      <4>2. voucher'[w].date \notin 1..ClosedThrough
        BY <1>4, <1>5, <1>8, <1>11 DEF Date
      <4> QED
        BY <3>2, <3>3, <4>1, <4>2 DEF ExactOf
    <3>5. ExactOf(b)'
      BY <1>8, <3>2, <3>3, <3>4, KeepsExact
    <3> QED
      BY <1>9, <2>1, <3>1, <3>5
  <2>2. CASE i = n + 1
    <3>1. \A a : Activity(c.start, c.end, w, a)' = Activity(c.start, c.end, w, a)
      BY <1>8, SameActivity
    <3>2. ExactOf(c)'
      BY <1>4, <1>5, <1>8, <3>1 DEF ExactOf
    <3> QED
      BY <1>9, <2>2, <3>2
  <2> QED
    BY <1>9, <2>1, <2>2
<1>18. PeriodsCoverBooks'
  <2> SUFFICES ASSUME ~late, NEW v \in Voucher, voucher'[v].live, voucher'[v].amount # Nothing,
                      voucher'[v].date \in 1..c.end
               PROVE  \E i \in 1..(n + 1) : voucher'[v].date \in closures'[i].start..closures'[i].end
    BY <1>3, <1>9, <1>10 DEF PeriodsCoverBooks
  <2>1. n + 1 \in 1..(n + 1)
    BY <1>9
  <2>2. CASE voucher'[v].date \in c.start..c.end
    BY <1>9, <2>1, <2>2
  <2>3. CASE voucher'[v].date \notin c.start..c.end
    <3>1. voucher'[v].date < c.start
      BY <1>4, <1>5, <2>3 DEF Date
    <3>2. v # w
      BY <1>4, <1>5, <1>8, <3>1 DEF Date
    <3>3. voucher[v].live /\ voucher[v].amount # Nothing /\ voucher[v].date < c.start /\ voucher[v].date \in 1..c.end
      BY <1>8, <3>1, <3>2
    <3>4. closures # <<>> /\ c.start = ClosedThrough + 1
      BY <1>4, <1>5, <3>3 DEF MayClose, ClosedThrough, Date
    <3>5. voucher[v].date \in 1..ClosedThrough
      BY <1>4, <1>5, <1>11, <3>3, <3>4 DEF Date
    <3>6. PICK i \in 1..n : voucher[v].date \in closures[i].start..closures[i].end
      BY <1>9, <3>3, <3>5 DEF Inv, PeriodsCoverBooks
    <3>7. i \in 1..(n + 1) /\ closures'[i] = closures[i] /\ voucher'[v] = voucher[v]
      BY <1>8, <1>9, <3>2, <3>6
    <3> QED
      BY <3>6, <3>7
  <2> QED
    BY <2>2, <2>3
<1> QED
  BY <1>12, <1>13, <1>14, <1>16, <1>17, <1>18 DEF Inv

LEMMA ReopenFacts ==
  ASSUME Inv, NEW p \in Proc, Reopen(p)
  PROVE  /\ held = {} /\ Len(closures) \in Nat \ {0}
         /\ closures' \in Seq({closures[i] : i \in DOMAIN closures})
         /\ Len(closures') = Len(closures) - 1 /\ DOMAIN closures' = 1..(Len(closures) - 1)
         /\ \A i \in 1..(Len(closures) - 1) : closures'[i] = closures[i]
         /\ UNCHANGED <<held, rowLock, pc, tx, late>>
<1>1. /\ pc[p] = "idle" /\ CanTake(p, TRUE) /\ closures # <<>>
      /\ closures' = SubSeq(closures, 1, Len(closures) - 1)
      /\ UNCHANGED <<held, rowLock, pc, tx, late>>
  BY DEF Reopen
<1>2. held = {}
  <2>1. held \subseteq Proc /\ p \notin held
    BY <1>1, ShapeFacts DEF Inv, Locks
  <2> QED
    BY <1>1, <2>1 DEF CanTake
<1>3. Len(closures) \in Nat \ {0} /\ DOMAIN closures = 1..Len(closures)
  BY <1>1, ShapeFacts DEF Inv
<1>4. PICK m \in Nat : m = Len(closures) - 1
  <2>1. Len(closures) - 1 \in Nat
    BY <1>3
  <2> QED
    BY <2>1
<1>5. PICK S : S = {closures[i] : i \in DOMAIN closures}
  OBVIOUS
<1>6. \A i \in 1..m : closures[i] \in S
  BY <1>3, <1>4, <1>5
<1>7. /\ closures' \in Seq(S) /\ Len(closures') = m
      /\ \A i \in 1..m : closures'[i] = closures[i]
  <2>1. closures' = SubSeq(closures, 1, m) /\ 1 \in Int /\ m \in Int
    BY <1>1, <1>4
  <2>2. /\ SubSeq(closures, 1, m) \in Seq(S)
        /\ Len(SubSeq(closures, 1, m)) = IF 1 <= m THEN m - 1 + 1 ELSE 0
        /\ \A i \in 1..(m - 1 + 1) : SubSeq(closures, 1, m)[i] = closures[1 + i - 1]
    BY <1>6, <2>1, SubSeqProperties
  <2>3. \A i \in 1..m : SubSeq(closures, 1, m)[i] = closures[i]
    <3> SUFFICES ASSUME NEW i \in 1..m PROVE SubSeq(closures, 1, m)[i] = closures[i]
      OBVIOUS
    <3>1. i \in 1..(m - 1 + 1) /\ 1 + i - 1 = i
      OBVIOUS
    <3> QED
      BY <2>2, <3>1
  <2> QED
    BY <2>1, <2>2, <2>3
<1>8. DOMAIN closures' = 1..m
  BY <1>7, LenProperties
<1> QED
  BY <1>1, <1>2, <1>3, <1>4, <1>5, <1>7, <1>8

LEMMA ReopenInv ==
  ASSUME Inv, NEW p \in Proc, Reopen(p)
  PROVE  Inv'
<1>1. PICK n : n = Len(closures)
  OBVIOUS
<1>2. /\ held = {} /\ n \in Nat \ {0} /\ DOMAIN closures = 1..n
      /\ Len(closures') = n - 1 /\ DOMAIN closures' = 1..(n - 1)
      /\ \A i \in 1..(n - 1) : closures'[i] = closures[i]
      /\ UNCHANGED <<held, rowLock, pc, tx, late>>
  BY <1>1, ReopenFacts, ShapeFacts DEF Inv
<1>3. PICK j : j = closures[n].journal
  OBVIOUS
<1>4. n \in 1..n
  BY <1>2
<1>5. j \in Voucher /\ voucher' = [voucher EXCEPT ![j].live = FALSE]
  BY <1>1, <1>2, <1>3, <1>4, ShapeFacts DEF Reopen, Latest, Inv
<1>6. PICK A : ShapeIn(A)
  BY DEF Inv, Shape
<1>7. /\ \A v \in Voucher \ {j} : voucher'[v] = voucher[v]
      /\ \A v \in Voucher : voucher'[v].date = voucher[v].date
      /\ voucher'[j].live = FALSE
      /\ voucher' \in [Voucher -> [date : 0..LastDate, live : BOOLEAN, amount : A]]
  <2>1. voucher \in [Voucher -> [date : 0..LastDate, live : BOOLEAN, amount : A]]
    BY <1>6 DEF ShapeIn
  <2>2. PICK r : r = [voucher[j] EXCEPT !.live = FALSE]
    OBVIOUS
  <2>3. /\ r \in [date : 0..LastDate, live : BOOLEAN, amount : A]
        /\ r.date = voucher[j].date /\ r.live = FALSE
    BY <1>5, <2>1, <2>2
  <2>4. voucher' = [voucher EXCEPT ![j] = r]
    BY <1>5, <2>2
  <2> QED
    BY <1>5, <2>1, <2>3, <2>4
<1>8. Shape'
  <2> DEFINE S == {closures[i] : i \in DOMAIN closures}
             R == [start : Date, end : Date, journal : Voucher, snapshot : A]
  <2>1. closures \in Seq(R)
    BY <1>6 DEF ShapeIn
  <2>2. closures' \in Seq(S)
    BY ReopenFacts
  <2> HIDE DEF R
  <2>3. S \subseteq R
    BY <2>1
  <2> HIDE DEF S
  <2>4. closures' \in Seq(R)
    BY <2>2, <2>3, SeqMonotonic
  <2>5. ShapeIn(A)'
    BY <1>2, <1>6, <1>7, <2>4 DEF ShapeIn, R
  <2> QED
    BY <2>5 DEF Shape
<1>9. Locks' /\ Totalled'
  BY <1>2 DEF Inv, Locks, Totalled
<1>10. Guarded'
  <2> SUFFICES ASSUME NEW q \in Proc, pc[q] \in {"guard", "write"} PROVE DateGuarded(q)'
    BY <1>2 DEF Guarded
  <2>1. DateGuarded(q) /\ tx[q].voucher \in Voucher
    BY DEF Inv, Guarded, Locks
  <2>2. \A d : Vouched(q, d) => Vouched(q, d)'
    BY <1>2 DEF Vouched
  <2> QED
    BY <1>2, <1>7, <2>1, <2>2 DEF DateGuarded
<1>11. Periods'
  BY <1>2 DEF Inv, Periods
<1>12. \A i \in 1..n : /\ closures[i].start \in Date /\ closures[i].end \in Date
                       /\ closures[i].journal \in Voucher
  BY <1>1, ShapeFacts DEF Inv
<1>13. \A i \in 1..(n - 1) : closures[i].end < closures[n].start /\ closures[n].start <= closures[n].end
  BY <1>2, <1>4 DEF Inv, Periods
<1>14. ClosesExactly'
  <2> SUFFICES ASSUME ~late, NEW i \in 1..(n - 1) PROVE ExactOf(closures[i])'
    BY <1>2, Exactly
  <2>1. PICK b : b = closures[i]
    OBVIOUS
  <2>2. i \in 1..n
    BY <1>2
  <2>3. ExactOf(b) /\ ExactOf(closures[n])
    BY <1>2, <1>4, <2>1, <2>2, Exactly DEF Inv
  <2>4. voucher[j].date = closures[n].end
    BY <1>3, <2>3 DEF ExactOf
  <2>5. voucher[j].date \notin b.start..b.end /\ voucher'[j].date \notin b.start..b.end /\ b.journal # j
    <3>1. b.end < voucher[j].date
      BY <1>4, <1>12, <1>13, <2>1, <2>2, <2>4 DEF Date
    <3>2. b.start \in Int /\ b.end \in Int /\ voucher[j].date \in Int
      BY <1>4, <1>12, <2>1, <2>2, <2>4 DEF Date
    <3> QED
      BY <1>5, <1>7, <2>3, <3>1, <3>2 DEF ExactOf
  <2>6. b.journal \in Voucher
    BY <1>12, <2>1, <2>2
  <2>7. ExactOf(b)'
    BY <1>7, <2>3, <2>5, <2>6, KeepsExact
  <2> QED
    BY <1>2, <2>1, <2>7
<1>15. PeriodsCoverBooks'
  <2> SUFFICES ASSUME ~late, NEW v \in Voucher, voucher'[v].live, voucher'[v].amount # Nothing,
                      voucher'[v].date \in 1..ClosedThrough'
               PROVE  \E i \in 1..(n - 1) : voucher'[v].date \in closures'[i].start..closures'[i].end
    BY <1>2 DEF PeriodsCoverBooks
  <2>1. v # j /\ voucher'[v] = voucher[v]
    BY <1>7
  <2>2. n > 1 /\ ClosedThrough' = closures[n - 1].end
    <3>1. closures' # <<>>
      BY DEF ClosedThrough
    <3>2. Len(closures') # 0
      BY <1>8, <3>1, ShapeFacts DEF Shape
    <3>3. n - 1 \in 1..(n - 1)
      BY <1>2, <3>2
    <3> QED
      BY <1>2, <3>1, <3>3 DEF ClosedThrough, Latest
  <2>3. n - 1 \in 1..(n - 1) /\ n - 1 \in 1..n
    BY <1>2, <2>2
  <2>4. ClosedThrough = closures[n].end
    BY <1>1, <1>2, Closed DEF Inv
  <2>5. voucher[v].date \in 1..ClosedThrough /\ voucher[v].date < closures[n].start
    BY <1>4, <1>12, <1>13, <2>1, <2>2, <2>3, <2>4 DEF Date
  <2>6. PICK i \in 1..n : voucher[v].date \in closures[i].start..closures[i].end
    BY <1>2, <2>1, <2>5 DEF Inv, PeriodsCoverBooks
  <2>7. i \in 1..(n - 1)
    BY <1>2, <1>4, <1>12, <2>5, <2>6 DEF Date
  <2> QED
    BY <1>2, <2>1, <2>6, <2>7
<1> QED
  BY <1>8, <1>9, <1>10, <1>11, <1>14, <1>15 DEF Inv

-----------------------------------------------------------------------------
(* The invariant and what it implies *)

LEMMA NextInv == Inv /\ [Next]_vars => Inv'
<1> SUFFICES ASSUME Inv, [Next]_vars PROVE Inv'
  OBVIOUS
<1>1. CASE UNCHANGED vars
  <2>1. /\ UNCHANGED <<voucher, opening, closures, held, rowLock, pc, tx, late>>
    BY <1>1 DEF vars
  <2>2. /\ ClosedThrough' = ClosedThrough
        /\ \A s : MayClose(s)' = MayClose(s)
        /\ \A s, e, j, a : Activity(s, e, j, a)' = Activity(s, e, j, a)
        /\ Periods' /\ ClosesExactly' /\ PeriodsCoverBooks'
    BY <2>1, SameBooks
  <2>3. Shape'
    BY <2>1 DEF Inv, Shape, ShapeIn
  <2>4. Locks' /\ Guarded'
    BY <2>1, <2>2 DEF Inv, Locks, Guarded, DateGuarded, Vouched
  <2>5. Totalled'
    <3> SUFFICES ASSUME NEW q \in Proc, pc[q] = "totalled" PROVE TotalledBy(q)'
      BY <2>1 DEF Totalled
    <3>1. PICK t : t = tx[q]
      OBVIOUS
    <3>2. TotalledBy(q)
      BY DEF Inv, Totalled
    <3> QED
      BY <2>1, <2>2, <3>1, <3>2 DEF TotalledBy
  <2> QED
    BY <2>2, <2>3, <2>4, <2>5 DEF Inv
<1>2. CASE EditOpening
  BY <1>2, EditOpeningInv
<1>3. ASSUME ~late, NEW p \in Proc, Step(p) PROVE Inv'
  BY <1>3, WriteHeaderInv, WriteLineInv, GuardInv, CommitWriteInv, AbortInv, TotalInv, FinishInv,
     ReopenInv DEF Step
<1> QED
  BY <1>1, <1>2, <1>3 DEF Next

LEMMA SpecInv == Spec => []Inv
<1>1. Init => Inv
  BY InitInv
<1>2. Inv /\ [Next]_vars => Inv'
  BY NextInv
<1> QED
  BY <1>1, <1>2, PTL DEF Spec

\* Every closing journal still settles its period and the opening balances it
\* took over: no guarded write has changed what was totalled, except a line
\* whose voucher was moved meanwhile.
THEOREM FiscalClosesExactly == Spec => []ClosesExactly
<1>1. Inv => ClosesExactly
  BY DEF Inv
<1> QED
  BY <1>1, SpecInv, PTL

\* Every posted voucher in the closed books lies in a closed period, also after
\* reopenings.
THEOREM FiscalPeriodsCoverBooks == Spec => []PeriodsCoverBooks
<1>1. Inv => PeriodsCoverBooks
  BY DEF Inv
<1> QED
  BY <1>1, SpecInv, PTL

\* The closed books change with the closures only, or by a line whose voucher was
\* moved after the trigger had read its date: the guard's lock leaves no other gap.
THEOREM FiscalFrozenUnlessMoved == Spec => FrozenUnlessMoved
<1> DEFINE Frozen == closures' = closures =>
                       \A v \in Voucher :
                         \/ Settled(v)' = Settled(v)
                         \/ \E p \in Proc : pc[p] = "write" /\ tx[p].voucher = v /\ Moved(p)
<1>1. Inv /\ [Next]_vars => [Frozen]_vars
  <2> SUFFICES ASSUME Inv, Next, closures' = closures, NEW v \in Voucher,
                      ~\E p \in Proc : pc[p] = "write" /\ tx[p].voucher = v /\ Moved(p)
               PROVE  Settled(v)' = Settled(v)
    OBVIOUS
  <2>1. ClosedThrough' = ClosedThrough
    BY DEF ClosedThrough, Latest
  <2>2. CASE voucher'[v] = voucher[v]
    BY <2>1, <2>2 DEF Settled
  <2>3. CASE EditOpening
    BY <2>2, <2>3 DEF EditOpening
  <2>4. ASSUME NEW p \in Proc, Step(p) PROVE Settled(v)' = Settled(v)
    <3>1. CASE WriteHeader(p) \/ WriteLine(p) \/ Guard(p) \/ Abort(p) \/ Total(p)
      BY <2>2, <3>1 DEF WriteHeader, WriteLine, Guard, Abort, Total
    <3>2. CASE CommitWrite(p)
      <4>1. PICK w : w = tx[p].voucher
        OBVIOUS
      <4>2. /\ \A u \in Voucher \ {w} : voucher'[u] = voucher[u]
            /\ Moved(p) \/ (voucher[w].date \notin 1..ClosedThrough /\ voucher'[w].date \notin 1..ClosedThrough)
        BY <3>2, <4>1, CommitFacts
      <4>3. pc[p] = "write"
        BY <3>2 DEF CommitWrite
      <4>4. CASE v = w
        BY <2>1, <4>1, <4>2, <4>3, <4>4 DEF Settled
      <4> QED
        BY <2>2, <4>2, <4>4
    <3>3. CASE Finish(p)
      <4>1. PICK c : closures' = Append(closures, c)
        BY <3>3 DEF Finish
      <4>2. PICK A : ShapeIn(A)
        BY DEF Inv, Shape
      <4>3. Len(closures') = Len(closures) + 1 /\ Len(closures) \in Nat
        <5>1. PICK R : closures \in Seq(R)
          BY <4>2 DEF ShapeIn
        <5>2. closures \in Seq(R \cup {c}) /\ c \in R \cup {c}
          BY <5>1, SeqMonotonic
        <5> QED
          BY <4>1, <5>2, AppendProperties, LenProperties
      <4> QED
        BY <4>3
    <3>4. CASE Reopen(p)
      <4>1. Len(closures') = Len(closures) - 1 /\ Len(closures) \in Nat \ {0}
        BY <3>4, ReopenFacts
      <4> QED
        BY <4>1
    <3> QED
      BY <2>4, <3>1, <3>2, <3>3, <3>4 DEF Step
  <2> QED
    BY <2>3, <2>4 DEF Next
<1>2. Spec => [][Frozen]_vars
  BY <1>1, SpecInv, PTL DEF Spec
<1> QED
  BY <1>2 DEF FrozenUnlessMoved

-----------------------------------------------------------------------------
(* The amounts *)

\* The lemmas about sums are proved of StockArithmetic's copies of the operators.
Sums == INSTANCE StockArithmeticProofs WITH Scale <- 1

LEMMA SameSum ==
  ASSUME NEW f
  PROVE  Sums!SumFunction(f) = SumFunction(f)
BY Zenon DEF SumFunction, SumFunctionOnSet, FoldFunctionOnSet, MapThenFoldSet,
     Sums!SumFunction, Sums!SumFunctionOnSet, Sums!FoldFunctionOnSet, Sums!MapThenFoldSet

LEMMA VouchersAreFinite == Sums!IsFiniteSet(Voucher)
<1>1. IsFiniteSet(Entered) /\ IsFiniteSet(Journal)
  BY FS_Interval DEF Entered, Journal
<1>2. IsFiniteSet(Voucher)
  BY <1>1, FS_Union DEF Voucher
<1> QED
  BY <1>2, Zenon DEF IsFiniteSet, Sums!IsFiniteSet

RowOf(v) == rowLock[v] = None \/ tx[rowLock[v]].voucher = v

\* What the shape leaves open: the amounts are integers, and who holds the row of
\* a voucher works on it.
AmountsTyped ==
  /\ opening \in Amounts
  /\ \A v \in Voucher : voucher[v].amount \in Amounts
  /\ \A i \in DOMAIN closures : closures[i].snapshot \in Amounts
  /\ \A p \in Proc : tx[p].lines \in Amounts /\ tx[p].snapshot \in Amounts
  /\ \A v \in Voucher : RowOf(v)

LEMMA ActivityInInt ==
  ASSUME AmountsTyped, NEW s, NEW e, NEW j, NEW a \in Account
  PROVE  Activity(s, e, j, a) \in Int
<1> DEFINE f == [v \in Voucher |-> IF v # j /\ voucher[v].live /\ voucher[v].date \in s..e
                                   THEN voucher[v].amount[a] ELSE 0]
<1>1. \A v \in Voucher : voucher[v].amount[a] \in Int
  BY DEF AmountsTyped, Amounts
<1>2. f \in [Voucher -> Int]
  BY <1>1
<1>3. Activity(s, e, j, a) = SumFunction(f)
  BY DEF Activity
<1> HIDE DEF f
<1>4. Sums!SumFunction(f) \in Int
  BY <1>2, VouchersAreFinite, Sums!SumInInt
<1> QED
  BY <1>3, <1>4, SameSum

\* A transaction that moves on, and holds the row of the voucher it works on.
LEMMA OwnAmounts ==
  ASSUME Inv, AmountsTyped, NEW p \in Proc, NEW t, tx' = [tx EXCEPT ![p] = t],
         t.lines \in Amounts, t.snapshot \in Amounts,
         \A v \in Voucher : \/ rowLock'[v] = None
                            \/ rowLock'[v] = p /\ t.voucher = v
                            \/ rowLock'[v] = rowLock[v] /\ rowLock[v] # p
  PROVE  /\ \A q \in Proc : tx'[q].lines \in Amounts /\ tx'[q].snapshot \in Amounts
         /\ \A v \in Voucher : RowOf(v)'
<1>1. DOMAIN tx = Proc /\ \A v \in Voucher : rowLock[v] \in Proc \cup {None}
  BY DEF Inv, Shape, ShapeIn
<1>2. tx'[p] = t /\ \A q \in Proc \ {p} : tx'[q] = tx[q]
  BY <1>1
<1>3. \A v \in Voucher : RowOf(v)'
  BY <1>1, <1>2 DEF AmountsTyped, RowOf
<1> QED
  BY <1>2, <1>3 DEF AmountsTyped

LEMMA NothingIsAmount == Nothing \in Amounts
BY DEF Nothing, Amounts

LEMMA EndAmounts ==
  ASSUME Inv, AmountsTyped, NEW p \in Proc, End(p)
  PROVE  /\ \A q \in Proc : tx'[q].lines \in Amounts /\ tx'[q].snapshot \in Amounts
         /\ \A v \in Voucher : RowOf(v)'
<1>1. PICK t : t = NoTx
  OBVIOUS
<1>2. t.lines \in Amounts /\ t.snapshot \in Amounts
  BY <1>1, NothingIsAmount DEF NoTx
<1>3. \A v \in Voucher : \/ rowLock'[v] = None
                         \/ rowLock'[v] = p /\ t.voucher = v
                         \/ rowLock'[v] = rowLock[v] /\ rowLock[v] # p
  BY DEF End
<1>4. tx' = [tx EXCEPT ![p] = t]
  BY <1>1 DEF End
<1> QED
  BY <1>2, <1>3, <1>4, OwnAmounts

LEMMA WritingAmounts ==
  ASSUME Inv, AmountsTyped, NEW p \in Proc, WriteHeader(p) \/ WriteLine(p) \/ Guard(p)
  PROVE  AmountsTyped'
<1>1. UNCHANGED <<voucher, opening, closures>>
  BY DEF WriteHeader, WriteLine, Guard
<1>2. PICK A : ShapeIn(A)
  BY DEF Inv, Shape
<1>3. tx[p] \in TxIn(A) /\ DOMAIN rowLock = Voucher
  BY <1>2, OwnTx DEF ShapeIn
<1>4. tx[p].lines \in Amounts /\ tx[p].snapshot \in Amounts
  BY DEF AmountsTyped
<1>5. \A v \in Voucher : rowLock[v] = p => tx[p].voucher = v
  BY DEF AmountsTyped, RowOf, Voucher, Entered, Journal
<1>6. \A v \in Voucher : Writing(p, v) => \A u \in Voucher : rowLock[u] = p => u = v
  <2>1. \A u \in Voucher : u # None
    BY DEF Voucher, Entered, Journal
  <2>2. pc[p] = "idle" => tx[p].voucher = None
    BY DEF Inv, Locks, NoTx
  <2> QED
    BY <1>5, <2>1, <2>2 DEF Writing
<1>7. \E t : /\ tx' = [tx EXCEPT ![p] = t] /\ t.lines \in Amounts /\ t.snapshot \in Amounts
             /\ \A v \in Voucher : \/ rowLock'[v] = None
                                   \/ rowLock'[v] = p /\ t.voucher = v
                                   \/ rowLock'[v] = rowLock[v] /\ rowLock[v] # p
  <2>1. CASE WriteHeader(p)
    <3>0. PICK v \in Voucher : \E h, c :
            /\ Writing(p, v)
            /\ rowLock' = [rowLock EXCEPT ![v] = p]
            /\ tx' = [tx EXCEPT ![p].voucher = v, ![p].header = h, ![p].check = c]
      BY <2>1 DEF WriteHeader
    <3>1. PICK h, c :
            /\ Writing(p, v)
            /\ rowLock' = [rowLock EXCEPT ![v] = p]
            /\ tx' = [tx EXCEPT ![p].voucher = v, ![p].header = h, ![p].check = c]
      BY <3>0
    <3>2. PICK t : t = [tx[p] EXCEPT !.voucher = v, !.header = h, !.check = c]
      OBVIOUS
    <3>3. t.voucher = v /\ t.lines = tx[p].lines /\ t.snapshot = tx[p].snapshot
      BY <1>3, <3>2 DEF TxIn
    <3>4. tx' = [tx EXCEPT ![p] = t]
      BY <3>1, <3>2
    <3>5. \A u \in Voucher : \/ rowLock'[u] = p /\ t.voucher = u
                             \/ rowLock'[u] = rowLock[u] /\ rowLock[u] # p
      BY <1>3, <1>6, <3>1, <3>3
    <3> QED
      BY <1>4, <3>3, <3>4, <3>5
  <2>2. CASE WriteLine(p)
    <3>1. PICK v \in Voucher, a \in Account, d \in Delta :
            /\ Writing(p, v) /\ rowLock' = rowLock
            /\ tx' = [tx EXCEPT ![p].voucher = v, ![p].parent = SeenDate(p, v),
                                ![p].lines = [Nothing EXCEPT ![a] = d],
                                ![p].check = {SeenDate(p, v)}]
      BY <2>2 DEF WriteLine
    <3>2. PICK L, x, c : L = [Nothing EXCEPT ![a] = d] /\ x = SeenDate(p, v) /\ c = {SeenDate(p, v)}
      OBVIOUS
    <3>3. L \in Amounts
      BY <3>2 DEF Nothing, Amounts
    <3>4. PICK t : t = [tx[p] EXCEPT !.voucher = v, !.parent = x, !.lines = L, !.check = c]
      OBVIOUS
    <3>5. t.voucher = v /\ t.lines = L /\ t.snapshot = tx[p].snapshot
      BY <1>3, <3>4 DEF TxIn
    <3>6. tx' = [tx EXCEPT ![p] = t]
      BY <3>1, <3>2, <3>4
    <3>7. \A u \in Voucher : \/ rowLock'[u] = p /\ t.voucher = u
                             \/ rowLock'[u] = rowLock[u] /\ rowLock[u] # p
      BY <1>6, <3>1, <3>5
    <3> QED
      BY <1>4, <3>3, <3>5, <3>6, <3>7
  <2>3. CASE Guard(p)
    <3>1. tx' = [tx EXCEPT ![p].check = {}] /\ rowLock' = rowLock
      BY <2>3 DEF Guard
    <3>2. PICK t : t = [tx[p] EXCEPT !.check = {}]
      OBVIOUS
    <3>3. t.voucher = tx[p].voucher /\ t.lines = tx[p].lines /\ t.snapshot = tx[p].snapshot
      BY <1>3, <3>2 DEF TxIn
    <3>4. tx' = [tx EXCEPT ![p] = t]
      BY <3>1, <3>2
    <3>5. \A u \in Voucher : \/ rowLock'[u] = p /\ t.voucher = u
                             \/ rowLock'[u] = rowLock[u] /\ rowLock[u] # p
      BY <1>5, <3>1, <3>3
    <3> QED
      BY <1>4, <3>3, <3>4, <3>5
  <2> QED
    BY <2>1, <2>2, <2>3
<1>8. /\ \A q \in Proc : tx'[q].lines \in Amounts /\ tx'[q].snapshot \in Amounts
      /\ \A v \in Voucher : RowOf(v)'
  BY <1>7, OwnAmounts
<1> QED
  BY <1>1, <1>8 DEF AmountsTyped

LEMMA CommitAmounts ==
  ASSUME Inv, AmountsTyped, NEW p \in Proc, CommitWrite(p)
  PROVE  AmountsTyped'
<1>1. PICK w : w = tx[p].voucher
  OBVIOUS
<1>2. /\ voucher' = [voucher EXCEPT ![w] = Written(p)] /\ End(p)
      /\ UNCHANGED <<opening, closures>>
  BY <1>1 DEF CommitWrite
<1>3. w \in Voucher /\ DOMAIN voucher = Voucher
  BY <1>1 DEF CommitWrite, Inv, Locks, Shape, ShapeIn
<1>4. Written(p).amount = [a \in Account |-> voucher[w].amount[a] + tx[p].lines[a]]
  BY <1>1 DEF Written
<1>5. Written(p).amount \in Amounts
  <2>1. voucher[w].amount \in Amounts /\ tx[p].lines \in Amounts
    BY <1>3 DEF AmountsTyped
  <2>2. \A a \in Account : voucher[w].amount[a] + tx[p].lines[a] \in Int
    BY <2>1 DEF Amounts
  <2> QED
    BY <1>4, <2>2 DEF Amounts
<1>6. \A v \in Voucher : voucher'[v].amount \in Amounts
  BY <1>2, <1>3, <1>5 DEF AmountsTyped
<1> QED
  BY <1>2, <1>6, EndAmounts DEF AmountsTyped

LEMMA AbortAmounts ==
  ASSUME Inv, AmountsTyped, NEW p \in Proc, Abort(p)
  PROVE  AmountsTyped'
<1>1. End(p) /\ UNCHANGED <<voucher, opening, closures>>
  BY DEF Abort
<1> QED
  BY <1>1, EndAmounts DEF AmountsTyped

LEMMA TotalAmounts ==
  ASSUME Inv, AmountsTyped, NEW p \in Proc, Total(p)
  PROVE  AmountsTyped'
<1>1. UNCHANGED <<voucher, opening, closures>>
  BY DEF Total
<1>0. PICK s \in Date, v \in Voucher : \E e \in s..LastDate :
        /\ rowLock' = [rowLock EXCEPT ![v] = p]
        /\ tx' = [tx EXCEPT ![p].voucher = v, ![p].start = s, ![p].end = e,
                            ![p].lines = Settling(s, e, v), ![p].snapshot = opening]
  BY DEF Total
<1>2. PICK e \in s..LastDate :
        /\ rowLock' = [rowLock EXCEPT ![v] = p]
        /\ tx' = [tx EXCEPT ![p].voucher = v, ![p].start = s, ![p].end = e,
                            ![p].lines = Settling(s, e, v), ![p].snapshot = opening]
  BY <1>0
<1>3. PICK A : ShapeIn(A)
  BY DEF Inv, Shape
<1>4. tx[p] \in TxIn(A) /\ DOMAIN rowLock = Voucher
  BY <1>3, OwnTx DEF ShapeIn
<1>5. opening \in Amounts
  BY DEF AmountsTyped
<1>6. PICK L : L = Settling(s, e, v)
  OBVIOUS
<1>7. L \in Amounts
  <2>1. \A a \in Account : -(opening[a] + Activity(s, e, v, a)) \in Int
    BY <1>5, ActivityInInt DEF Amounts
  <2> QED
    BY <1>6, <2>1 DEF Settling, Amounts
<1>8. PICK t : t = [tx[p] EXCEPT !.voucher = v, !.start = s, !.end = e, !.lines = L,
                                 !.snapshot = opening]
  OBVIOUS
<1>9. t.voucher = v /\ t.lines = L /\ t.snapshot = opening
  BY <1>4, <1>8 DEF TxIn
<1>10. tx' = [tx EXCEPT ![p] = t]
  BY <1>2, <1>6, <1>8
<1>11. \A u \in Voucher : rowLock[u] # p
  <2>1. \A u \in Voucher : u # None
    BY DEF Voucher, Entered, Journal
  <2>2. tx[p].voucher = None
    BY DEF Total, Inv, Locks, NoTx
  <2> QED
    BY <2>1, <2>2 DEF AmountsTyped, RowOf
<1>12. \A u \in Voucher : \/ rowLock'[u] = p /\ t.voucher = u
                          \/ rowLock'[u] = rowLock[u] /\ rowLock[u] # p
  BY <1>2, <1>4, <1>9, <1>11
<1>13. /\ \A q \in Proc : tx'[q].lines \in Amounts /\ tx'[q].snapshot \in Amounts
       /\ \A u \in Voucher : RowOf(u)'
  BY <1>5, <1>7, <1>9, <1>10, <1>12, OwnAmounts
<1> QED
  BY <1>1, <1>13 DEF AmountsTyped

LEMMA FinishAmounts ==
  ASSUME Inv, AmountsTyped, NEW p \in Proc, Finish(p)
  PROVE  AmountsTyped'
<1>1. PICK w, e, L, c :
        /\ w = tx[p].voucher /\ L = tx[p].lines /\ c.snapshot = tx[p].snapshot
        /\ voucher' = [voucher EXCEPT ![w] = [date |-> e, live |-> TRUE, amount |-> L]]
        /\ closures' = Append(closures, c)
        /\ opening' = [a \in Account |-> IF tx[p].snapshot[a] = 0 THEN opening[a] ELSE 0]
        /\ End(p)
  <2>1. PICK c : c = [start |-> tx[p].start, end |-> tx[p].end,
                      journal |-> tx[p].voucher, snapshot |-> tx[p].snapshot]
    OBVIOUS
  <2>2. c.snapshot = tx[p].snapshot
    BY <2>1
  <2> QED
    BY <2>1, <2>2 DEF Finish
<1>2. L \in Amounts /\ c.snapshot \in Amounts /\ opening \in Amounts
  BY <1>1 DEF AmountsTyped
<1>3. opening' \in Amounts
  BY <1>1, <1>2 DEF Amounts
<1>4. DOMAIN voucher = Voucher
  BY DEF Inv, Shape, ShapeIn
<1>5. \A v \in Voucher : voucher'[v].amount \in Amounts
  BY <1>1, <1>2, <1>4 DEF AmountsTyped
<1>6. \A i \in DOMAIN closures' : closures'[i].snapshot \in Amounts
  <2>1. PICK R : closures \in Seq(R)
    BY DEF Inv, Shape, ShapeIn
  <2>2. closures \in Seq(R \cup {c}) /\ c \in R \cup {c}
    BY <2>1, SeqMonotonic
  <2>3. PICK n \in Nat : n = Len(closures) /\ DOMAIN closures = 1..n
    BY <2>1, LenProperties
  <2>4. DOMAIN closures' = 1..(n + 1)
    BY <1>1, <2>2, <2>3, AppendProperties, LenProperties
  <2>5. closures'[n + 1] = c /\ \A i \in 1..n : closures'[i] = closures[i]
    BY <1>1, <2>2, <2>3, AppendProperties
  <2> SUFFICES ASSUME NEW i \in 1..(n + 1) PROVE closures'[i].snapshot \in Amounts
    BY <2>4
  <2>6. i = n + 1 \/ i \in 1..n
    OBVIOUS
  <2> QED
    BY <1>2, <2>3, <2>5, <2>6 DEF AmountsTyped
<1> QED
  BY <1>1, <1>3, <1>5, <1>6, EndAmounts DEF AmountsTyped

\* What is reconstructed for the latest closure is its snapshot.
LEMMA ReconstructedIsSnapshot ==
  ASSUME Inv, AmountsTyped, ~late, NEW c, ExactOf(c), c.snapshot \in Amounts, NEW a \in Account
  PROVE  Reconstructed(c)[a] = c.snapshot[a]
<1>1. PICK x : x = Activity(c.start, c.end, c.journal, a)
  OBVIOUS
<1>2. x \in Int
  BY <1>1, ActivityInInt
<1>3. PICK y : y = c.snapshot[a]
  OBVIOUS
<1>4. y \in Int
  BY <1>3 DEF Amounts
<1>5. voucher[c.journal].amount[a] = -(y + x)
  BY <1>1, <1>3 DEF ExactOf
<1>6. Reconstructed(c)[a] = -voucher[c.journal].amount[a] - x
  BY <1>1 DEF Reconstructed
<1>7. Reconstructed(c)[a] = -(-(y + x)) - x
  BY <1>5, <1>6
<1> QED
  BY <1>2, <1>3, <1>4, <1>7

LEMMA LatestFacts ==
  ASSUME Inv, AmountsTyped, closures # <<>>
  PROVE  /\ Len(closures) \in DOMAIN closures /\ Latest = closures[Len(closures)]
         /\ Latest.snapshot \in Amounts /\ Latest.journal \in Voucher
<1>1. Len(closures) \in DOMAIN closures /\ Latest = closures[Len(closures)]
  BY Closed DEF Inv, Latest
<1> QED
  BY <1>1, ShapeFacts DEF Inv, AmountsTyped

LEMMA ReopenAmounts ==
  ASSUME Inv, AmountsTyped, NEW p \in Proc, Reopen(p)
  PROVE  AmountsTyped'
<1>1. PICK c : c = Latest
  OBVIOUS
<1>2. PICK r \in {c.snapshot, Reconstructed(c)} :
        opening' = [a \in Account |-> IF r[a] = 0 THEN opening[a] ELSE r[a]]
  BY <1>1 DEF Reopen
<1>3. c.snapshot \in Amounts /\ c.journal \in Voucher
  BY <1>1, LatestFacts DEF Reopen
<1>4. Reconstructed(c) \in Amounts
  <2>1. \A a \in Account : voucher[c.journal].amount[a] \in Int
    BY <1>3 DEF AmountsTyped, Amounts
  <2>2. \A a \in Account : Activity(c.start, c.end, c.journal, a) \in Int
    BY ActivityInInt
  <2>3. \A a \in Account :
          -voucher[c.journal].amount[a] - Activity(c.start, c.end, c.journal, a) \in Int
    BY <2>1, <2>2
  <2> QED
    BY <2>3 DEF Reconstructed, Amounts
<1>5. opening' \in Amounts
  <2>1. r \in Amounts /\ opening \in Amounts
    BY <1>2, <1>3, <1>4 DEF AmountsTyped
  <2> QED
    BY <1>2, <2>1 DEF Amounts
<1>6. \A v \in Voucher : voucher'[v].amount = voucher[v].amount
  <2>1. voucher' = [voucher EXCEPT ![c.journal].live = FALSE]
    BY <1>1 DEF Reopen
  <2>2. PICK A : voucher \in [Voucher -> [date : 0..LastDate, live : BOOLEAN, amount : A]]
    BY DEF Inv, Shape, ShapeIn
  <2> QED
    BY <2>1, <2>2
<1>7. PICK n \in Nat \ {0} : n = Len(closures)
  BY ReopenFacts
<1>8. /\ DOMAIN closures' = 1..(n - 1) /\ DOMAIN closures = 1..n
      /\ \A i \in 1..(n - 1) : closures'[i] = closures[i]
      /\ tx' = tx /\ rowLock' = rowLock
  BY <1>7, ReopenFacts, ShapeFacts DEF Inv
<1>9. \A i \in DOMAIN closures' : closures'[i].snapshot \in Amounts
  <2>1. \A i \in 1..(n - 1) : i \in 1..n
    OBVIOUS
  <2> QED
    BY <1>8, <2>1 DEF AmountsTyped
<1> QED
  BY <1>5, <1>6, <1>8, <1>9 DEF AmountsTyped, RowOf

LEMMA EditOpeningAmounts ==
  ASSUME Inv, AmountsTyped, EditOpening
  PROVE  AmountsTyped'
<1>1. opening' \in Amounts
  <2>1. PICK a \in Account, x \in Opening : opening' = [opening EXCEPT ![a] = x]
    BY DEF EditOpening
  <2>2. x \in Int
    OBVIOUS
  <2> QED
    BY <2>1, <2>2 DEF AmountsTyped, Amounts
<1> QED
  BY <1>1 DEF EditOpening, AmountsTyped, RowOf

LEMMA InitAmounts == Init => AmountsTyped
<1> SUFFICES ASSUME Init PROVE AmountsTyped
  OBVIOUS
<1>1. opening \in Amounts
  BY DEF Init, Amounts
<1>2. NoVoucher.amount = Nothing /\ NoTx.lines = Nothing /\ NoTx.snapshot = Nothing
  BY DEF NoVoucher, NoTx
<1>3. DOMAIN closures = {}
  BY DEF Init
<1> QED
  BY <1>1, <1>2, <1>3, NothingIsAmount DEF Init, AmountsTyped, RowOf

LEMMA NextAmounts == Inv /\ AmountsTyped /\ [Next]_vars => AmountsTyped'
<1> SUFFICES ASSUME Inv, AmountsTyped, [Next]_vars PROVE AmountsTyped'
  OBVIOUS
<1>1. CASE UNCHANGED vars
  BY <1>1 DEF vars, AmountsTyped, RowOf
<1>2. ASSUME NEW p \in Proc, Step(p) PROVE AmountsTyped'
  BY <1>2, WritingAmounts, CommitAmounts, AbortAmounts, TotalAmounts, FinishAmounts, ReopenAmounts
     DEF Step
<1> QED
  BY <1>1, <1>2, EditOpeningAmounts DEF Next

LEMMA SpecAmounts == Spec => [](Inv /\ AmountsTyped)
BY InitInv, NextInv, InitAmounts, NextAmounts, PTL DEF Spec

LateTyped == late \in BOOLEAN

LEMMA LateIsBoolean == Spec => []LateTyped
<1>1. Init => LateTyped
  BY DEF Init, LateTyped
<1>2. LateTyped /\ [Next]_vars => LateTyped'
  <2> SUFFICES ASSUME LateTyped, [Next]_vars PROVE LateTyped'
    OBVIOUS
  <2>1. ASSUME NEW p \in Proc, Step(p) PROVE UNCHANGED late \/ CommitWrite(p)
    BY <2>1 DEF Step, WriteHeader, WriteLine, Guard, Abort, Total, Finish, Reopen
  <2>2. ASSUME NEW p \in Proc, CommitWrite(p) PROVE LateTyped'
    BY <2>2, Zenon DEF CommitWrite, LateTyped
  <2>3. ASSUME UNCHANGED late PROVE LateTyped'
    BY <2>3 DEF LateTyped
  <2>4. EditOpening \/ UNCHANGED vars => UNCHANGED late
    BY DEF EditOpening, vars
  <2> QED
    BY <2>1, <2>2, <2>3, <2>4 DEF Next
<1> QED
  BY <1>1, <1>2, PTL DEF Spec

\* Every voucher, opening balance, total and snapshot stays integral, and the
\* row of a voucher is held by the transaction that works on it.
THEOREM FiscalTyping == Spec => []TypeOK
<1>1. Inv /\ AmountsTyped /\ LateTyped => TypeOK
  <2> SUFFICES ASSUME Inv, AmountsTyped, LateTyped PROVE TypeOK
    OBVIOUS
  <2>1. PICK A : ShapeIn(A)
    BY DEF Inv, Shape
  <2>2. voucher \in [Voucher -> [date : 0..LastDate, live : BOOLEAN, amount : Amounts]]
    BY <2>1 DEF ShapeIn, AmountsTyped
  <2>3. tx \in [Proc -> Tx]
    <3>1. tx \in [Proc -> TxIn(A)]
      BY <2>1 DEF ShapeIn, TxIn
    <3>2. \A p \in Proc : tx[p] \in TxIn(Amounts)
      BY <3>1 DEF TxIn, AmountsTyped
    <3> QED
      BY <3>1, <3>2 DEF TxIn, Tx
  <2>4. closures \in Seq(Closure)
    <3> DEFINE R == [start : Date, end : Date, journal : Voucher, snapshot : A]
               n == Len(closures)
    <3>1. closures \in Seq(R)
      BY <2>1 DEF ShapeIn
    <3>2. n \in Nat /\ closures \in [1..n -> R]
      <4> HIDE DEF R
      <4> QED
        BY <3>1, LenProperties
    <3>3. \A i \in 1..n : closures[i] \in R /\ closures[i].snapshot \in Amounts
      BY <3>2 DEF AmountsTyped
    <3>4. \A i \in 1..n : closures[i] \in Closure
      BY <3>3 DEF Closure
    <3>5. closures \in [1..n -> Closure]
      BY <3>2, <3>4
    <3> QED
      BY <3>2, <3>5, SeqDef
  <2>5. /\ held \subseteq Proc /\ rowLock \in [Voucher -> Proc \cup {None}]
        /\ pc \in [Proc -> Location]
    BY <2>1 DEF ShapeIn
  <2> QED
    BY <2>2, <2>3, <2>4, <2>5 DEF TypeOK, AmountsTyped, RowOf, LateTyped
<1> QED
  BY <1>1, SpecAmounts, LateIsBoolean, PTL

\* Reopening gives back what the close took over: what is reconstructed from the
\* journal and the activity of the period is what the snapshot would have held.
THEOREM FiscalReopenRestores == Spec => ReopenRestores
<1> DEFINE Restores == Len(closures') < Len(closures) /\ ~late =>
             \A a \in Account :
               opening'[a] = IF Latest.snapshot[a] = 0 THEN opening[a] ELSE Latest.snapshot[a]
<1>1. Inv /\ AmountsTyped /\ [Next]_vars => [Restores]_vars
  <2> SUFFICES ASSUME Inv, AmountsTyped, Next, Len(closures') < Len(closures), ~late,
                      NEW a \in Account
               PROVE  opening'[a] = IF Latest.snapshot[a] = 0 THEN opening[a] ELSE Latest.snapshot[a]
    OBVIOUS
  <2>0. PICK n \in Nat : n = Len(closures)
    BY ShapeFacts DEF Inv
  <2>1. closures' # closures
    BY <2>0
  <2>2. PICK p \in Proc : Finish(p) \/ Reopen(p)
    <3>1. PICK p \in Proc : Step(p)
      BY <2>1 DEF Next, EditOpening
    <3>2. Finish(p) \/ Reopen(p)
      BY <2>1, <3>1 DEF Step, WriteHeader, WriteLine, Guard, CommitWrite, Abort, Total
    <3> QED
      BY <3>2
  <2>3. ~Finish(p)
    <3> SUFFICES ASSUME Finish(p) PROVE FALSE
      OBVIOUS
    <3>1. PICK c : closures' = Append(closures, c)
      BY DEF Finish
    <3>2. PICK R : closures \in Seq(R)
      BY DEF Inv, Shape, ShapeIn
    <3>3. closures \in Seq(R \cup {c}) /\ c \in R \cup {c}
      BY <3>2, SeqMonotonic
    <3>4. Len(closures') = n + 1
      BY <2>0, <3>1, <3>3, AppendProperties
    <3> QED
      BY <2>0, <3>4
  <2>4. closures # <<>>
    BY <2>2, <2>3 DEF Reopen
  <2>5. PICK c : c = Latest
    OBVIOUS
  <2>6. PICK r \in {c.snapshot, Reconstructed(c)} :
          opening' = [b \in Account |-> IF r[b] = 0 THEN opening[b] ELSE r[b]]
    BY <2>2, <2>3, <2>5 DEF Reopen
  <2>7. ExactOf(c) /\ c.snapshot \in Amounts
    BY <2>4, <2>5, LatestFacts, Exactly DEF Inv
  <2>8. r[a] = c.snapshot[a]
    BY <2>6, <2>7, ReconstructedIsSnapshot
  <2> QED
    BY <2>5, <2>6, <2>8
<1>2. Spec => [][Restores]_vars
  BY <1>1, SpecAmounts, PTL DEF Spec
<1> QED
  BY <1>2 DEF ReopenRestores

=============================================================================

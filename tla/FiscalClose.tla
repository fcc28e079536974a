----------------------------- MODULE FiscalClose -----------------------------
(***************************************************************************)
(* The fiscal close of a company and the closed-period guard.              *)
(*                                                                         *)
(* A close totals the income and expense of a period, posts a closing      *)
(* journal for it, zeroes the opening balances it has included and records *)
(* the closure; from then on triggers on the vouchers and on their lines   *)
(* refuse every financial change dated in the closed books.  Reopening the *)
(* latest closure takes its journal out of the books, gives the opening    *)
(* balances back and removes the closure.                                  *)
(*                                                                         *)
(* The processes are database transactions, at READ COMMITTED.  A guarded  *)
(* write takes the shared side of the company's advisory lock, a close or  *)
(* a reopening the exclusive side, both until the transaction ends.  The   *)
(* update of a voucher also locks its row.  The change of a line does not: *)
(* its trigger reads the date of the voucher, and then waits for the lock. *)
(*                                                                         *)
(* Amounts are debit-positive and integral, the lines of a voucher on one  *)
(* account are one sum, and only income and expense accounts are here: the *)
(* line of retained earnings is the opposite of the others.  A voucher has *)
(* one date: its effective date is guarded in the same way but never       *)
(* totalled.  live stands for neither deleted nor optional.                *)
(***************************************************************************)
EXTENDS Integers, Sequences, Functions

CONSTANTS
  Proc,       \* the transactions
  None,       \* no transaction, no voucher
  MaxEntered, \* bound on the vouchers that users enter
  MaxJournal, \* bound on the closing journals
  Account,    \* the income and expense accounts
  LastDate,   \* the last accounting date
  Delta,      \* the changes a write makes to the lines of a voucher
  MaxAmount,  \* bound on the lines of a voucher that a write leaves
  Opening     \* the opening balances a user may enter

ASSUME FiscalAssumption ==
  /\ None \notin Proc \cup Nat
  /\ MaxEntered \in Nat /\ MaxJournal \in Nat
  /\ LastDate \in Nat
  /\ Delta \subseteq Int \ {0}
  /\ MaxAmount \in Nat
  /\ Opening \subseteq Int

VARIABLES
  voucher,    \* the committed vouchers: [date, live, amount]
  opening,    \* the opening balances of the accounts
  closures,   \* the closures, the latest last
  held,       \* who holds a side of the advisory lock
  rowLock,    \* who holds the row of each voucher
  pc,         \* where each transaction is
  tx,         \* what each transaction has read and done
  late        \* history: a line was written into the closed books

vars == <<voucher, opening, closures, held, rowLock, pc, tx, late>>

\* The entered vouchers and the closing journals are numbered apart.
Entered == 1..MaxEntered
Journal == (MaxEntered + 1)..(MaxEntered + MaxJournal)
Voucher == Entered \cup Journal
Date == 1..LastDate
Amounts == [Account -> Int]
Nothing == [a \in Account |-> 0]

Header == [date : 0..LastDate, live : BOOLEAN]
NoHeader == [date |-> 0, live |-> FALSE]

\* A voucher of date 0 has not been inserted yet.
NoVoucher == [date |-> 0, live |-> FALSE, amount |-> Nothing]

\* header is the header it has written, parent the date it has read of the
\* voucher of its line, lines what it adds to the lines, check the dates its
\* trigger is to check; start and end are the period to be closed, lines its
\* totals and snapshot the opening balances in them.
NoTx == [voucher |-> None, header |-> NoHeader, parent |-> 0, lines |-> Nothing,
         check |-> {}, start |-> 0, end |-> 0, snapshot |-> Nothing]

Tx == [voucher : Voucher \cup {None}, header : Header, parent : 0..LastDate,
       lines : Amounts, check : SUBSET Date,
       start : 0..LastDate, end : 0..LastDate, snapshot : Amounts]

Closure == [start : Date, end : Date, journal : Voucher, snapshot : Amounts]

Location == {"idle", "guard", "write", "totalled"}

Latest == closures[Len(closures)]

\* The date the books are closed through.
ClosedThrough == IF closures = <<>> THEN 0 ELSE Latest.end

Init ==
  /\ voucher = [v \in Voucher |-> NoVoucher]
  /\ opening \in [Account -> Opening]
  /\ closures = <<>>
  /\ held = {}
  /\ rowLock = [v \in Voucher |-> None]
  /\ pc = [p \in Proc |-> "idle"]
  /\ tx = [p \in Proc |-> NoTx]
  /\ late = FALSE

Goto(p, l) == pc' = [pc EXCEPT ![p] = l]

-----------------------------------------------------------------------------
(* The advisory lock *)

\* Mutation of CanTake: a close takes the shared side as well.
CanShare(p, exclusive) == TRUE

\* p can take its side: no other transaction holds the exclusive side or, when p
\* is to take that one, any side.
CanTake(p, exclusive) == \A q \in held \ {p} : pc[q] # "totalled" /\ ~exclusive

\* Mutation of End: the connection goes back to the pool with its rows locked.
EndKeepingRows(p) ==
  /\ held' = held \ {p}
  /\ rowLock' = rowLock
  /\ tx' = [tx EXCEPT ![p] = NoTx]
  /\ Goto(p, "idle")

\* The end of a transaction releases its locks.
End(p) ==
  /\ held' = held \ {p}
  /\ rowLock' = [v \in Voucher |-> IF rowLock[v] = p THEN None ELSE rowLock[v]]
  /\ tx' = [tx EXCEPT ![p] = NoTx]
  /\ Goto(p, "idle")

\* A refusal, a lost connection or the choice of p as a deadlock's victim.
Abort(p) ==
  /\ pc[p] # "idle"
  /\ End(p)
  /\ UNCHANGED <<voucher, opening, closures, late>>

-----------------------------------------------------------------------------
(* Guarded writes *)

\* p starts to write v, or goes on to.
Writing(p, v) == pc[p] = "idle" \/ (pc[p] = "write" /\ tx[p].voucher = v)

\* Mutation of HeaderDates: only the new date is checked.
NewDateOnly(v, h) == {h.date}

\* The dates checked for a change of a header: the one it had, if any, and the
\* one it gets.
HeaderDates(v, h) == {voucher[v].date, h.date} \ {0}

\* The next of the numbers.
Fresh(v, numbers) ==
  /\ v \in numbers
  /\ voucher[v].date = 0 /\ rowLock[v] = None
  /\ \A u \in numbers : u < v => voucher[u].date # 0 \/ rowLock[u] # None

\* The headers a write may give v: a new voucher is posted, a posted one gets
\* another date, is deleted or made optional, and one off the books is put back.
NewHeaders(v) ==
  LET old == [date |-> voucher[v].date, live |-> voucher[v].live]
  IN IF old.date = 0 THEN [date : Date, live : {TRUE}]
     ELSE IF old.live
     THEN {[old EXCEPT !.date = d] : d \in Date \ {old.date}} \cup {[old EXCEPT !.live = FALSE]}
     ELSE {[old EXCEPT !.live = TRUE]}

\* The insertion of a voucher, or the update of its date, of deleted_at (a
\* deletion or a restoration) or of its optional flag.  Its row is locked
\* before the trigger reads it.
WriteHeader(p) ==
  \E v \in Voucher : \E h \in NewHeaders(v) :
    /\ Writing(p, v)
    /\ tx[p].header = NoHeader
    /\ rowLock[v] = None /\ (voucher[v].date = 0 => Fresh(v, Entered))
    /\ rowLock' = [rowLock EXCEPT ![v] = p]
    /\ tx' = [tx EXCEPT ![p].voucher = v, ![p].header = h, ![p].check = HeaderDates(v, h)]
    /\ Goto(p, "guard")
    /\ UNCHANGED <<voucher, opening, closures, held, late>>

\* The date of v that p sees.
SeenDate(p, v) == IF tx[p].header = NoHeader THEN voucher[v].date ELSE tx[p].header.date

\* The insertion, update or deletion of a line of a voucher.
WriteLine(p) ==
  \E v \in Voucher, a \in Account, d \in Delta :
    /\ Writing(p, v)
    /\ tx[p].parent = 0
    /\ SeenDate(p, v) # 0
    /\ voucher[v].amount[a] + d \in -MaxAmount..MaxAmount
    /\ tx' = [tx EXCEPT ![p].voucher = v, ![p].parent = SeenDate(p, v),
                        ![p].lines = [Nothing EXCEPT ![a] = d],
                        ![p].check = {SeenDate(p, v)}]
    /\ Goto(p, "guard")
    /\ UNCHANGED <<voucher, opening, closures, held, rowLock, late>>

Open(p) == \A d \in tx[p].check : d > ClosedThrough

\* The trigger, granted the shared lock, finds the dates open.
Guard(p) ==
  /\ pc[p] = "guard"
  /\ CanTake(p, FALSE)
  /\ Open(p)
  /\ held' = held \cup {p}
  /\ tx' = [tx EXCEPT ![p].check = {}]
  /\ Goto(p, "write")
  /\ UNCHANGED <<voucher, opening, closures, rowLock, late>>

\* The voucher has been moved since the trigger on its line read its date.
Moved(p) ==
  /\ tx[p].header = NoHeader
  /\ tx[p].parent # voucher[tx[p].voucher].date

Written(p) ==
  LET old == voucher[tx[p].voucher]
      new == IF tx[p].header = NoHeader THEN old ELSE tx[p].header
  IN [date |-> new.date, live |-> new.live,
      amount |-> [a \in Account |-> old.amount[a] + tx[p].lines[a]]]

CommitWrite(p) ==
  /\ pc[p] = "write"
  /\ voucher' = [voucher EXCEPT ![tx[p].voucher] = Written(p)]
  /\ late' = (late \/ (Moved(p) /\ voucher[tx[p].voucher].date <= ClosedThrough))
  /\ End(p)
  /\ UNCHANGED <<opening, closures>>

-----------------------------------------------------------------------------
(* closeFiscalPeriod *)

\* What the live vouchers of a period, without its own journal, add to a.
Activity(start, end, journal, a) ==
  SumFunction([v \in Voucher |->
    IF v # journal /\ voucher[v].live /\ voucher[v].date \in start..end
    THEN voucher[v].amount[a] ELSE 0])

\* Mutation of MayClose: the first period may start anywhere.
MayCloseAnywhere(s) == closures # <<>> => s = Latest.end + 1

\* The periods are contiguous, and nothing is posted before the first.
MayClose(s) ==
  IF closures = <<>>
  THEN \A v \in Voucher :
         voucher[v].live /\ voucher[v].amount # Nothing => voucher[v].date >= s
  ELSE s = Latest.end + 1

\* What settles the period and the opening balances.
Settling(start, end, journal) ==
  [a \in Account |-> -(opening[a] + Activity(start, end, journal, a))]

\* Under the lock the income and expense of the period are read; the closing
\* journal, a new voucher, is inserted with the transaction's end.
Total(p) ==
  /\ pc[p] = "idle"
  /\ CanTake(p, TRUE)
  /\ held' = held \cup {p}
  /\ \E s \in Date, v \in Voucher : \E e \in s..LastDate :
       /\ MayClose(s)
       /\ Fresh(v, Journal)
       /\ rowLock' = [rowLock EXCEPT ![v] = p]
       /\ tx' = [tx EXCEPT ![p].voucher = v, ![p].start = s, ![p].end = e,
                           ![p].lines = Settling(s, e, v), ![p].snapshot = opening]
  /\ Goto(p, "totalled")
  /\ UNCHANGED <<voucher, opening, closures, late>>

\* The closure is recorded, and the opening balances of its snapshot are zeroed,
\* whatever they are by now.
Finish(p) ==
  /\ pc[p] = "totalled"
  /\ voucher' = [voucher EXCEPT ![tx[p].voucher] =
                   [date |-> tx[p].end, live |-> TRUE, amount |-> tx[p].lines]]
  /\ closures' = Append(closures, [start |-> tx[p].start, end |-> tx[p].end,
                                   journal |-> tx[p].voucher, snapshot |-> tx[p].snapshot])
  /\ opening' = [a \in Account |-> IF tx[p].snapshot[a] = 0 THEN opening[a] ELSE 0]
  /\ End(p)
  /\ UNCHANGED late

-----------------------------------------------------------------------------
(* reopenFiscalPeriod *)

\* Mutation of Reconstructed: the journal is still in the books when they are read.
ReconstructedWithJournal(c) ==
  [a \in Account |-> -voucher[c.journal].amount[a] - Activity(c.start, c.end, None, a)]

\* For a closure made before snapshots were stored: what the closing journal has
\* moved less the activity of the period.
Reconstructed(c) ==
  [a \in Account |-> -voucher[c.journal].amount[a] - Activity(c.start, c.end, c.journal, a)]

\* No opening balance is given back over a new one.
NoneOverwritten(restored) == \A a \in Account : restored[a] # 0 => opening[a] = 0

\* Only the latest closure may be reopened.  Nobody else is in a guarded write.
Reopen(p) ==
  /\ pc[p] = "idle"
  /\ CanTake(p, TRUE)
  /\ closures # <<>>
  /\ rowLock[Latest.journal] = None
  /\ \E restored \in {Latest.snapshot, Reconstructed(Latest)} :
       /\ NoneOverwritten(restored)
       /\ opening' = [a \in Account |-> IF restored[a] = 0 THEN opening[a] ELSE restored[a]]
  /\ voucher' = [voucher EXCEPT ![Latest.journal].live = FALSE]
  /\ closures' = SubSeq(closures, 1, Len(closures) - 1)
  /\ UNCHANGED <<held, rowLock, pc, tx, late>>

-----------------------------------------------------------------------------
\* A user edits the opening balance of an account: no guard, and no lock but the
\* row's, which a close only takes when it zeroes it.
EditOpening ==
  /\ \E a \in Account, x \in Opening :
       opening[a] # x /\ opening' = [opening EXCEPT ![a] = x]
  /\ UNCHANGED <<voucher, closures, held, rowLock, pc, tx, late>>

Step(p) ==
  \/ WriteHeader(p) \/ WriteLine(p) \/ Guard(p) \/ CommitWrite(p) \/ Abort(p)
  \/ Total(p) \/ Finish(p) \/ Reopen(p)

\* A bound: what follows a late line is not followed.
Next == ~late /\ (EditOpening \/ \E p \in Proc : Step(p))

Spec == Init /\ [][Next]_vars

-----------------------------------------------------------------------------
TypeOK ==
  /\ voucher \in [Voucher -> [date : 0..LastDate, live : BOOLEAN, amount : Amounts]]
  /\ opening \in Amounts
  /\ closures \in Seq(Closure)
  /\ held \subseteq Proc
  /\ rowLock \in [Voucher -> Proc \cup {None}]
  /\ \A v \in Voucher : rowLock[v] = None \/ tx[rowLock[v]].voucher = v
  /\ pc \in [Proc -> Location]
  /\ tx \in [Proc -> Tx]
  /\ late \in BOOLEAN

\* The journal of every closure still settles its period exactly: what is posted
\* in the period and the opening balances taken over, unless a line has been
\* written into the closed books.
ClosesExactly ==
  ~late => \A i \in DOMAIN closures : LET c == closures[i] IN
    /\ voucher[c.journal].live /\ voucher[c.journal].date = c.end
    /\ \A a \in Account :
         voucher[c.journal].amount[a] = -(c.snapshot[a] + Activity(c.start, c.end, c.journal, a))

\* Every posted voucher that the guard locks lies in a period that was closed.
PeriodsCoverBooks ==
  ~late => \A v \in Voucher :
    (voucher[v].live /\ voucher[v].amount # Nothing /\ voucher[v].date \in 1..ClosedThrough) =>
      \E i \in DOMAIN closures : voucher[v].date \in closures[i].start..closures[i].end

\* What v contributes to the closed books.
Settled(v) ==
  IF voucher[v].live /\ voucher[v].date \in 1..ClosedThrough
  THEN <<voucher[v].date, voucher[v].amount>> ELSE <<>>

\* The closed books only change with the closures, or by a line whose voucher was
\* moved into the closed period after the trigger had read its date.
FrozenUnlessMoved ==
  [][closures' = closures =>
       \A v \in Voucher :
         \/ Settled(v)' = Settled(v)
         \/ \E p \in Proc : pc[p] = "write" /\ tx[p].voucher = v /\ Moved(p)]_vars

\* Reopening gives back the opening balances that the close took over, whether
\* its snapshot was kept or is reconstructed, and no other one.
ReopenRestores ==
  [][Len(closures') < Len(closures) /\ ~late =>
       \A a \in Account :
         opening'[a] = IF Latest.snapshot[a] = 0 THEN opening[a] ELSE Latest.snapshot[a]]_vars

\* What the ledger reports of a: the opening balance and everything posted to it.
LedgerBalance(a) == opening[a] + Activity(1, ClosedThrough, None, a)

\* A close leaves every income and expense account at zero.
AccountsAreZeroed ==
  [][Len(closures') > Len(closures) => \A a \in Account : LedgerBalance(a)' = 0]_vars

=============================================================================

--------------------- MODULE LocationStockDeliveryProofs ---------------------
(***************************************************************************)
(* Theorems about LocationStockDelivery, for any number of processes,      *)
(* deliveries and dates.                                                   *)
(*                                                                         *)
(* Inv says who is at work on which delivery (Placed, Alone), what is      *)
(* known of a delivery while it is sent (Sending) and afterwards (Told),   *)
(* and what the two unique keys leave apart (OnePerDate, OneActive).       *)
(***************************************************************************)
EXTENDS LocationStockDelivery, TLAPS

USE LocationAssumption

Working(p) == pc[p] \in {"send", "complete", "dispose"}

\* What a retry starts from: a delivery that has failed, or is in doubt.
Retried(r) == r \in Row /\ (delivery[r].status = "failed" \/ r \in doubted)

\* The requests in hand.
Placed ==
  \A p \in Proc :
    /\ pc[p] = "idle" => tx[p] = NoTx
    /\ pc[p] \in {"orphan", "release", "claim"} => Scheduled(p)
    /\ pc[p] = "insert" /\ tx[p].request.source = "retry" => Retried(tx[p].request.retryOf)

\* A process works on a delivery of its own request.
Alone ==
  \A p \in Proc : Working(p) =>
    /\ Inserted(tx[p].row)
    /\ delivery[tx[p].row].request = tx[p].request
    /\ \A q \in Proc \ {p} : Working(q) => tx[q].row # tx[p].row

\* What p knows of its delivery.
Knows(p) ==
  LET d == tx[p].row IN
  /\ pc[p] = "send" => accepted[d] = 0
  /\ pc[p] \in {"send", "complete"} =>
       delivery[d].status = "running" \/ (delivery[d].status = "failed" /\ d \in doubted)
  /\ pc[p] = "complete" =>
       \/ tx[p].result = "sent" /\ accepted[d] = 1
       \/ tx[p].result = "failed" /\ (accepted[d] = 1 => d \in doubted)
  /\ pc[p] = "dispose" => tx[p].result = "sent" /\ delivery[d].status = "sent"

Sending == \A p \in Proc : Working(p) => Knows(p)

\* What is recorded of a delivery.
ToldOf(d) ==
  /\ accepted[d] \in {0, 1}
  /\ delivery[d].status = "none" => accepted[d] = 0 /\ delivery[d].request = NoTx.request
  /\ delivery[d].status = "sent" => accepted[d] = 1
  /\ delivery[d].status = "failed" /\ accepted[d] = 1 => d \in doubted
  /\ delivery[d].request.source = "retry" => Retried(delivery[d].request.retryOf)

Told == \A d \in Row : ToldOf(d)

\* The key of the schedules.
OnePerDate ==
  \A d, e \in Row :
    (/\ delivery[d].request.source = "scheduled" /\ delivery[e].request.source = "scheduled"
     /\ delivery[d].request.day = delivery[e].request.day) => d = e

Active(d) == delivery[d].request.source = "retry" /\ delivery[d].status \in {"running", "sent"}

\* The index of the active retries.
OneActive ==
  \A d, e \in Row :
    Active(d) /\ Active(e) /\ delivery[d].request.retryOf = delivery[e].request.retryOf => d = e

Inv == TypeOK /\ Placed /\ Alone /\ Sending /\ Told /\ OnePerDate /\ OneActive

-----------------------------------------------------------------------------
(* Records and processes *)

LEMMA AskingTyped ==
  ASSUME NEW s \in Source, NEW d \in Day \cup {NoDay}, NEW r \in 0..MaxRow, s = "retry" \/ r = 0
  PROVE  /\ Asking(s, d, r) \in Tx
         /\ Asking(s, d, r).request = [source |-> s, day |-> d, retryOf |-> r]
         /\ Asking(s, d, r).row = 0 /\ Asking(s, d, r).result = "failed"
         /\ Asking(s, d, r).request \in Request
BY DEF Asking, Tx, Request, Status, Result, Row

LEMMA NoTxTyped == NoTx \in Tx /\ NoTx.row = 0 /\ NoTx.request.source = "manual" /\ NoTx.request \in Request
<1>1. "manual" \in Source /\ NoDay \in Day \cup {NoDay} /\ 0 \in 0..MaxRow
  BY DEF Source
<1>2. /\ Asking("manual", NoDay, 0) \in Tx
      /\ Asking("manual", NoDay, 0).request = [source |-> "manual", day |-> NoDay, retryOf |-> 0]
      /\ Asking("manual", NoDay, 0).row = 0
      /\ Asking("manual", NoDay, 0).request \in Request
  BY <1>1, AskingTyped
<1> QED
  BY <1>2 DEF NoTx

\* p goes to l with t, and nobody else moves.
Goes(p, l, t) == pc' = [pc EXCEPT ![p] = l] /\ tx' = [tx EXCEPT ![p] = t]

Quiet == Location \ {"send", "complete", "dispose"}

\* A step that touches no delivery and leaves p at none.
LEMMA QuietStep ==
  ASSUME Inv, NEW p \in Proc, NEW l \in Quiet, NEW t \in Tx, Goes(p, l, t), t.row = 0,
         schedule' \in Schedule, UNCHANGED <<delivery, accepted, doubted>>,
         l = "idle" => t = NoTx,
         l \in {"orphan", "release", "claim"} => t.request.source = "scheduled",
         l = "insert" /\ t.request.source = "retry" => Retried(t.request.retryOf)
  PROVE  Inv'
<1>1. TypeOK'
  BY DEF Inv, TypeOK, Goes, Quiet
<1>2. \A q \in Proc : pc'[q] = (IF q = p THEN l ELSE pc[q]) /\ tx'[q] = (IF q = p THEN t ELSE tx[q])
  BY DEF Inv, TypeOK, Goes
<1>3. ~Working(p)' /\ \A q \in Proc \ {p} : Working(q)' = Working(q)
  BY <1>2 DEF Working, Quiet
<1>4. Placed'
  BY <1>2 DEF Inv, Placed, Retried, Scheduled
<1>5. Alone' /\ Sending'
  BY <1>2, <1>3 DEF Inv, Alone, Sending, Knows, Inserted
<1>6. Told' /\ OnePerDate' /\ OneActive'
  BY DEF Inv, Told, ToldOf, Retried, OnePerDate, OneActive, Active
<1> QED
  BY <1>1, <1>4, <1>5, <1>6 DEF Inv

LEMMA TxOf ==
  ASSUME TypeOK, NEW p \in Proc
  PROVE  /\ tx[p] \in Tx /\ tx[p].request \in Request /\ tx[p].row \in 0..MaxRow
         /\ tx[p].result \in Status /\ pc[p] \in Location
BY DEF TypeOK, Tx

LEMMA LeaveGoes ==
  ASSUME NEW p \in Proc, Leave(p)
  PROVE  Goes(p, "idle", NoTx) /\ NoTx \in Tx /\ NoTx.row = 0
BY NoTxTyped DEF Leave, Goto, Goes

\* A delivery returns to the schedule or to nobody.
LEMMA ReturnGoes ==
  ASSUME NEW p \in Proc, NEW s \in Status, Return(p, s)
  PROVE  \E l \in {"finish", "idle"} : \E t \in Tx :
           Goes(p, l, t) /\ t.row = 0 /\ (l = "idle" => t = NoTx)
<1>1. CASE Scheduled(p)
  <2> DEFINE a == Asking("scheduled", NoDay, 0)
             t == [a EXCEPT !.result = s]
  <2>1. "scheduled" \in Source /\ NoDay \in Day \cup {NoDay} /\ 0 \in 0..MaxRow
    BY DEF Source
  <2>2. a \in Tx /\ a.row = 0
    BY <2>1, AskingTyped
  <2>3. t \in Tx /\ t.row = 0
    <3> HIDE DEF a
    <3> QED
      BY <2>2 DEF Tx
  <2>4. Goes(p, "finish", t)
    BY <1>1 DEF Return, Goto, Goes
  <2> HIDE DEF t
  <2> QED
    BY <2>3, <2>4
<1>2. CASE ~Scheduled(p)
  <2>1. Leave(p)
    BY <1>2 DEF Return
  <2> QED
    BY <2>1, LeaveGoes
<1> QED
  BY <1>1, <1>2

-----------------------------------------------------------------------------
(* Initially, and the steps that touch no delivery *)

LEMMA InitInv == Init => Inv
<1> SUFFICES ASSUME Init PROVE Inv
  OBVIOUS
<1>1. \A d \in Row : delivery[d].request = NoTx.request /\ delivery[d].status = "none"
  BY DEF Init
<1>2. TypeOK
  BY NoTxTyped DEF Init, TypeOK, Delivery, Schedule, Location, Row
<1>3. Placed /\ Alone /\ Sending
  BY NoTxTyped DEF Init, Placed, Alone, Sending, Working, Scheduled
<1>4. Told /\ OnePerDate /\ OneActive
  BY <1>1, NoTxTyped DEF Init, Told, ToldOf, OnePerDate, OneActive, Active
<1> QED
  BY <1>2, <1>3, <1>4 DEF Inv

LEMMA LeaveStep ==
  ASSUME Inv, NEW p \in Proc, Leave(p), schedule' \in Schedule,
         UNCHANGED <<delivery, accepted, doubted>>
  PROVE  Inv'
BY LeaveGoes, QuietStep DEF Quiet, Location

LEMMA ReturnStep ==
  ASSUME Inv, NEW p \in Proc, NEW s \in Status, Return(p, s),
         UNCHANGED <<schedule, delivery, accepted, doubted>>
  PROVE  Inv'
<1>1. PICK l \in {"finish", "idle"} : \E t \in Tx :
         Goes(p, l, t) /\ t.row = 0 /\ (l = "idle" => t = NoTx)
  BY ReturnGoes
<1>2. PICK t \in Tx : Goes(p, l, t) /\ t.row = 0 /\ (l = "idle" => t = NoTx)
  BY <1>1
<1>3. l \in Quiet /\ schedule' \in Schedule
  BY DEF Quiet, Location, Inv, TypeOK
<1> QED
  BY <1>2, <1>3, QuietStep

\* A step of p that only moves it on.
LEMMA MoveStep ==
  ASSUME Inv, NEW p \in Proc, ~Working(p), NEW l \in Quiet \ {"idle"}, Goto(p, l),
         schedule' \in Schedule, UNCHANGED <<tx, delivery, accepted, doubted>>,
         tx[p].row = 0,
         l \in {"orphan", "release", "claim"} => Scheduled(p),
         l = "insert" => tx[p].request.source # "retry"
  PROVE  Inv'
<1>1. tx[p] \in Tx /\ Goes(p, l, tx[p])
  BY TxOf DEF Goes, Goto, Inv, TypeOK
<1> QED
  BY <1>1, QuietStep DEF Scheduled

LEMMA RowOf ==
  ASSUME Inv, NEW p \in Proc
  PROVE  tx[p].row # 0 <=> Working(p)
BY DEF Inv, TypeOK, Working

LEMMA ResetInv ==
  ASSUME Inv, NEW p \in Proc, Reset(p)
  PROVE  Inv'
<1>1. schedule' \in Schedule
  BY DEF Inv, TypeOK, Schedule, Reset
<1>2. ~Working(p) /\ tx[p].row = 0
  BY RowOf DEF Reset, Working
<1>3. PICK l \in {"orphan", "lookup"} : Goto(p, l) /\ (l = "orphan" => Scheduled(p))
  BY DEF Reset
<1> QED
  BY <1>1, <1>2, <1>3, MoveStep DEF Reset, Quiet, Location

LEMMA FindOrphanInv ==
  ASSUME Inv, NEW p \in Proc, FindOrphan(p)
  PROVE  Inv'
<1>1. schedule' \in Schedule /\ Scheduled(p)
  BY DEF Inv, TypeOK, FindOrphan, Placed
<1>2. ~Working(p) /\ tx[p].row = 0
  BY RowOf DEF FindOrphan, Working
<1>3. PICK l \in {"release", "claim"} : Goto(p, l)
  BY DEF FindOrphan
<1> QED
  BY <1>1, <1>2, <1>3, MoveStep DEF FindOrphan, Quiet, Location

LEMMA ReleaseInv ==
  ASSUME Inv, NEW p \in Proc, Release(p)
  PROVE  Inv'
<1>1. schedule' \in Schedule /\ Scheduled(p)
  BY DEF Inv, TypeOK, Schedule, Release, Placed
<1>2. ~Working(p) /\ tx[p].row = 0
  BY RowOf DEF Release, Working
<1> QED
  BY <1>1, <1>2, MoveStep DEF Release, Quiet, Location

LEMMA ClaimDateInv ==
  ASSUME Inv, NEW p \in Proc, ClaimDate(p)
  PROVE  Inv'
<1>1. CASE \E d \in Day \ {schedule.day} :
             /\ schedule' = [day |-> d, running |-> TRUE]
             /\ tx' = [tx EXCEPT ![p] = Asking("scheduled", d, 0)]
             /\ Goto(p, "insert")
  <2>1. PICK d \in Day : /\ schedule' = [day |-> d, running |-> TRUE]
                         /\ tx' = [tx EXCEPT ![p] = Asking("scheduled", d, 0)]
                         /\ Goto(p, "insert")
    BY <1>1
  <2>1a. /\ "scheduled" \in Source /\ d \in Day \cup {NoDay} /\ 0 \in 0..MaxRow
         /\ "insert" \in Location
    BY DEF Source, Location
  <2>1b. PICK t : t = Asking("scheduled", d, 0)
    OBVIOUS
  <2>1c. tx' = [tx EXCEPT ![p] = t]
    BY <2>1, <2>1b
  <2>2. /\ t \in Tx /\ Goes(p, "insert", t) /\ t.row = 0
        /\ t.request = [source |-> "scheduled", day |-> d, retryOf |-> 0]
    <3>1. /\ t \in Tx /\ t.row = 0
          /\ t.request = [source |-> "scheduled", day |-> d, retryOf |-> 0]
      BY <2>1a, <2>1b, AskingTyped
    <3> QED
      BY <2>1, <2>1c, <3>1 DEF Goes, Goto
  <2>3. schedule' \in Schedule /\ "insert" \in Quiet
    BY <2>1 DEF Schedule, Quiet, Location
  <2> QED
    BY <2>2, <2>3, QuietStep DEF ClaimDate
<1>2. CASE Leave(p) /\ UNCHANGED schedule
  BY <1>2, LeaveStep DEF ClaimDate, Inv, TypeOK
<1> QED
  BY <1>1, <1>2 DEF ClaimDate

LEMMA FinishInv ==
  ASSUME Inv, NEW p \in Proc, Finish(p)
  PROVE  Inv'
<1>1. schedule' \in Schedule
  BY DEF Finish, Inv, TypeOK, Schedule
<1> QED
  BY <1>1, LeaveStep DEF Finish

LEMMA ManualInv ==
  ASSUME Inv, NEW p \in Proc, Manual(p)
  PROVE  Inv'
<1>1. tx[p] = NoTx
  BY DEF Manual, Inv, Placed
<1>2. tx[p].row = 0 /\ tx[p].request.source # "retry" /\ ~Working(p)
  BY <1>1, NoTxTyped DEF Manual, Working
<1> QED
  BY <1>2, MoveStep DEF Manual, Quiet, Location, Inv, TypeOK

LEMMA LookupInv ==
  ASSUME Inv, NEW p \in Proc, Lookup(p)
  PROVE  Inv'
<1>1. schedule' \in Schedule
  BY DEF Lookup, Inv, TypeOK
<1>2. CASE Leave(p)
  BY <1>1, <1>2, LeaveStep DEF Lookup
<1>3. ASSUME NEW r \in Row, delivery[r].status = "failed",
             tx' = [tx EXCEPT ![p] = Asking("retry", delivery[r].request.day, r)],
             Goto(p, "insert")
      PROVE  Inv'
  <2>1. PICK day \in Day \cup {NoDay} : day = delivery[r].request.day
    BY DEF Inv, TypeOK, Delivery, Request
  <2>1a. r \in 0..MaxRow /\ "retry" \in Source /\ "insert" \in Location
    BY DEF Source, Row, Location
  <2>1b. PICK t : t = Asking("retry", day, r)
    OBVIOUS
  <2>1c. Goto(p, "insert") /\ tx' = [tx EXCEPT ![p] = t]
    BY <1>3, <2>1, <2>1b
  <2>2. /\ t \in Tx /\ Goes(p, "insert", t) /\ t.row = 0
        /\ t.request = [source |-> "retry", day |-> day, retryOf |-> r]
    <3>1. /\ t \in Tx /\ t.row = 0
          /\ t.request = [source |-> "retry", day |-> day, retryOf |-> r]
      BY <2>1a, <2>1b, AskingTyped
    <3> QED
      BY <2>1c, <3>1 DEF Goes, Goto
  <2>3. Retried(t.request.retryOf)
    BY <1>3, <2>2 DEF Retried
  <2>4. "insert" \in Quiet
    BY DEF Quiet, Location
  <2> QED
    BY <1>1, <2>2, <2>3, <2>4, QuietStep DEF Lookup
<1> QED
  BY <1>2, <1>3 DEF Lookup

LEMMA NotInsertedInv ==
  ASSUME Inv, NEW p \in Proc, NotInserted(p)
  PROVE  Inv'
<1>1. \E s \in Status : Return(p, s)
  <2>1. CASE Return(p, "failed")
    BY <2>1 DEF Status, Result
  <2>2. CASE Replay(p)
    <3>1. PICK d \in SameKey(p) : Return(p, delivery[d].status)
      BY <2>2 DEF Replay
    <3>2. delivery[d].status \in Status
      BY DEF SameKey, Inserted, Inv, TypeOK, Delivery
    <3> QED
      BY <3>1, <3>2
  <2> QED
    BY <2>1, <2>2 DEF NotInserted
<1> QED
  BY <1>1, ReturnStep DEF NotInserted

LEMMA DisposeInv ==
  ASSUME Inv, NEW p \in Proc, Dispose(p)
  PROVE  Inv'
<1>1. tx[p].result \in Status
  BY TxOf DEF Inv
<1> QED
  BY <1>1, ReturnStep DEF Dispose

LEMMA CrashInv ==
  ASSUME Inv, NEW p \in Proc, Crash(p)
  PROVE  Inv'
BY LeaveStep DEF Crash, Inv, TypeOK

-----------------------------------------------------------------------------
(* The steps that change a delivery *)

LEMMA StatusSet ==
  ASSUME TypeOK, NEW d \in Row, NEW s \in Status, SetStatus(d, s)
  PROVE  /\ delivery' \in [Row -> Delivery]
         /\ \A e \in Row : /\ delivery'[e].request = delivery[e].request
                           /\ delivery'[e].status = IF e = d THEN s ELSE delivery[e].status
BY DEF TypeOK, Delivery, SetStatus

\* The statuses of some deliveries become failed; those that had not failed are
\* in doubt, or have not been accepted.  p leaves its delivery, if any.
LEMMA FailStep ==
  ASSUME Inv, NEW p \in Proc, NEW l \in Quiet, NEW t \in Tx, Goes(p, l, t), t.row = 0,
         l = "idle" => t = NoTx,
         l \in {"orphan", "release", "claim"} => t.request.source = "scheduled",
         l = "insert" => t.request.source # "retry",
         NEW S \in SUBSET Row,
         delivery' \in [Row -> Delivery],
         \A e \in Row : /\ delivery'[e].request = delivery[e].request
                        /\ delivery'[e].status = IF e \in S THEN "failed" ELSE delivery[e].status,
         doubted \subseteq doubted', doubted' \subseteq Row,
         \A e \in S : /\ delivery[e].status # "none"
                      /\ e \in doubted' \/ accepted[e] = 0 \/ e \in doubted,
         \A e \in S, q \in Proc \ {p} : Working(q) /\ tx[q].row = e =>
                                          delivery[e].status = "running" /\ e \in doubted',
         UNCHANGED <<schedule, accepted>>
  PROVE  Inv'
<1>1. TypeOK'
  BY DEF Inv, TypeOK, Goes, Quiet
<1>2. \A q \in Proc : pc'[q] = (IF q = p THEN l ELSE pc[q]) /\ tx'[q] = (IF q = p THEN t ELSE tx[q])
  BY DEF Inv, TypeOK, Goes
<1>3. ~Working(p)' /\ \A q \in Proc \ {p} : Working(q)' = Working(q)
  BY <1>2 DEF Working, Quiet
<1>4. \A r : Retried(r) => Retried(r)'
  BY DEF Retried
<1>5. Placed'
  BY <1>2, <1>4 DEF Inv, Placed, Scheduled
<1>6. \A q \in Proc : Working(q) => tx[q].row \in Row
  BY RowOf, TxOf DEF Inv, Row
<1>7. \A q \in Proc \ {p} : Working(q) => delivery'[tx[q].row].status # "none"
  BY <1>6 DEF Inv, Alone, Inserted
<1>8. Alone'
  BY <1>2, <1>3, <1>6, <1>7 DEF Inv, Alone, Inserted
<1>9. Sending'
  <2> SUFFICES ASSUME NEW q \in Proc, Working(q)'
               PROVE  Knows(q)'
    BY DEF Sending
  <2>1. q # p /\ Working(q) /\ Knows(q) /\ tx'[q] = tx[q] /\ pc'[q] = pc[q] /\ tx[q].row \in Row
    BY <1>2, <1>3, <1>6 DEF Inv, Sending
  <2> QED
    BY <2>1 DEF Knows, Working
<1>10. Told' /\ OnePerDate'
  BY <1>4 DEF Inv, Told, ToldOf, OnePerDate
<1>11. OneActive'
  <2>1. \A e \in Row : Active(e)' => Active(e)
    BY DEF Active
  <2> QED
    BY <2>1 DEF Inv, OneActive
<1> QED
  BY <1>1, <1>5, <1>8, <1>9, <1>10, <1>11 DEF Inv

LEMMA BeginInv ==
  ASSUME Inv, NEW p \in Proc, Begin(p)
  PROVE  Inv'
<1>1. PICK source \in {"scheduled", "retry"}, stale \in SUBSET Running :
       /\ delivery' = [d \in Row |-> IF d \in stale THEN [delivery[d] EXCEPT !.status = "failed"]
                                     ELSE delivery[d]]
       /\ doubted' = doubted \cup stale
       /\ tx' = [tx EXCEPT ![p] = Asking(source, NoDay, 0)]
       /\ Goto(p, IF stale # {} THEN "reset"
                  ELSE IF source = "scheduled" THEN "orphan" ELSE "lookup")
  BY DEF Begin
<1>2. PICK l \in {"reset", "orphan", "lookup"} : Goto(p, l) /\ (l = "orphan" => source = "scheduled")
  BY <1>1
<1>3. source \in Source /\ NoDay \in Day \cup {NoDay} /\ 0 \in 0..MaxRow /\ l \in Location
  BY DEF Source, Location
<1>4. PICK t : t = Asking(source, NoDay, 0)
  OBVIOUS
<1>4a. Goto(p, l) /\ tx' = [tx EXCEPT ![p] = t]
  BY <1>1, <1>2, <1>4
<1>5. /\ t \in Tx /\ Goes(p, l, t) /\ t.row = 0
      /\ t.request = [source |-> source, day |-> NoDay, retryOf |-> 0]
  <2>1. /\ t \in Tx /\ t.row = 0
        /\ t.request = [source |-> source, day |-> NoDay, retryOf |-> 0]
    BY <1>3, <1>4, AskingTyped
  <2> QED
    BY <1>4a, <2>1 DEF Goes, Goto
<1>6. /\ delivery' \in [Row -> Delivery]
      /\ \A e \in Row : /\ delivery'[e].request = delivery[e].request
                        /\ delivery'[e].status = IF e \in stale THEN "failed" ELSE delivery[e].status
  BY <1>1 DEF Inv, TypeOK, Delivery, Status, Result
<1>7. stale \in SUBSET Row /\ \A e \in stale : delivery[e].status = "running"
  BY DEF Running
<1>8. doubted \subseteq doubted' /\ doubted' \subseteq Row /\ \A e \in stale : e \in doubted'
  BY <1>1, <1>7 DEF Inv, TypeOK
<1>9. l \in Quiet /\ l # "idle" /\ l # "insert" /\ l \notin {"release", "claim"}
  BY DEF Quiet, Location
<1>10. stale \in SUBSET Row /\ UNCHANGED <<schedule, accepted>>
  BY <1>7 DEF Begin
<1>11. l \in {"orphan", "release", "claim"} => t.request.source = "scheduled"
  BY <1>2, <1>5, <1>9
<1>12. \A e \in stale : /\ delivery[e].status # "none"
                        /\ e \in doubted' \/ accepted[e] = 0 \/ e \in doubted
  BY <1>7, <1>8
<1>13. \A e \in stale, q \in Proc \ {p} : Working(q) /\ tx[q].row = e =>
                                             delivery[e].status = "running" /\ e \in doubted'
  BY <1>7, <1>8
<1> QED
  BY <1>5, <1>6, <1>8, <1>9, <1>10, <1>11, <1>12, <1>13, FailStep

LEMMA OwnRow ==
  ASSUME Inv, NEW p \in Proc, Working(p)
  PROVE  /\ tx[p].row \in Row /\ Knows(p)
         /\ delivery[tx[p].row].request = tx[p].request
         /\ delivery[tx[p].row].status # "none"
         /\ \A q \in Proc \ {p} : Working(q) => tx[q].row # tx[p].row
BY RowOf, TxOf DEF Inv, Row, Sending, Alone, Inserted

LEMMA FailInv ==
  ASSUME Inv, NEW p \in Proc, Fail(p)
  PROVE  Inv'
<1> DEFINE d == tx[p].row
<1>1. Working(p)
  BY DEF Fail, Working
<1>2. /\ d \in Row /\ Knows(p) /\ delivery[d].status # "none"
      /\ \A q \in Proc \ {p} : Working(q) => tx[q].row # d
  BY <1>1, OwnRow
<1>3. "failed" \in Status
  BY DEF Status, Result
<1>4. PICK l \in {"finish", "idle"} : \E t \in Tx :
         Goes(p, l, t) /\ t.row = 0 /\ (l = "idle" => t = NoTx)
  BY <1>3, ReturnGoes DEF Fail
<1>5. PICK t \in Tx : Goes(p, l, t) /\ t.row = 0 /\ (l = "idle" => t = NoTx)
  BY <1>4
<1>6. PICK S \in {{}, {d}} :
        /\ delivery' \in [Row -> Delivery]
        /\ \A e \in Row : /\ delivery'[e].request = delivery[e].request
                          /\ delivery'[e].status = IF e \in S THEN "failed" ELSE delivery[e].status
  <2>1. CASE SetStatus(d, "failed")
    <3>1. /\ delivery' \in [Row -> Delivery]
          /\ \A e \in Row : /\ delivery'[e].request = delivery[e].request
                            /\ delivery'[e].status = IF e = d THEN "failed" ELSE delivery[e].status
      BY <1>2, <1>3, <2>1, StatusSet DEF Inv
    <3> QED
      BY <3>1
  <2>2. CASE UNCHANGED delivery
    BY <2>2 DEF Inv, TypeOK
  <2> QED
    BY <2>1, <2>2 DEF Fail
<1>7. doubted \subseteq doubted' /\ doubted' \subseteq Row
  BY <1>2 DEF Fail, Inv, TypeOK
<1>8. accepted[d] \in {0, 1}
  BY <1>2 DEF Inv, Told, ToldOf
<1>9. d \in doubted' \/ accepted[d] = 0
  BY <1>2, <1>8 DEF Fail, Knows
<1>10. S \in SUBSET Row /\ l \in Quiet /\ l # "insert" /\ l \notin {"orphan", "release", "claim"}
  BY <1>2 DEF Quiet, Location
<1> HIDE DEF d
<1>11. \A e \in S : delivery[e].status # "none" /\ (e \in doubted' \/ accepted[e] = 0 \/ e \in doubted)
  BY <1>2, <1>9
<1>12. \A e \in S, q \in Proc \ {p} : Working(q) /\ tx[q].row = e =>
                                         delivery[e].status = "running" /\ e \in doubted'
  BY <1>2
<1>13. UNCHANGED <<schedule, accepted>>
  BY DEF Fail
<1> QED
  BY <1>5, <1>6, <1>7, <1>10, <1>11, <1>12, <1>13, FailStep

\* A process that goes on with its delivery, or starts one.
LEMMA WorkStep ==
  ASSUME Inv, NEW p \in Proc, NEW l \in {"send", "complete", "dispose"}, NEW t \in Tx,
         Goes(p, l, t), t.row # 0
  PROVE  /\ pc' \in [Proc -> Location] /\ tx' \in [Proc -> Tx]
         /\ \A q \in Proc : tx'[q].row # 0 <=> pc'[q] \in {"send", "complete", "dispose"}
         /\ \A q \in Proc : /\ pc'[q] = IF q = p THEN l ELSE pc[q]
                            /\ tx'[q] = IF q = p THEN t ELSE tx[q]
         /\ Working(p)' /\ \A q \in Proc \ {p} : Working(q)' = Working(q)
BY DEF Inv, TypeOK, Goes, Location, Working

LEMMA SendInv ==
  ASSUME Inv, NEW p \in Proc, Send(p)
  PROVE  Inv'
<1> DEFINE d == tx[p].row
<1>1. Working(p) /\ pc[p] = "send"
  BY DEF Send, Working
<1>2. /\ d \in Row /\ accepted[d] = 0
      /\ delivery[d].status = "running" \/ (delivery[d].status = "failed" /\ d \in doubted)
      /\ delivery[d].request = tx[p].request /\ delivery[d].status # "none"
      /\ \A q \in Proc \ {p} : Working(q) => tx[q].row # d
  BY <1>1, OwnRow DEF Knows
<1>3. PICK accepts \in BOOLEAN, answers \in BOOLEAN :
       /\ accepted' = IF accepts THEN [accepted EXCEPT ![d] = @ + 1] ELSE accepted
       /\ tx' = [tx EXCEPT ![p].result = IF accepts /\ answers THEN "sent" ELSE "failed"]
       /\ doubted' = IF accepts /\ ~answers THEN doubted \cup {d} ELSE doubted
  BY DEF Send
<1> DEFINE s == IF accepts /\ answers THEN "sent" ELSE "failed"
           t == [tx[p] EXCEPT !.result = s]
<1>4. /\ t \in Tx /\ t.row = d /\ t.request = tx[p].request /\ t.result = s
      /\ Goes(p, "complete", t) /\ t.row # 0
  <2>1. tx[p] \in Tx /\ s \in Status
    BY TxOf DEF Inv, Status, Result
  <2>2. t \in Tx /\ t.row = tx[p].row /\ t.request = tx[p].request /\ t.result = s
    <3> HIDE DEF s
    <3> QED
      BY <2>1 DEF Tx
  <2>3. Goes(p, "complete", t)
    BY <1>3 DEF Send, Goto, Goes
  <2>4. d # 0
    BY <1>2 DEF Row
  <2> QED
    BY <2>2, <2>3, <2>4
<1>5. \A e \in Row : accepted'[e] = IF accepts /\ e = d THEN 1 ELSE accepted[e]
  BY <1>2, <1>3 DEF Inv, TypeOK
<1>6. accepted' \in [Row -> Nat] /\ doubted \subseteq doubted' /\ doubted' \subseteq Row
      /\ (accepts /\ ~answers => d \in doubted')
  BY <1>2, <1>3 DEF Inv, TypeOK
<1>6a. UNCHANGED <<delivery, schedule>>
  BY DEF Send
<1> HIDE DEF d, t
<1>7. /\ pc' \in [Proc -> Location] /\ tx' \in [Proc -> Tx]
      /\ \A q \in Proc : tx'[q].row # 0 <=> pc'[q] \in {"send", "complete", "dispose"}
      /\ \A q \in Proc : /\ pc'[q] = IF q = p THEN "complete" ELSE pc[q]
                         /\ tx'[q] = IF q = p THEN t ELSE tx[q]
      /\ Working(p)' /\ \A q \in Proc \ {p} : Working(q)' = Working(q)
  BY <1>4, WorkStep
<1>8. TypeOK'
  BY <1>6, <1>6a, <1>7 DEF Inv, TypeOK
<1>9. \A r : Retried(r) => Retried(r)'
  BY <1>6, <1>6a DEF Retried
<1>10. Placed'
  BY <1>7, <1>9 DEF Inv, Placed, Scheduled
<1>11. Alone'
  BY <1>2, <1>4, <1>6a, <1>7 DEF Inv, Alone, Inserted
<1>12. Sending'
  <2>1. Knows(p)'
    BY <1>2, <1>4, <1>5, <1>6, <1>6a, <1>7 DEF Knows, d
  <2>2. ASSUME NEW q \in Proc \ {p}, Working(q)
        PROVE  Knows(q)'
    <3>1. Knows(q) /\ tx[q].row \in Row /\ tx[q].row # d
      BY <1>2, <2>2, OwnRow
    <3> QED
      BY <1>5, <1>6, <1>6a, <1>7, <3>1 DEF Knows
  <2> QED
    BY <1>7, <2>1, <2>2 DEF Sending
<1>13. Told'
  BY <1>2, <1>5, <1>6, <1>6a, <1>9 DEF Inv, Told, ToldOf
<1>14. OnePerDate' /\ OneActive'
  BY <1>6a DEF Inv, OnePerDate, OneActive, Active
<1> QED
  BY <1>8, <1>10, <1>11, <1>12, <1>13, <1>14 DEF Inv

LEMMA InsertInv ==
  ASSUME Inv, NEW p \in Proc, Insert(p)
  PROVE  Inv'
<1>1. PICK d \in Row, result \in Result :
       /\ ~Inserted(d)
       /\ delivery' = [delivery EXCEPT ![d] = [request |-> tx[p].request, status |-> "running"]]
       /\ tx' = [tx EXCEPT ![p].row = d, ![p].result = result]
       /\ Goto(p, IF result = "sent" THEN "send" ELSE "complete")
  BY DEF Insert
<1>2. PICK l \in {"send", "complete"} : Goto(p, l) /\ (l = "complete" => result = "failed")
  BY <1>1 DEF Result
<1>3. pc[p] = "insert" /\ ~Working(p) /\ UNCHANGED <<schedule, accepted, doubted>>
  BY DEF Insert, Working
<1>4. PICK t : t = [tx[p] EXCEPT !.row = d, !.result = result]
  OBVIOUS
<1>5. /\ t \in Tx /\ t.row = d /\ t.request = tx[p].request /\ t.result = result /\ t.row # 0
  <2>1. tx[p] \in Tx /\ result \in Status /\ d \in 0..MaxRow /\ d # 0
    BY TxOf DEF Inv, Status, Row
  <2> QED
    BY <1>4, <2>1 DEF Tx
<1>6. tx' = [tx EXCEPT ![p] = t]
  BY <1>1, <1>4
<1>7. /\ pc' \in [Proc -> Location] /\ tx' \in [Proc -> Tx]
      /\ \A q \in Proc : tx'[q].row # 0 <=> pc'[q] \in {"send", "complete", "dispose"}
      /\ \A q \in Proc : /\ pc'[q] = IF q = p THEN l ELSE pc[q]
                         /\ tx'[q] = IF q = p THEN t ELSE tx[q]
      /\ Working(p)' /\ \A q \in Proc \ {p} : Working(q)' = Working(q)
  <2>1. Goes(p, l, t)
    BY <1>2, <1>6 DEF Goes, Goto
  <2> QED
    BY <1>5, <2>1, WorkStep
<1>8. /\ delivery' \in [Row -> Delivery]
      /\ delivery'[d].request = tx[p].request /\ delivery'[d].status = "running"
      /\ \A e \in Row \ {d} : delivery'[e] = delivery[e]
  <2>1. tx[p].request \in Request
    BY TxOf DEF Inv
  <2>2. [request |-> tx[p].request, status |-> "running"] \in Delivery
    BY <2>1 DEF Delivery, Status
  <2> QED
    BY <1>1, <2>2 DEF Inv, TypeOK
<1>9. delivery[d].status = "none" /\ accepted[d] = 0
  BY <1>1 DEF Inserted, Inv, Told, ToldOf
<1>10. TypeOK'
  BY <1>3, <1>7, <1>8 DEF Inv, TypeOK
<1>11. \A r : Retried(r) => Retried(r)'
  BY <1>3, <1>8, <1>9 DEF Retried
<1>12. Placed'
  BY <1>2, <1>7, <1>11 DEF Inv, Placed, Scheduled
<1>13. \A q \in Proc \ {p} : Working(q) => tx[q].row \in Row \ {d} /\ Inserted(tx[q].row)
  BY <1>9, OwnRow DEF Inserted
<1>14. Alone'
  BY <1>5, <1>7, <1>8, <1>13 DEF Inv, Alone, Inserted
<1>15. Sending'
  <2>1. Knows(p)'
    BY <1>2, <1>3, <1>5, <1>7, <1>8, <1>9 DEF Knows
  <2>2. ASSUME NEW q \in Proc \ {p}, Working(q)
        PROVE  Knows(q)'
    BY <1>3, <1>7, <1>8, <1>13, <2>2, OwnRow DEF Knows
  <2> QED
    BY <1>7, <2>1, <2>2 DEF Sending
<1>16. Told'
  <2>1. ToldOf(d)'
    BY <1>3, <1>8, <1>9, <1>11 DEF ToldOf, Inv, Placed
  <2>2. \A e \in Row \ {d} : ToldOf(e)'
    BY <1>3, <1>8, <1>11 DEF ToldOf, Inv, Told
  <2> QED
    BY <2>1, <2>2 DEF Told
<1>17. OnePerDate'
  <2>1. ASSUME NEW e \in Row \ {d}, Scheduled(p), delivery[e].request.source = "scheduled",
               delivery[e].request.day = tx[p].request.day
        PROVE  FALSE
    <3>1. SameKey(p) = {}
      BY <2>1 DEF Insert, KeyIsTaken
    <3>2. delivery[e].status = "none"
      BY <2>1, <3>1 DEF SameKey, Inserted, Scheduled
    <3>3. delivery[e].request.source = "manual"
      BY <3>2, NoTxTyped DEF Inv, Told, ToldOf
    <3> QED
      BY <2>1, <3>3
  <2> QED
    BY <1>8, <2>1 DEF Inv, OnePerDate, Scheduled
<1>18. OneActive'
  <2>1. ASSUME NEW e \in Row \ {d}, tx[p].request.source = "retry", Active(e),
               delivery[e].request.retryOf = tx[p].request.retryOf
        PROVE  FALSE
    <3>1. ActiveRetries(tx[p].request.retryOf) \ {0} = {}
      BY <2>1 DEF Insert, Blocked
    <3> QED
      BY <2>1, <3>1 DEF ActiveRetries, Active, Row
  <2> QED
    BY <1>8, <2>1 DEF Inv, OneActive, Active
<1> QED
  BY <1>10, <1>12, <1>14, <1>15, <1>16, <1>17, <1>18 DEF Inv

LEMMA CompleteInv ==
  ASSUME Inv, NEW p \in Proc, Complete(p)
  PROVE  Inv'
<1> DEFINE d == tx[p].row
<1>1. Working(p) /\ pc[p] = "complete"
  BY DEF Complete, Working
<1>2. /\ d \in Row /\ Knows(p) /\ delivery[d].request = tx[p].request
      /\ delivery[d].status # "none"
      /\ \A q \in Proc \ {p} : Working(q) => tx[q].row # d
  BY <1>1, OwnRow
<1>3. UNCHANGED <<schedule, accepted, doubted>> /\ SetStatus(d, tx[p].result)
  BY DEF Complete
<1>4. accepted[d] \in {0, 1}
  BY <1>2 DEF Inv, Told, ToldOf
<1>5. CASE tx[p].result = "sent"
  <2>1. /\ delivery' \in [Row -> Delivery]
        /\ \A e \in Row : /\ delivery'[e].request = delivery[e].request
                          /\ delivery'[e].status = IF e = d THEN "sent" ELSE delivery[e].status
    BY <1>2, <1>3, <1>5, StatusSet DEF Inv, Status, Result
  <2>2. Goto(p, "dispose") /\ tx' = tx
    BY <1>5 DEF Complete
  <2>3. /\ accepted[d] = 1
        /\ delivery[d].status = "running" \/ d \in doubted
    BY <1>1, <1>2, <1>5 DEF Knows
  <2>4. /\ pc' \in [Proc -> Location] /\ tx' \in [Proc -> Tx]
        /\ \A q \in Proc : tx'[q].row # 0 <=> pc'[q] \in {"send", "complete", "dispose"}
        /\ \A q \in Proc : /\ pc'[q] = IF q = p THEN "dispose" ELSE pc[q]
                           /\ tx'[q] = IF q = p THEN tx[p] ELSE tx[q]
        /\ Working(p)' /\ \A q \in Proc \ {p} : Working(q)' = Working(q)
    <3>1. Goes(p, "dispose", tx[p]) /\ tx[p] \in Tx
      BY <2>2, TxOf DEF Goes, Goto, Inv, TypeOK
    <3>2. tx[p].row # 0
      BY <1>1, RowOf
    <3> QED
      BY <3>1, <3>2, WorkStep
  <2> HIDE DEF d
  <2>5. TypeOK'
    BY <1>3, <2>1, <2>4 DEF Inv, TypeOK
  <2>6. \A r : Retried(r) => Retried(r)'
    BY <1>3, <2>1, <2>3 DEF Retried
  <2>7. Placed'
    BY <2>4, <2>6 DEF Inv, Placed, Scheduled
  <2>8. Alone'
    <3>1. \A q \in Proc : Working(q) => tx[q].row \in Row
      BY OwnRow
    <3>2. \A e \in Row : Inserted(e) => Inserted(e)'
      BY <2>1 DEF Inserted
    <3> QED
      BY <1>1, <2>1, <2>2, <2>4, <3>1, <3>2 DEF Inv, Alone
  <2>9. Sending'
    <3>1. Knows(p)'
      BY <1>2, <1>5, <2>1, <2>4 DEF Knows, d
    <3>2. ASSUME NEW q \in Proc \ {p}, Working(q)
          PROVE  Knows(q)'
      BY <1>2, <1>3, <2>1, <2>4, <3>2, OwnRow DEF Knows
    <3> QED
      BY <2>4, <3>1, <3>2 DEF Sending
  <2>10. Told' /\ OnePerDate'
    BY <1>3, <2>1, <2>3, <2>6 DEF Inv, Told, ToldOf, OnePerDate
  <2>11. OneActive'
    <3>1. ASSUME NEW e \in Row \ {d}, Active(e), delivery[d].request.source = "retry",
                 delivery[e].request.retryOf = delivery[d].request.retryOf
          PROVE  FALSE
      <4>1. ActiveRetries(delivery[d].request.retryOf) \ {d} = {}
        BY <1>2, <1>5, <3>1 DEF Complete, Blocked, d
      <4> QED
        BY <3>1, <4>1 DEF ActiveRetries, Active
    <3> QED
      BY <2>1, <3>1 DEF Inv, OneActive, Active
  <2> QED
    BY <2>5, <2>7, <2>8, <2>9, <2>10, <2>11 DEF Inv
<1>6. CASE tx[p].result # "sent"
  <2>1. tx[p].result = "failed" /\ (accepted[d] = 0 \/ d \in doubted)
    BY <1>1, <1>2, <1>4, <1>6 DEF Knows
  <2>2. "failed" \in Status
    BY DEF Status, Result
  <2>3. /\ delivery' \in [Row -> Delivery]
        /\ \A e \in Row : /\ delivery'[e].request = delivery[e].request
                          /\ delivery'[e].status = IF e = d THEN "failed" ELSE delivery[e].status
    BY <1>2, <1>3, <2>1, <2>2, StatusSet DEF Inv
  <2>4. Return(p, "failed")
    BY <1>6 DEF Complete
  <2>5. PICK l \in {"finish", "idle"} : \E t \in Tx :
           Goes(p, l, t) /\ t.row = 0 /\ (l = "idle" => t = NoTx)
    BY <2>2, <2>4, ReturnGoes
  <2>6. PICK t \in Tx : Goes(p, l, t) /\ t.row = 0 /\ (l = "idle" => t = NoTx)
    BY <2>5
  <2>7. l \in Quiet /\ l # "insert" /\ l \notin {"orphan", "release", "claim"}
    BY DEF Quiet, Location
  <2>8. doubted \subseteq doubted' /\ doubted' \subseteq Row
    BY <1>3 DEF Inv, TypeOK
  <2> HIDE DEF d
  <2>9. PICK S \in SUBSET Row : S = {d}
    BY <1>2
  <2>10. \A e \in Row : /\ delivery'[e].request = delivery[e].request
                        /\ delivery'[e].status = IF e \in S THEN "failed" ELSE delivery[e].status
    BY <2>3, <2>9
  <2>11. \A e \in S : delivery[e].status # "none" /\ (e \in doubted' \/ accepted[e] = 0 \/ e \in doubted)
    BY <1>2, <2>1, <2>9
  <2>12. \A e \in S, q \in Proc \ {p} : Working(q) /\ tx[q].row = e =>
                                           delivery[e].status = "running" /\ e \in doubted'
    BY <1>2, <2>9
  <2>13. UNCHANGED <<schedule, accepted>>
    BY <1>3
  <2> QED
    BY <2>3, <2>6, <2>7, <2>8, <2>10, <2>11, <2>12, <2>13, FailStep
<1> QED
  BY <1>5, <1>6

-----------------------------------------------------------------------------
(* The invariant and what it implies *)

LEMMA NextInv == Inv /\ [Next]_vars => Inv'
<1> SUFFICES ASSUME Inv, [Next]_vars PROVE Inv'
  OBVIOUS
<1>1. CASE UNCHANGED vars
  BY <1>1 DEF vars, Inv, TypeOK, Placed, Alone, Sending, Told, OnePerDate, OneActive, Working,
              Scheduled, Retried, Inserted, Knows, ToldOf, Active
<1>2. ASSUME NEW p \in Proc, Step(p) PROVE Inv'
  BY <1>2, BeginInv, ResetInv, FindOrphanInv, ReleaseInv, ClaimDateInv, FinishInv, ManualInv,
     LookupInv, InsertInv, NotInsertedInv, SendInv, CompleteInv, FailInv, DisposeInv, CrashInv
     DEF Step
<1> QED
  BY <1>1, <1>2 DEF Next

LEMMA SpecInv == Spec => []Inv
<1>1. Init => Inv
  BY InitInv
<1>2. Inv /\ [Next]_vars => Inv'
  BY NextInv
<1> QED
  BY <1>1, <1>2, PTL DEF Spec

\* The rows, the schedule and what the processes hold keep their types, and a
\* process has a delivery exactly while it works on it.
THEOREM LocationTypeCorrect == Spec => []TypeOK
<1>1. Inv => TypeOK
  BY DEF Inv
<1> QED
  BY <1>1, SpecInv, PTL

\* The report of a date goes out by itself at most once: recovery, the release
\* of a date and a late sender never make two of it.
THEOREM LocationScheduledOnce == Spec => []ScheduledOnce
<1>1. Inv => ScheduledOnce
  <2> SUFFICES ASSUME Inv PROVE ScheduledOnce
    OBVIOUS
  <2>1. \A d \in Row : accepted[d] <= 1
    BY DEF Inv, Told, ToldOf
  <2>2. ASSUME NEW d \in Row, NEW e \in Row \ {d}, delivery[d].request.source = "scheduled",
               ReportOf(e) = ReportOf(d)
        PROVE  FALSE
    <3>1. /\ delivery[e].request.source = delivery[d].request.source
          /\ delivery[e].request.day = delivery[d].request.day
      BY <2>2 DEF ReportOf
    <3> QED
      BY <2>2, <3>1 DEF Inv, OnePerDate
  <2> QED
    BY <2>1, <2>2 DEF ScheduledOnce
<1> QED
  BY <1>1, SpecInv, PTL

\* A record of a delivery tells its outcome, unless it was given up in doubt.
THEOREM LocationOutcomeIsTold == Spec => []OutcomeIsTold
<1>1. Inv => OutcomeIsTold
  BY DEF Inv, TypeOK, Told, ToldOf, OutcomeIsTold
<1> QED
  BY <1>1, SpecInv, PTL

\* A report goes out twice only after one of the two was given up in doubt: what
\* is running or sent blocks its retry, and a retry its siblings.
THEOREM LocationDuplicatesInDoubt == Spec => []DuplicatesInDoubt
<1>1. Inv => DuplicatesInDoubt
  <2> SUFFICES ASSUME Inv, NEW d \in Row, NEW e \in Row, d # e,
                      accepted[d] > 0, accepted[e] > 0,
                      delivery[e].request.source = "retry",
                      delivery[e].request.retryOf \in {d, delivery[d].request.retryOf},
                      d \notin doubted, e \notin doubted
               PROVE  FALSE
    BY DEF DuplicatesInDoubt
  <2>1. /\ accepted[d] = 1 /\ delivery[d].status \in {"running", "sent"}
        /\ accepted[e] = 1 /\ delivery[e].status \in {"running", "sent"}
    BY DEF Inv, TypeOK, Delivery, Status, Result, Told, ToldOf
  <2>2. Retried(delivery[e].request.retryOf)
    BY DEF Inv, Told, ToldOf
  <2>3. CASE delivery[e].request.retryOf = d
    BY <2>1, <2>2, <2>3 DEF Retried
  <2>4. CASE delivery[e].request.retryOf = delivery[d].request.retryOf
    <3>1. delivery[d].request.source = "retry"
      BY <2>2, <2>4 DEF Retried, Row, Inv, TypeOK, Delivery, Request
    <3> QED
      BY <2>1, <2>4, <3>1 DEF Inv, OneActive, Active
  <2> QED
    BY <2>3, <2>4
<1> QED
  BY <1>1, SpecInv, PTL

=============================================================================

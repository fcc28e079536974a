------------------------ MODULE LocationStockDelivery ------------------------
(***************************************************************************)
(* Stock reports of a location over WhatsApp: the daily report of its      *)
(* schedule, reports sent by hand and retries of earlier deliveries.       *)
(*                                                                         *)
(* Each delivery is a row that is claimed as running, under a unique       *)
(* idempotency key, before the file goes out, and completed with what came *)
(* of it.  The schedule is a second row, which the tick of a server claims *)
(* for a local date.  What a dead server leaves running is declared failed *)
(* after 20 minutes, and a claimed date without a delivery is released.    *)
(* Nothing tells a dead sender from a slow one.                            *)
(*                                                                         *)
(* A process is a tick of some server or a request.  Every statement is    *)
(* committed on its own and is one action; a statement that fails changes  *)
(* nothing, so it is one action with the next one its error leads to.      *)
(*                                                                         *)
(* Time is not counted: a process may be slow, so whatever runs may have   *)
(* started more than 20 minutes ago.  Whether the schedule is enabled and  *)
(* due, and for which date, is a choice at every look at it: a tick may be *)
(* slow, and its time zone edited.  The keys that clients supply are not   *)
(* kept: a request may repeat the key of an earlier one of its kind.       *)
(***************************************************************************)
EXTENDS Naturals

CONSTANTS
  Proc,       \* the ticks and the requests
  MaxRow,     \* bound on the deliveries
  Day,        \* the local dates
  NoDay       \* no date

ASSUME LocationAssumption == MaxRow \in Nat \ {0} /\ NoDay \notin Day

VARIABLES
  delivery,   \* the deliveries, in the order of their insertion
  schedule,   \* the schedule of the location
  pc,         \* where each process is
  tx,         \* what each process has read and is to write
  accepted,   \* how often WhatsApp accepted the file of a delivery (external)
  doubted     \* history: the deliveries recorded as failed, or to be, in doubt

vars == <<delivery, schedule, pc, tx, accepted, doubted>>

Row == 1..MaxRow
Source == {"scheduled", "manual", "retry"}

\* "failed" stands for "skipped_empty" as well, which may be retried alike.
Result == {"sent", "failed"}
Status == Result \cup {"running"}

\* retryOf is the delivery that a retry is of; day is the date of the schedule.
Request == {r \in [source : Source, day : Day \cup {NoDay}, retryOf : 0..MaxRow] :
              r.source # "retry" => r.retryOf = 0}

\* status "none": the row has not been inserted.
Delivery == [request : Request, status : Status \cup {"none"}]

\* day is last_scheduled_for, NoDay for NULL; running is last_status = 'running', the
\* only status that is ever looked at.
Schedule == [day : Day \cup {NoDay}, running : BOOLEAN]

\* row is the delivery the process has inserted, 0 before, and result what it is
\* to record.
Tx == [request : Request, row : 0..MaxRow, result : Status]

\* What a process keeps that has no delivery of its own.
Asking(source, day, retryOf) ==
  [request |-> [source |-> source, day |-> day, retryOf |-> retryOf], row |-> 0,
   result |-> "failed"]

NoTx == Asking("manual", NoDay, 0)

Location == {"idle", "reset", "orphan", "release", "claim", "lookup", "insert",
             "send", "complete", "dispose", "finish"}

Init ==
  /\ delivery = [d \in Row |-> [request |-> NoTx.request, status |-> "none"]]
  /\ schedule = [day |-> NoDay, running |-> FALSE]
  /\ pc = [p \in Proc |-> "idle"]
  /\ tx = [p \in Proc |-> NoTx]
  /\ accepted = [d \in Row |-> 0]
  /\ doubted = {}

Inserted(d) == delivery[d].status # "none"
Goto(p, l) == pc' = [pc EXCEPT ![p] = l]

\* Mutation of Leave: the next run starts from what this one has left.
LeaveAsIs(p) == Goto(p, "idle") /\ UNCHANGED tx

Leave(p) == Goto(p, "idle") /\ tx' = [tx EXCEPT ![p] = NoTx]

Scheduled(p) == tx[p].request.source = "scheduled"

\* Where p goes with the result of its delivery.
Return(p, result) ==
  IF Scheduled(p)
  THEN /\ Goto(p, "finish")
       /\ tx' = [tx EXCEPT ![p] = [Asking("scheduled", NoDay, 0) EXCEPT !.result = result]]
  ELSE Leave(p)

-----------------------------------------------------------------------------
(* recoverStaleLocationStockDeliveries, at the start of ticks and retries *)

Running == {d \in Row : delivery[d].status = "running"}

\* A tick, a retry, or a look at the history, which leaves at the lookup.
Begin(p) ==
  /\ pc[p] = "idle"
  /\ \E source \in {"scheduled", "retry"}, stale \in SUBSET Running :
       /\ delivery' = [d \in Row |-> IF d \in stale THEN [delivery[d] EXCEPT !.status = "failed"]
                                     ELSE delivery[d]]
       /\ doubted' = doubted \cup stale
       /\ tx' = [tx EXCEPT ![p] = Asking(source, NoDay, 0)]
       /\ Goto(p, IF stale # {} THEN "reset"
                  ELSE IF source = "scheduled" THEN "orphan" ELSE "lookup")
  /\ UNCHANGED <<schedule, accepted>>

\* The schedule of the deliveries recovered fails with them, whatever it is
\* running by now; an error is ignored.
Reset(p) ==
  /\ pc[p] = "reset"
  /\ schedule' = [schedule EXCEPT !.running = FALSE] \/ UNCHANGED schedule
  /\ Goto(p, IF Scheduled(p) THEN "orphan" ELSE "lookup")
  /\ UNCHANGED <<delivery, tx, accepted, doubted>>

-----------------------------------------------------------------------------
(* The tick of the scheduler *)

\* The claimed date has no delivery yet.
Orphaned ==
  /\ schedule.running /\ schedule.day # NoDay
  /\ ~\E d \in Row : /\ Inserted(d)
                     /\ delivery[d].request.source = "scheduled"
                     /\ delivery[d].request.day = schedule.day

FindOrphan(p) ==
  /\ pc[p] = "orphan"
  /\ \E l \in {"release", "claim"} : (l = "release" => Orphaned) /\ Goto(p, l)
  /\ UNCHANGED <<delivery, schedule, tx, accepted, doubted>>

\* The update that releases the date finds the schedule by its location only: the
\* conditions were those of the statement's snapshot.
Release(p) ==
  /\ pc[p] = "release"
  /\ schedule' = [day |-> NoDay, running |-> FALSE]
  /\ Goto(p, "claim")
  /\ UNCHANGED <<delivery, tx, accepted, doubted>>

\* The date of the tick is claimed, unless it is already; or it is not due.
ClaimDate(p) ==
  /\ pc[p] = "claim"
  /\ \/ \E d \in Day \ {schedule.day} :
          /\ schedule' = [day |-> d, running |-> TRUE]
          /\ tx' = [tx EXCEPT ![p] = Asking("scheduled", d, 0)]
          /\ Goto(p, "insert")
     \/ Leave(p) /\ UNCHANGED schedule
  /\ UNCHANGED <<delivery, accepted, doubted>>

\* finishSchedule: the result, a failure when that cannot be written, or nothing.
Finish(p) ==
  /\ pc[p] = "finish"
  /\ \E running \in {tx[p].result = "running", FALSE, schedule.running} :
       schedule' = [schedule EXCEPT !.running = running]
  /\ Leave(p)
  /\ UNCHANGED <<delivery, accepted, doubted>>

-----------------------------------------------------------------------------
(* The requests *)

Manual(p) ==
  /\ pc[p] = "idle"
  /\ Goto(p, "insert")
  /\ UNCHANGED <<delivery, schedule, tx, accepted, doubted>>

\* The retries of r that run or have sent their file.
ActiveRetries(r) ==
  {d \in Row : /\ delivery[d].request.source = "retry" /\ delivery[d].request.retryOf = r
               /\ delivery[d].status \in {"running", "sent"}}

\* A failed delivery without an active retry may be retried.
Lookup(p) ==
  /\ pc[p] = "lookup"
  /\ \/ \E r \in Row :
          /\ delivery[r].status = "failed"
          /\ ActiveRetries(r) = {}
          /\ tx' = [tx EXCEPT ![p] = Asking("retry", delivery[r].request.day, r)]
          /\ Goto(p, "insert")
     \/ Leave(p)
  /\ UNCHANGED <<delivery, schedule, accepted, doubted>>

-----------------------------------------------------------------------------
(* deliverLocationStockWhatsApp *)

\* The deliveries that may have the key of p's request.
SameKey(p) ==
  {d \in Row : /\ Inserted(d)
               /\ delivery[d].request.source = tx[p].request.source
               /\ IF Scheduled(p) THEN delivery[d].request.day = tx[p].request.day
                  ELSE delivery[d].request.retryOf = tx[p].request.retryOf}

\* Mutation of KeyIsTaken: every attempt of a schedule has a key of its own.
KeyIsNew(p) == FALSE

\* The key of a date is the same in every tick.
KeyIsTaken(p) == Scheduled(p) /\ SameKey(p) # {}

\* Mutation of Blocked: the index of the active retries does not exist.
NeverBlocked(d, request) == FALSE

\* The unique index of the active retries refuses d as another of them.
Blocked(d, request) ==
  request.source = "retry" /\ ActiveRetries(request.retryOf) \ {d} # {}

\* Mutation of Replay: the sender goes on with the delivery of the other request.
ReplayByResending(p) ==
  \E d \in SameKey(p) :
    /\ Goto(p, "send")
    /\ tx' = [tx EXCEPT ![p].row = d]

\* A request whose key is taken gets the status of the delivery there is.
Replay(p) == \E d \in SameKey(p) : Return(p, delivery[d].status)

\* The file of the new delivery is ready to be sent; or there is no stock to
\* report, or no permission, no group or no plausible file.
Insert(p) ==
  /\ pc[p] = "insert"
  /\ ~KeyIsTaken(p)
  /\ ~Blocked(0, tx[p].request)
  /\ \E d \in Row, result \in Result :
       /\ ~Inserted(d) /\ \A e \in 1..(d - 1) : Inserted(e)
       /\ delivery' = [delivery EXCEPT ![d] = [request |-> tx[p].request, status |-> "running"]]
       /\ tx' = [tx EXCEPT ![p].row = d, ![p].result = result]
       /\ Goto(p, IF result = "sent" THEN "send" ELSE "complete")
  /\ UNCHANGED <<schedule, accepted, doubted>>

\* No insertion: a key that is taken, an active retry, or an error.
NotInserted(p) ==
  /\ pc[p] = "insert"
  /\ Replay(p) \/ Return(p, "failed")
  /\ UNCHANGED <<delivery, schedule, accepted, doubted>>

\* The answer may be lost after the file was accepted.
Send(p) ==
  /\ pc[p] = "send"
  /\ \E accepts, answers \in BOOLEAN :
       /\ accepted' = IF accepts THEN [accepted EXCEPT ![tx[p].row] = @ + 1] ELSE accepted
       /\ tx' = [tx EXCEPT ![p].result = IF accepts /\ answers THEN "sent" ELSE "failed"]
       /\ doubted' = IF accepts /\ ~answers THEN doubted \cup {tx[p].row} ELSE doubted
  /\ Goto(p, "complete")
  /\ UNCHANGED <<delivery, schedule>>

SetStatus(d, s) == delivery' = [delivery EXCEPT ![d].status = s]

\* p writes its result, whatever the delivery has become.
Complete(p) ==
  /\ pc[p] = "complete"
  /\ ~(tx[p].result = "sent" /\ Blocked(tx[p].row, tx[p].request))
  /\ SetStatus(tx[p].row, tx[p].result)
  /\ IF tx[p].result = "sent" THEN Goto(p, "dispose") /\ UNCHANGED tx ELSE Return(p, "failed")
  /\ UNCHANGED <<schedule, accepted, doubted>>

\* An error after the file was sent, or before, is recorded as a failure if it can.
Fail(p) ==
  /\ pc[p] \in {"complete", "dispose"}
  /\ SetStatus(tx[p].row, "failed") \/ UNCHANGED delivery
  /\ doubted' = IF tx[p].result = "sent" THEN doubted \cup {tx[p].row} ELSE doubted
  /\ Return(p, "failed")
  /\ UNCHANGED <<schedule, accepted>>

\* The temporary file is removed.  A failed delivery that has one may only fail
\* again.
Dispose(p) ==
  /\ pc[p] = "dispose"
  /\ Return(p, tx[p].result)
  /\ UNCHANGED <<delivery, schedule, accepted, doubted>>

-----------------------------------------------------------------------------
\* A process dies with its server, or gives up on an error before its delivery.
Crash(p) ==
  /\ pc[p] # "idle"
  /\ Leave(p)
  /\ UNCHANGED <<delivery, schedule, accepted, doubted>>

Step(p) ==
  \/ Begin(p) \/ Reset(p) \/ FindOrphan(p) \/ Release(p) \/ ClaimDate(p) \/ Finish(p)
  \/ Manual(p) \/ Lookup(p) \/ Insert(p) \/ NotInserted(p)
  \/ Send(p) \/ Complete(p) \/ Fail(p) \/ Dispose(p) \/ Crash(p)

Next == \E p \in Proc : Step(p)

Spec == Init /\ [][Next]_vars

-----------------------------------------------------------------------------
TypeOK ==
  /\ delivery \in [Row -> Delivery]
  /\ schedule \in Schedule
  /\ pc \in [Proc -> Location]
  /\ tx \in [Proc -> Tx]
  /\ \A p \in Proc : tx[p].row # 0 <=> pc[p] \in {"send", "complete", "dispose"}
  /\ accepted \in [Row -> Nat]
  /\ doubted \subseteq Row

ReportOf(d) == <<delivery[d].request.source, delivery[d].request.day>>

\* The server by itself sends the report of a date at most once, whatever is
\* claimed again, released or recovered, and a delivery sends its file at most
\* once.
ScheduledOnce ==
  \A d \in Row :
    /\ accepted[d] <= 1
    /\ accepted[d] > 0 /\ delivery[d].request.source = "scheduled" =>
         \A e \in Row \ {d} : accepted[e] > 0 => ReportOf(e) # ReportOf(d)

\* A delivery recorded as sent was accepted, and one that was accepted is recorded
\* as sent unless it was given up in doubt: declared stale, or its answer, the
\* record of it or the removal of the file failed.
OutcomeIsTold ==
  \A d \in Row :
    /\ delivery[d].status = "sent" => accepted[d] > 0
    /\ delivery[d].status = "failed" /\ accepted[d] > 0 => d \in doubted

\* A report goes out twice, in a delivery and its retry or in two retries of it,
\* only if one of the two was given up in doubt.
DuplicatesInDoubt ==
  \A d, e \in Row :
    (/\ d # e
     /\ accepted[d] > 0 /\ accepted[e] > 0
     /\ delivery[e].request.source = "retry"
     /\ delivery[e].request.retryOf \in {d, delivery[d].request.retryOf}) =>
      d \in doubted \/ e \in doubted

=============================================================================

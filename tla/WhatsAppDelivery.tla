-------------------------- MODULE WhatsAppDelivery --------------------------
(***************************************************************************)
(* Scheduled WhatsApp deliveries: the claim/lease protocol of              *)
(* server/services/scheduler/scheduledWhatsAppDelivery.ts, driven by the   *)
(* hourly job of server/services/scheduler/stock-report.ts.                *)
(*                                                                         *)
(* One recipient of one company has at most one occurrence per day, a row  *)
(* of scheduled_whatsapp_occurrences; each occurrence has one row of       *)
(* scheduled_whatsapp_attachments per file.  Several server instances run  *)
(* the hourly job (a Worker is one of them) and must not send a file       *)
(* twice.  Every SQL statement is an action, so that other workers, a      *)
(* crash or an expiring lease can come between two statements.             *)
(*                                                                         *)
(* Time is abstracted to three facts that only ever move one way between   *)
(* renewals: whether a lease still runs, whether an occurrence is younger  *)
(* than the 36 hour look-back, and which local day it is.  A claim token   *)
(* is a fresh UUID per run; a worker forgets its token when its run ends,  *)
(* so the worker itself stands for the token of its current run.           *)
(***************************************************************************)
EXTENDS Naturals, FiniteSets

CONSTANTS
  Worker,     \* server instances running the hourly job
  NoWorker,   \* claim_token IS NULL
  LastDay,    \* bound: local days 1..LastDay
  NAtt        \* attachments of an occurrence, sent in the order 1..NAtt

ASSUME BoundsAssumption == LastDay \in Nat \ {0} /\ NAtt \in Nat \ {0}
ASSUME NoWorkerAssumption == NoWorker \notin Worker

Day == 1..LastDay
Att == 1..NAtt

VARIABLES
  status,     \* occurrence status by day, "none" while the row does not exist
  token,      \* claim_token
  leased,     \* claim_expires_at > now()
  started,    \* delivery_started_at IS NOT NULL
  recent,     \* created_at >= now() - 36 hours
  att,        \* attachment status, by day and attachment
  today,      \* current local day
  lastSent,   \* local day of whatsapp_stock_settings.last_sent_at, 0 for NULL
  run,        \* the local state of each worker's run
  delivered   \* how often the provider accepted the file (external)

claims == <<status, token, leased>>
vars == <<status, token, leased, started, recent, att, today, lastSent, run, delivered>>

OccurrenceStatus == {"claimed", "delivering", "partial", "failed", "sent"}
AttachmentStatus == {"pending", "sending", "failed", "sent"}
Outcome == {"sent", "failed", "uncertain"}
Pc == {"idle", "fresh", "prepare", "begin", "fail", "mark", "send", "record",
       "renew", "finalize", "release", "lastSent"}

Run == [pc   : Pc,                  \* where the run is
        day  : Day,                 \* the occurrence it claimed
        cur  : 1..(NAtt + 1),       \* the attachment it is at
        done : SUBSET Att,          \* claim.attachments that were already sent
        res  : Outcome \cup OccurrenceStatus \cup {"none"}]
                                    \* deliveryOutcome, or the aggregated status

Idle == [pc |-> "idle", day |-> 1, cur |-> 1, done |-> {}, res |-> "none"]

TypeOK ==
  /\ status \in [Day -> OccurrenceStatus \cup {"none"}]
  /\ token \in [Day -> Worker \cup {NoWorker}]
  /\ leased \in [Day -> BOOLEAN]
  /\ started \in [Day -> BOOLEAN]
  /\ recent \in [Day -> BOOLEAN]
  /\ att \in [Day -> [Att -> AttachmentStatus]]
  /\ today \in Day
  /\ lastSent \in Day \cup {0}
  /\ run \in [Worker -> Run]
  /\ delivered \in [Day -> [Att -> Nat]]

Init ==
  /\ status = [d \in Day |-> "none"]
  /\ token = [d \in Day |-> NoWorker]
  /\ leased = [d \in Day |-> FALSE]
  /\ started = [d \in Day |-> FALSE]
  /\ recent = [d \in Day |-> TRUE]
  /\ att = [d \in Day |-> [k \in Att |-> "pending"]]
  /\ today = 1
  /\ lastSent = 0
  /\ run = [w \in Worker |-> Idle]
  /\ delivered = [d \in Day |-> [k \in Att |-> 0]]

-----------------------------------------------------------------------------
(* Claiming an occurrence *)

At(w, l) == run[w].pc = l
Goto(w, l) == run' = [run EXCEPT ![w].pc = l]
EndRun(w) == run' = [run EXCEPT ![w] = Idle]

HasSending(d) == \E k \in Att : att[d][k] = "sending"

\* Mutation of Acquirable: dead claims that never began are not taken over.
AcquirableAfterBegin(d) ==
  /\ \/ status[d] \in {"partial", "failed"} /\ (token[d] = NoWorker \/ ~leased[d])
     \/ status[d] = "delivering" /\ ~leased[d]
  /\ ~HasSending(d)

\* The WHERE clause of acquireExistingOccurrence.
Acquirable(d) ==
  /\ \/ status[d] \in {"partial", "failed"} /\ (token[d] = NoWorker \/ ~leased[d])
     \/ status[d] = "claimed" /\ ~started[d] /\ ~leased[d]
     \/ status[d] = "delivering" /\ ~leased[d]
  /\ ~HasSending(d)

Retryable(d) == recent[d] /\ Acquirable(d)

\* The occurrence row takes the run's token and a 15 minute lease, and the run
\* goes on with the claim it read in the same transaction.
Claim(w, d) ==
  /\ status' = [status EXCEPT ![d] = "claimed"]
  /\ token' = [token EXCEPT ![d] = w]
  /\ leased' = [leased EXCEPT ![d] = TRUE]
  /\ run' = [run EXCEPT ![w] = [pc |-> "prepare", day |-> d, cur |-> 1,
                                done |-> {k \in Att : att[d][k] = "sent"},
                                res |-> "none"]]

\* An hourly tick first looks for the newest occurrence worth retrying.
ClaimRetryable(w) ==
  /\ At(w, "idle")
  /\ \E d \in Day :
       /\ Retryable(d)
       /\ \A e \in Day : Retryable(e) => e <= d
       /\ Claim(w, d)
  /\ UNCHANGED <<started, recent, att, today, lastSent, delivered>>

\* With nothing to retry, shouldSendStockReport decides on today's report.
NothingToRetry(w) ==
  /\ At(w, "idle")
  /\ \A d \in Day : ~Retryable(d)
  /\ lastSent # today
  /\ Goto(w, "fresh")
  /\ UNCHANGED <<claims, started, recent, att, today, lastSent, delivered>>

\* claimScheduledWhatsAppOccurrence: insert today's occurrence, or take over
\* the row another worker inserted.
ClaimFresh(w) ==
  /\ At(w, "fresh")
  /\ IF \/ status[today] = "none"
        \/ status[today] \notin {"sent", "delivering"} /\ Acquirable(today)
     THEN Claim(w, today)
     ELSE EndRun(w) /\ UNCHANGED claims
  /\ UNCHANGED <<started, recent, att, today, lastSent, delivered>>

-----------------------------------------------------------------------------
(* Sending the attachments of the claim, one after the other *)

Holds(w) == token[run[w].day] = w

SetAtt(w, s) == att' = [att EXCEPT ![run[w].day][run[w].cur] = s]

NextAttachment(w) ==
  run' = [run EXCEPT ![w].pc = IF run[w].cur = NAtt THEN "finalize" ELSE "prepare",
                     ![w].cur = run[w].cur + 1,
                     ![w].res = "none"]

SkipSent(w) ==
  /\ At(w, "prepare")
  /\ run[w].cur \in run[w].done
  /\ NextAttachment(w)
  /\ UNCHANGED <<claims, started, recent, att, today, lastSent, delivered>>

\* The file was generated or could not be.  The statement that follows joins
\* the occurrence row without locking it: token and lease are those of its
\* snapshot, and may be gone when the attachment row is written.
Prepare(w) ==
  /\ At(w, "prepare")
  /\ run[w].cur \notin run[w].done
  /\ IF Holds(w) /\ leased[run[w].day]
     THEN Goto(w, "begin") \/ Goto(w, "fail")
     ELSE NextAttachment(w)
  /\ UNCHANGED <<claims, started, recent, att, today, lastSent, delivered>>

\* Mutation of RecordPreparationFailure: a.status is not tested.
RecordPreparationFailureAnyStatus(w) ==
  /\ At(w, "fail")
  /\ SetAtt(w, "failed")
  /\ NextAttachment(w)
  /\ UNCHANGED <<claims, started, recent, today, lastSent, delivered>>

\* recordScheduledWhatsAppAttachmentPreparationFailure
RecordPreparationFailure(w) ==
  /\ At(w, "fail")
  /\ IF att[run[w].day][run[w].cur] \in {"pending", "failed"}
     THEN SetAtt(w, "failed")
     ELSE UNCHANGED att
  /\ NextAttachment(w)
  /\ UNCHANGED <<claims, started, recent, today, lastSent, delivered>>

\* Mutation of BeginAttempt: an update of no row is not noticed.
BeginAttemptUnchecked(w) ==
  /\ At(w, "begin")
  /\ att' = IF att[run[w].day][run[w].cur] \in {"pending", "failed"}
            THEN [att EXCEPT ![run[w].day][run[w].cur] = "sending"] ELSE att
  /\ Goto(w, "mark")
  /\ UNCHANGED <<claims, started, recent, today, lastSent, delivered>>

\* beginScheduledWhatsAppAttachmentAttempt, first statement
BeginAttempt(w) ==
  /\ At(w, "begin")
  /\ IF att[run[w].day][run[w].cur] \in {"pending", "failed"}
     THEN SetAtt(w, "sending") /\ Goto(w, "mark")
     ELSE UNCHANGED att /\ NextAttachment(w)
  /\ UNCHANGED <<claims, started, recent, today, lastSent, delivered>>

\* beginScheduledWhatsAppAttachmentAttempt, second statement
MarkDelivering(w) ==
  /\ At(w, "mark")
  /\ IF Holds(w)
     THEN /\ status' = [status EXCEPT ![run[w].day] = "delivering"]
          /\ started' = [started EXCEPT ![run[w].day] = TRUE]
     ELSE UNCHANGED <<status, started>>
  /\ Goto(w, "send")
  /\ UNCHANGED <<token, leased, recent, att, today, lastSent, delivered>>

\* The upload.  A response classifies it; without one the provider may or may
\* not have accepted the file.
Send(w) ==
  /\ At(w, "send")
  /\ \E o \in Outcome, accepted \in BOOLEAN :
       /\ o = "sent" => accepted
       /\ o = "failed" => ~accepted
       /\ run' = [run EXCEPT ![w].pc = "record", ![w].res = o]
       /\ delivered' = IF accepted
                        THEN [delivered EXCEPT ![run[w].day][run[w].cur] = @ + 1]
                        ELSE delivered
  /\ UNCHANGED <<claims, started, recent, att, today, lastSent>>

\* finishScheduledWhatsAppAttachmentAttempt, first statement
FinishAttempt(w) ==
  /\ At(w, "record")
  /\ run[w].res # "uncertain"
  /\ IF Holds(w) /\ att[run[w].day][run[w].cur] = "sending"
     THEN SetAtt(w, run[w].res)
     ELSE UNCHANGED att
  /\ Goto(w, "renew")
  /\ UNCHANGED <<claims, started, recent, today, lastSent, delivered>>

\* finishScheduledWhatsAppAttachmentAttempt, second statement
RenewLease(w) ==
  /\ At(w, "renew")
  /\ leased' = IF Holds(w) THEN [leased EXCEPT ![run[w].day] = TRUE] ELSE leased
  /\ NextAttachment(w)
  /\ UNCHANGED <<status, token, started, recent, att, today, lastSent, delivered>>

\* Mutation of RecordUncertain: a lost response counts as a failure.
RecordUncertainAsFailure(w) ==
  /\ At(w, "record")
  /\ run[w].res = "uncertain"
  /\ IF Holds(w) THEN SetAtt(w, "failed") ELSE UNCHANGED att
  /\ NextAttachment(w)
  /\ UNCHANGED <<claims, started, recent, today, lastSent, delivered>>

\* recordScheduledWhatsAppAttachmentUncertain writes only last_error: the
\* attachment stays "sending".
RecordUncertain(w) ==
  /\ At(w, "record")
  /\ run[w].res = "uncertain"
  /\ NextAttachment(w)
  /\ UNCHANGED <<claims, started, recent, att, today, lastSent, delivered>>

-----------------------------------------------------------------------------
(* Ending the run *)

\* Mutation of AggregateStatus: one sent file is enough.
AggregateStatusAnySent(d) ==
  IF HasSending(d) THEN "delivering"
  ELSE IF \E k \in Att : att[d][k] = "sent" THEN "sent"
  ELSE "failed"

AggregateStatus(d) ==
  IF \A k \in Att : att[d][k] = "sent" THEN "sent"
  ELSE IF HasSending(d) THEN "delivering"
  ELSE IF \E k \in Att : att[d][k] = "sent" THEN "partial"
  ELSE "failed"

\* finalizeScheduledWhatsAppOccurrence, the aggregate
Aggregate(w) ==
  /\ At(w, "finalize")
  /\ run' = [run EXCEPT ![w].pc = "release", ![w].res = AggregateStatus(run[w].day)]
  /\ UNCHANGED <<claims, started, recent, att, today, lastSent, delivered>>

\* finalizeScheduledWhatsAppOccurrence, the update by token
Release(w) ==
  /\ At(w, "release")
  /\ IF Holds(w)
     THEN /\ status' = [status EXCEPT ![run[w].day] = run[w].res]
          /\ IF run[w].res = "delivering"
             THEN UNCHANGED <<token, leased>>
             ELSE /\ token' = [token EXCEPT ![run[w].day] = NoWorker]
                  /\ leased' = [leased EXCEPT ![run[w].day] = FALSE]
     ELSE UNCHANGED claims
  /\ IF run[w].res = "sent" THEN Goto(w, "lastSent") ELSE EndRun(w)
  /\ UNCHANGED <<started, recent, att, today, lastSent, delivered>>

SetLastSent(w) ==
  /\ At(w, "lastSent")
  /\ lastSent' = today
  /\ EndRun(w)
  /\ UNCHANGED <<claims, started, recent, att, today, delivered>>

\* The process dies, or a statement throws and the job's outer catch ends the
\* run: nothing is cleaned up.
Crash(w) ==
  /\ ~At(w, "idle")
  /\ EndRun(w)
  /\ UNCHANGED <<claims, started, recent, att, today, lastSent, delivered>>

-----------------------------------------------------------------------------
(* The passing of time *)

LeaseExpires(d) ==
  /\ leased[d]
  /\ leased' = [leased EXCEPT ![d] = FALSE]
  /\ UNCHANGED <<status, token, started, recent, att, today, lastSent, run, delivered>>

NextDay ==
  /\ today < LastDay
  /\ today' = today + 1
  /\ UNCHANGED <<claims, started, recent, att, lastSent, run, delivered>>

\* 36 hours after an occurrence was created a later day has begun.
AgeOut(d) ==
  /\ recent[d]
  /\ d < today
  /\ recent' = [recent EXCEPT ![d] = FALSE]
  /\ UNCHANGED <<claims, started, att, today, lastSent, run, delivered>>

-----------------------------------------------------------------------------

Tick(w) == ClaimRetryable(w) \/ NothingToRetry(w)

RunStep(w) ==
  \/ ClaimFresh(w)
  \/ SkipSent(w)
  \/ Prepare(w)
  \/ RecordPreparationFailure(w)
  \/ BeginAttempt(w)
  \/ MarkDelivering(w)
  \/ Send(w)
  \/ FinishAttempt(w)
  \/ RenewLease(w)
  \/ RecordUncertain(w)
  \/ Aggregate(w)
  \/ Release(w)
  \/ SetLastSent(w)

Next ==
  \/ \E w \in Worker : Tick(w) \/ RunStep(w) \/ Crash(w)
  \/ \E d \in Day : LeaseExpires(d) \/ AgeOut(d)
  \/ NextDay

Spec == Init /\ [][Next]_vars

\* A run proceeds until it ends or dies, cron keeps ticking, and time passes.
FairSpec ==
  /\ Spec
  /\ \A w \in Worker : WF_vars(ClaimRetryable(w)) /\ WF_vars(RunStep(w))
  /\ \A d \in Day : WF_vars(LeaseExpires(d)) /\ WF_vars(AgeOut(d))

-----------------------------------------------------------------------------
(* Properties *)

\* The worker is between beginning an attempt and recording its outcome.
AtProvider(w) == run[w].pc \in {"mark", "send", "record"}

Attended(d, k) ==
  \E w \in Worker : AtProvider(w) /\ run[w].day = d /\ run[w].cur = k

\* No file of an occurrence reaches the recipient twice, whatever workers
\* overlap, leases expire, runs die or responses get lost: the reason for the
\* durable claim tables of startup-schema/030.
AtMostOnce == \A d \in Day, k \in Att : delivered[d][k] <= 1

\* Two runs are never at the provider with the same file, although an expired
\* lease lets a second run take the occurrence over from a live first one.
OneSender ==
  \A v, w \in Worker :
    AtProvider(v) /\ AtProvider(w) /\ v # w => <<run[v].day, run[v].cur>> # <<run[w].day, run[w].cur>>

\* An occurrence finalized as sent has had every file accepted, also when one of
\* its files failed and was sent by a later run, or when the aggregate was
\* computed by a run that no longer owned the occurrence; and last_sent_at is
\* only ever set after such an occurrence.
SentMeansDelivered ==
  /\ \A d \in Day : status[d] = "sent" => \A k \in Att : delivered[d][k] = 1
  /\ lastSent # 0 =>
       \E d \in Day : d <= lastSent /\ \A k \in Att : delivered[d][k] = 1

\* Once the run that began an attempt is gone, or did not learn its outcome,
\* the attachment stays "sending": no retry ever touches an ambiguous send.
AmbiguousIsFinal ==
  [][\A d \in Day, k \in Att :
       att[d][k] = "sending" /\ ~Attended(d, k) => att'[d][k] = "sending"]_vars

\* The protocol implements OncePerFile: a file is accepted when the provider
\* took it and offered while its row says "sending".
FileState ==
  [f \in Day \X Att |->
     CASE delivered[f[1]][f[2]] = 1 -> "accepted"
       [] delivered[f[1]][f[2]] = 0 -> IF att[f[1]][f[2]] = "sending"
                                       THEN "offered" ELSE "open"
       [] OTHER -> "duplicate"]

Promise == INSTANCE OncePerFile WITH File <- Day \X Att, state <- FileState

ImplementsOncePerFile == Promise!Spec

\* The run that claimed the occurrence is over.
Abandoned(d) == \A w \in Worker : ~(run[w].day = d /\ ~At(w, "idle") /\ Holds(w))

\* The occurrence was begun once and taken over for a retry, and that run ended
\* before beginning an attempt.
StrandedByRetry(d) == status[d] = "claimed" /\ started[d] /\ Abandoned(d)

\* If runs stop dying at some point, a claimed occurrence is released, unless
\* it is blocked by an ambiguous send, left the look-back window, or was
\* stranded by a run that died while it retried: those are the only ways for
\* a claim to be kept for good.
ClaimsAreReleased ==
  <>[][~\E w \in Worker : Crash(w)]_vars =>
    \A d \in Day :
      token[d] # NoWorker ~>
        (token[d] = NoWorker \/ HasSending(d) \/ ~recent[d] \/ StrandedByRetry(d))

=============================================================================

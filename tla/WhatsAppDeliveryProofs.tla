----------------------- MODULE WhatsAppDeliveryProofs -----------------------
(***************************************************************************)
(* Type correctness and at-most-once delivery of WhatsAppDelivery, for any *)
(* number of workers, days and attachments.                                *)
(***************************************************************************)
EXTENDS WhatsAppDelivery, TLAPS

(* The inductive invariant *)

\* What the local state of a run looks like at each statement.
RunOK ==
  \A w \in Worker :
    /\ run[w].pc \in {"prepare", "begin", "fail", "mark", "send", "record", "renew"}
         => run[w].cur \in Att
    /\ run[w].pc = "record" => run[w].res \in Outcome
    /\ run[w].pc = "release" => run[w].res \in OccurrenceStatus
    /\ run[w].pc = "lastSent" => run[w].res = "sent"
    /\ run[w].day <= today

\* Until a run records its outcome the row says "sending" and the provider has
\* accepted the file at most by this very attempt.
SenderOK ==
  \A w \in Worker :
    AtProvider(w) =>
      /\ att[run[w].day][run[w].cur] = "sending"
      /\ run[w].pc \in {"mark", "send"} => delivered[run[w].day][run[w].cur] = 0
      /\ run[w].pc = "record" /\ run[w].res = "failed"
           => delivered[run[w].day][run[w].cur] = 0
      /\ run[w].pc = "record" /\ run[w].res = "sent"
           => delivered[run[w].day][run[w].cur] = 1

\* What a row says about deliveries.
RowOK ==
  \A d \in Day, k \in Att :
    /\ delivered[d][k] <= 1
    /\ att[d][k] \in {"pending", "failed"} => delivered[d][k] = 0
    /\ att[d][k] = "sent" => delivered[d][k] = 1

AllSent(d) == \A k \in Att : att[d][k] = "sent"

\* An occurrence, or a run about to say so of one, is "sent" only when every
\* attachment is; last_sent_at follows such an occurrence.
OccurrenceOK ==
  /\ \A d \in Day : status[d] = "sent" => AllSent(d)
  /\ \A d \in Day : status[d] # "none" => d <= today
  /\ \A w \in Worker :
       run[w].pc \in {"release", "lastSent"} /\ run[w].res = "sent" => AllSent(run[w].day)
  /\ lastSent # 0 => \E d \in Day : d <= lastSent /\ AllSent(d)

IndInv == TypeOK /\ RunOK /\ OneSender /\ SenderOK /\ RowOK /\ OccurrenceOK

-----------------------------------------------------------------------------
(* How an action moves the run of its worker. *)

OthersStay(w) == \A v \in Worker \ {w} : run'[v] = run[v]

\* The run goes on at statement l and attachment c with result r.
Moved(w, l, c, r) ==
  /\ run'[w].pc = l /\ run'[w].cur = c /\ run'[w].res = r
  /\ run'[w].day = run[w].day
  /\ OthersStay(w)

\* Advancing to another statement.
LEMMA GotoMove ==
  ASSUME run \in [Worker -> Run], NEW w \in Worker, NEW l \in Pc, Goto(w, l)
  PROVE  run' \in [Worker -> Run] /\ Moved(w, l, run[w].cur, run[w].res)
BY DEF Goto, Run, Moved, OthersStay

\* Advancing with a result.
LEMMA ResultMove ==
  ASSUME run \in [Worker -> Run], NEW w \in Worker, NEW l \in Pc,
         NEW r \in Outcome \cup OccurrenceStatus,
         run' = [run EXCEPT ![w].pc = l, ![w].res = r]
  PROVE  run' \in [Worker -> Run] /\ Moved(w, l, run[w].cur, r)
<1> DEFINE new == [run[w] EXCEPT !.pc = l, !.res = r]
<1>1. /\ new \in Run /\ new.pc = l /\ new.res = r
      /\ new.cur = run[w].cur /\ new.day = run[w].day
  BY DEF Run
<1>2. run' = [run EXCEPT ![w] = new]
  OBVIOUS
<1> QED
  BY <1>1, <1>2 DEF Moved, OthersStay

\* Ending the run.
LEMMA EndRunMove ==
  ASSUME run \in [Worker -> Run], NEW w \in Worker, EndRun(w)
  PROVE  run' \in [Worker -> Run] /\ run'[w] = Idle /\ OthersStay(w)
BY BoundsAssumption DEF EndRun, Run, Idle, Pc, Day, OthersStay

\* Going on to the next attachment, or to finalize after the last one.
LEMMA NextAttachmentMove ==
  ASSUME run \in [Worker -> Run], NEW w \in Worker, run[w].cur \in Att, NextAttachment(w)
  PROVE  /\ run' \in [Worker -> Run]
         /\ \/ Moved(w, "finalize", run[w].cur + 1, "none")
            \/ run[w].cur + 1 \in Att /\ Moved(w, "prepare", run[w].cur + 1, "none")
<1> DEFINE l == IF run[w].cur = NAtt THEN "finalize" ELSE "prepare"
           new == [run[w] EXCEPT !.pc = l, !.cur = run[w].cur + 1, !.res = "none"]
<1>1. l \in Pc /\ run[w].cur + 1 \in 1..(NAtt + 1)
  BY BoundsAssumption DEF Pc, Att
<1> HIDE DEF l
<1>2. /\ new \in Run /\ new.pc = l /\ new.res = "none"
      /\ new.cur = run[w].cur + 1 /\ new.day = run[w].day
  BY <1>1 DEF Run
<1>3. run' = [run EXCEPT ![w] = new]
  BY DEF NextAttachment, l
<1>4. run' \in [Worker -> Run] /\ Moved(w, l, run[w].cur + 1, "none")
  BY <1>2, <1>3 DEF Moved, OthersStay
<1>5. run[w].cur # NAtt => run[w].cur + 1 \in Att
  BY BoundsAssumption DEF Att
<1> QED
  BY <1>4, <1>5 DEF l

\* Starting on a claim.
LEMMA ClaimMove ==
  ASSUME TypeOK, NEW w \in Worker, NEW d \in Day, Claim(w, d)
  PROVE  /\ run' \in [Worker -> Run]
         /\ status' \in [Day -> OccurrenceStatus \cup {"none"}]
         /\ token' \in [Day -> Worker \cup {NoWorker}]
         /\ leased' \in [Day -> BOOLEAN]
         /\ run'[w].pc = "prepare" /\ run'[w].cur = 1 /\ run'[w].day = d
         /\ OthersStay(w)
<1>1. run' \in [Worker -> Run]
  BY BoundsAssumption DEF TypeOK, Claim, Run, Pc
<1>2. run'[w].pc = "prepare" /\ run'[w].cur = 1 /\ run'[w].day = d /\ OthersStay(w)
  BY DEF TypeOK, Claim, OthersStay
<1> QED
  BY <1>1, <1>2 DEF TypeOK, Claim, OccurrenceStatus

\* Writing the status of the attachment a run is at.
LEMMA SetAttType ==
  ASSUME TypeOK, NEW w \in Worker, NEW s \in AttachmentStatus, SetAtt(w, s)
  PROVE  att' \in [Day -> [Att -> AttachmentStatus]]
BY DEF TypeOK, SetAtt

-----------------------------------------------------------------------------
(* Type correctness *)

LEMMA TypeStep == TypeOK /\ RunOK /\ [Next]_vars => TypeOK'
<1> SUFFICES ASSUME TypeOK, RunOK, [Next]_vars PROVE TypeOK'
  OBVIOUS
<1>1. ASSUME NEW w \in Worker, ClaimRetryable(w) PROVE TypeOK'
  <2>1. PICK d \in Day : Claim(w, d)
    BY <1>1 DEF ClaimRetryable
  <2> QED
    BY <1>1, <2>1, ClaimMove DEF ClaimRetryable, TypeOK
<1>2. ASSUME NEW w \in Worker, NothingToRetry(w) PROVE TypeOK'
  <2>1. run' \in [Worker -> Run]
    BY <1>2, GotoMove DEF NothingToRetry, TypeOK, Pc
  <2> QED
    BY <1>2, <2>1 DEF NothingToRetry, TypeOK, claims
<1>3. ASSUME NEW w \in Worker, ClaimFresh(w) PROVE TypeOK'
  <2>1. CASE Claim(w, today)
    BY <1>3, <2>1, ClaimMove DEF ClaimFresh, TypeOK
  <2>2. CASE EndRun(w) /\ UNCHANGED claims
    BY <1>3, <2>2, EndRunMove DEF ClaimFresh, TypeOK, claims
  <2> QED
    BY <1>3, <2>1, <2>2 DEF ClaimFresh
<1>4. ASSUME NEW w \in Worker, SkipSent(w) PROVE TypeOK'
  <2>1. run' \in [Worker -> Run]
    BY <1>4, NextAttachmentMove DEF SkipSent, TypeOK, RunOK, At
  <2> QED
    BY <1>4, <2>1 DEF SkipSent, TypeOK, claims
<1>5. ASSUME NEW w \in Worker, Prepare(w) PROVE TypeOK'
  <2>1. run' \in [Worker -> Run]
    BY <1>5, NextAttachmentMove, GotoMove DEF Prepare, TypeOK, RunOK, At, Pc
  <2> QED
    BY <1>5, <2>1 DEF Prepare, TypeOK, claims
<1>6. ASSUME NEW w \in Worker, RecordPreparationFailure(w) PROVE TypeOK'
  <2>1. run' \in [Worker -> Run]
    BY <1>6, NextAttachmentMove DEF RecordPreparationFailure, TypeOK, RunOK, At
  <2>2. att' \in [Day -> [Att -> AttachmentStatus]]
    BY <1>6, SetAttType DEF RecordPreparationFailure, TypeOK, AttachmentStatus
  <2> QED
    BY <1>6, <2>1, <2>2 DEF RecordPreparationFailure, TypeOK, claims
<1>7. ASSUME NEW w \in Worker, BeginAttempt(w) PROVE TypeOK'
  <2>1. run' \in [Worker -> Run]
    BY <1>7, NextAttachmentMove, GotoMove DEF BeginAttempt, TypeOK, RunOK, At, Pc
  <2>2. att' \in [Day -> [Att -> AttachmentStatus]]
    BY <1>7, SetAttType DEF BeginAttempt, TypeOK, AttachmentStatus
  <2> QED
    BY <1>7, <2>1, <2>2 DEF BeginAttempt, TypeOK, claims
<1>8. ASSUME NEW w \in Worker, MarkDelivering(w) PROVE TypeOK'
  <2>1. run' \in [Worker -> Run]
    BY <1>8, GotoMove DEF MarkDelivering, TypeOK, Pc
  <2> QED
    BY <1>8, <2>1 DEF MarkDelivering, TypeOK, OccurrenceStatus
<1>9. ASSUME NEW w \in Worker, Send(w) PROVE TypeOK'
  <2>1. PICK o \in Outcome : run' = [run EXCEPT ![w].pc = "record", ![w].res = o]
    BY <1>9 DEF Send
  <2>2. run' \in [Worker -> Run]
    BY <2>1, ResultMove DEF TypeOK, Pc
  <2>3. run[w].day \in Day /\ run[w].cur \in Att
    BY <1>9 DEF Send, TypeOK, RunOK, Run, At
  <2>4. delivered' \in [Day -> [Att -> Nat]]
    BY <1>9, <2>3 DEF Send, TypeOK
  <2> QED
    BY <1>9, <2>2, <2>4 DEF Send, TypeOK, claims
<1>10. ASSUME NEW w \in Worker, FinishAttempt(w) PROVE TypeOK'
  <2>1. run' \in [Worker -> Run]
    BY <1>10, GotoMove DEF FinishAttempt, TypeOK, Pc
  <2>2. run[w].res \in AttachmentStatus
    BY <1>10 DEF FinishAttempt, RunOK, At, Outcome, AttachmentStatus
  <2>3. att' \in [Day -> [Att -> AttachmentStatus]]
    BY <1>10, <2>2, SetAttType DEF FinishAttempt, TypeOK
  <2> QED
    BY <1>10, <2>1, <2>3 DEF FinishAttempt, TypeOK, claims
<1>11. ASSUME NEW w \in Worker, RenewLease(w) PROVE TypeOK'
  <2>1. run' \in [Worker -> Run]
    BY <1>11, NextAttachmentMove DEF RenewLease, TypeOK, RunOK, At
  <2> QED
    BY <1>11, <2>1 DEF RenewLease, TypeOK
<1>12. ASSUME NEW w \in Worker, RecordUncertain(w) PROVE TypeOK'
  <2>1. run' \in [Worker -> Run]
    BY <1>12, NextAttachmentMove DEF RecordUncertain, TypeOK, RunOK, At
  <2> QED
    BY <1>12, <2>1 DEF RecordUncertain, TypeOK, claims
<1>13. ASSUME NEW w \in Worker, Aggregate(w) PROVE TypeOK'
  <2>1. AggregateStatus(run[w].day) \in OccurrenceStatus
    BY DEF AggregateStatus, OccurrenceStatus
  <2>2. run' \in [Worker -> Run]
    BY <1>13, <2>1, ResultMove DEF Aggregate, TypeOK, Pc
  <2> QED
    BY <1>13, <2>2 DEF Aggregate, TypeOK, claims
<1>14. ASSUME NEW w \in Worker, Release(w) PROVE TypeOK'
  <2>1. run' \in [Worker -> Run]
    BY <1>14, GotoMove, EndRunMove DEF Release, TypeOK, Pc
  <2>2. run[w].res \in OccurrenceStatus
    BY <1>14 DEF Release, RunOK, At
  <2> QED
    BY <1>14, <2>1, <2>2 DEF Release, TypeOK, claims
<1>15. ASSUME NEW w \in Worker, SetLastSent(w) PROVE TypeOK'
  <2>1. run' \in [Worker -> Run]
    BY <1>15, EndRunMove DEF SetLastSent, TypeOK
  <2> QED
    BY <1>15, <2>1 DEF SetLastSent, TypeOK, claims
<1>16. ASSUME NEW w \in Worker, Crash(w) PROVE TypeOK'
  <2>1. run' \in [Worker -> Run]
    BY <1>16, EndRunMove DEF Crash, TypeOK
  <2> QED
    BY <1>16, <2>1 DEF Crash, TypeOK, claims
<1>17. ASSUME NEW d \in Day, LeaseExpires(d) PROVE TypeOK'
  BY <1>17 DEF LeaseExpires, TypeOK
<1>18. ASSUME NEW d \in Day, AgeOut(d) PROVE TypeOK'
  BY <1>18 DEF AgeOut, TypeOK, claims
<1>19. CASE NextDay
  BY <1>19, BoundsAssumption DEF NextDay, TypeOK, Day, claims
<1>20. CASE UNCHANGED vars
  BY <1>20 DEF vars, TypeOK
<1> QED
  BY <1>1, <1>2, <1>3, <1>4, <1>5, <1>6, <1>7, <1>8, <1>9, <1>10, <1>11, <1>12, <1>13, <1>14, <1>15, <1>16, <1>17, <1>18, <1>19, <1>20 DEF Next, Tick, RunStep

-----------------------------------------------------------------------------
(* What a step does to each part of the invariant *)

\* A run that moves without being at the provider afterwards, and without
\* touching attachments, disturbs nothing said about senders and rows.
LEMMA QuietStep ==
  ASSUME IndInv, NEW w \in Worker, OthersStay(w),
         run'[w].pc \notin {"mark", "send", "record"}, UNCHANGED <<att, delivered>>
  PROVE  OneSender' /\ SenderOK' /\ RowOK'
<1>1. \A v \in Worker : AtProvider(v)' => v # w /\ AtProvider(v) /\ run'[v] = run[v]
  BY DEF AtProvider, OthersStay
<1>2. OneSender'
  BY <1>1 DEF IndInv, OneSender
<1>3. SenderOK'
  BY <1>1 DEF IndInv, SenderOK
<1>4. RowOK'
  BY DEF IndInv, RowOK
<1> QED
  BY <1>2, <1>3, <1>4

\* Steps that leave runs, attachments and deliveries alone.
LEMMA IdleStep ==
  ASSUME IndInv, UNCHANGED <<run, att, delivered>>
  PROVE  OneSender' /\ SenderOK' /\ RowOK'
BY DEF IndInv, OneSender, SenderOK, RowOK, AtProvider

\* What an occurrence owes to its attachments survives a step that takes back no
\* "sent", and sets "sent" only where every attachment is.
LEMMA OccurrenceStep ==
  ASSUME IndInv,
         today' \in Nat, today <= today',
         \A d \in Day, k \in Att : att[d][k] = "sent" => att'[d][k] = "sent",
         \A d \in Day : status'[d] = "sent" => AllSent(d),
         \A d \in Day : status'[d] # "none" => status[d] # "none" \/ d <= today,
         \A v \in Worker : run'[v].pc \in {"release", "lastSent"} /\ run'[v].res = "sent"
                             => run'[v].day \in Day /\ AllSent(run'[v].day),
         \/ lastSent' = lastSent
         \/ lastSent' = today /\ \E d \in Day : d <= today /\ AllSent(d)
  PROVE  OccurrenceOK'
<1>1. \A d \in Day : AllSent(d) => AllSent(d)'
  BY DEF AllSent
<1>2. \A d \in Day : status'[d] = "sent" => AllSent(d)'
  BY <1>1
<1>3. \A d \in Day : status'[d] # "none" => d <= today'
  <2> TAKE d \in Day
  <2>1. d \in Nat /\ today \in Nat
    BY DEF Day, IndInv, TypeOK
  <2>2. status'[d] # "none" => d <= today
    BY DEF IndInv, OccurrenceOK
  <2> QED
    BY <2>1, <2>2
<1>4. ASSUME NEW v \in Worker, run'[v].pc \in {"release", "lastSent"}, run'[v].res = "sent"
      PROVE  \A k \in Att : att'[run'[v].day][k] = "sent"
  BY <1>4 DEF AllSent
<1>5. lastSent' # 0 => \E d \in Day : d <= lastSent' /\ AllSent(d)'
  BY <1>1 DEF IndInv, OccurrenceOK
<1> QED
  BY <1>2, <1>3, <1>4, <1>5 DEF OccurrenceOK, AllSent

\* A run that ends nowhere near "release" brings no claim about an occurrence.
LEMMA RunSaysNothing ==
  ASSUME IndInv, NEW w \in Worker, OthersStay(w),
         run'[w].pc \notin {"release", "lastSent"}
  PROVE  \A v \in Worker : run'[v].pc \in {"release", "lastSent"} /\ run'[v].res = "sent"
                             => run'[v].day \in Day /\ AllSent(run'[v].day)
<1> TAKE v \in Worker
<1> HAVE run'[v].pc \in {"release", "lastSent"} /\ run'[v].res = "sent"
<1>1. v # w /\ run'[v] = run[v]
  BY DEF OthersStay
<1>2. run[v].day \in Day
  BY DEF IndInv, TypeOK, Run
<1> QED
  BY <1>1, <1>2 DEF IndInv, OccurrenceOK

\* One run moves within RunOK.
LEMMA RunStepOK ==
  ASSUME IndInv, NEW w \in Worker, OthersStay(w), today' = today,
         run'[w].pc \in {"prepare", "begin", "fail", "mark", "send", "record", "renew"}
           => run'[w].cur \in Att,
         run'[w].pc = "record" => run'[w].res \in Outcome,
         run'[w].pc = "release" => run'[w].res \in OccurrenceStatus,
         run'[w].pc = "lastSent" => run'[w].res = "sent",
         run'[w].day <= today
  PROVE  RunOK'
BY DEF OthersStay, IndInv, RunOK

\* A run that goes to its next attachment or to finalize, and has left the
\* attachments and deliveries alone, keeps the invariant.
LEMMA AdvanceStep ==
  ASSUME IndInv, NEW w \in Worker, run[w].cur \in Att, NextAttachment(w), today' = today
  PROVE  /\ OthersStay(w)
         /\ run'[w].pc \in {"prepare", "finalize"}
         /\ RunOK'
<1>1. \/ Moved(w, "finalize", run[w].cur + 1, "none")
      \/ run[w].cur + 1 \in Att /\ Moved(w, "prepare", run[w].cur + 1, "none")
  BY NextAttachmentMove DEF IndInv, TypeOK
<1>2. run[w].day <= today
  BY DEF IndInv, RunOK
<1>3. RunOK'
  BY <1>1, <1>2, RunStepOK DEF Moved
<1> QED
  BY <1>1, <1>3 DEF Moved

\* Taking a claim on an occurrence that has begun.
LEMMA ClaimKeeps ==
  ASSUME IndInv, NEW w \in Worker, NEW d \in Day, d <= today, Claim(w, d),
         UNCHANGED <<att, today, lastSent, delivered>>
  PROVE  RunOK' /\ OneSender' /\ SenderOK' /\ RowOK' /\ OccurrenceOK'
<1>1. /\ run'[w].pc = "prepare" /\ run'[w].cur = 1 /\ run'[w].day = d
      /\ OthersStay(w)
  BY ClaimMove DEF IndInv
<1>2. RunOK'
  BY <1>1, RunStepOK, BoundsAssumption DEF Att
<1>3. OneSender' /\ SenderOK' /\ RowOK'
  BY <1>1, QuietStep
<1>4. \A e \in Day : status'[e] = IF e = d THEN "claimed" ELSE status[e]
  BY DEF Claim, IndInv, TypeOK
<1>5. \A v \in Worker : run'[v].pc \in {"release", "lastSent"} /\ run'[v].res = "sent"
                         => run'[v].day \in Day /\ AllSent(run'[v].day)
  BY <1>1, RunSaysNothing
<1>6. today \in Nat /\ today <= today
  BY DEF IndInv, TypeOK, Day
<1>7. OccurrenceOK'
  <2>1. \A e \in Day : status'[e] = "sent" => AllSent(e)
    BY <1>4 DEF IndInv, OccurrenceOK
  <2>2. \A e \in Day : status'[e] # "none" => status[e] # "none" \/ e <= today
    BY <1>4
  <2> QED
    BY <1>5, <1>6, <2>1, <2>2, OccurrenceStep
<1> QED
  BY <1>2, <1>3, <1>7

\* Ending a run.
LEMMA EndRunKeeps ==
  ASSUME IndInv, NEW w \in Worker, EndRun(w), UNCHANGED <<att, today, delivered>>
  PROVE  /\ RunOK' /\ OneSender' /\ SenderOK' /\ RowOK'
         /\ OthersStay(w) /\ run'[w].pc = "idle"
<1>1. run'[w] = Idle /\ OthersStay(w)
  BY EndRunMove DEF IndInv, TypeOK
<1>2. run'[w].pc = "idle" /\ run'[w].day = 1
  BY <1>1 DEF Idle
<1>3. 1 <= today
  BY DEF IndInv, TypeOK, Day
<1> QED
  BY <1>1, <1>2, <1>3, RunStepOK, QuietStep

\* With status, lastSent and today untouched, OccurrenceOK only asks that no
\* "sent" attachment is taken back and that no run starts to speak of "sent".
LEMMA OccurrenceKept ==
  ASSUME IndInv, UNCHANGED <<status, today, lastSent>>,
         \A d \in Day, k \in Att : att[d][k] = "sent" => att'[d][k] = "sent",
         NEW w \in Worker, OthersStay(w), run'[w].pc \notin {"release", "lastSent"}
  PROVE  OccurrenceOK'
<1>1. \A v \in Worker : run'[v].pc \in {"release", "lastSent"} /\ run'[v].res = "sent"
                         => run'[v].day \in Day /\ AllSent(run'[v].day)
  BY RunSaysNothing
<1>2. today \in Nat /\ today <= today
  BY DEF IndInv, TypeOK, Day
<1>3. \A d \in Day : status'[d] = "sent" => AllSent(d)
  BY DEF IndInv, OccurrenceOK
<1> QED
  BY <1>1, <1>2, <1>3, OccurrenceStep

-----------------------------------------------------------------------------
(* The steps that write attachments or reach the provider *)

\* Writing one attachment leaves the others alone.
LEMMA SetAttWrites ==
  ASSUME TypeOK, NEW w \in Worker, run[w].cur \in Att, NEW s \in AttachmentStatus,
         SetAtt(w, s)
  PROVE  \A d \in Day, k \in Att :
           att'[d][k] = IF d = run[w].day /\ k = run[w].cur THEN s ELSE att[d][k]
BY DEF TypeOK, SetAtt, Run

\* recordScheduledWhatsAppAttachmentPreparationFailure keeps the invariant.
LEMMA PreparationFailureKeeps ==
  ASSUME IndInv, NEW w \in Worker, RecordPreparationFailure(w)
  PROVE  RunOK' /\ OneSender' /\ SenderOK' /\ RowOK' /\ OccurrenceOK'
<1> DEFINE d0 == run[w].day
           k0 == run[w].cur
<1>1. k0 \in Att /\ d0 \in Day
  BY DEF RecordPreparationFailure, At, IndInv, TypeOK, RunOK, Run
<1>2. OthersStay(w) /\ run'[w].pc \in {"prepare", "finalize"} /\ RunOK'
  BY <1>1, AdvanceStep DEF RecordPreparationFailure
<1>3. \A d \in Day, k \in Att :
        \/ att'[d][k] = att[d][k]
        \/ d = d0 /\ k = k0 /\ att[d][k] \in {"pending", "failed"} /\ att'[d][k] = "failed"
  <2>1. CASE att[d0][k0] \in {"pending", "failed"}
    <3>1. SetAtt(w, "failed") /\ TypeOK
      BY <2>1 DEF RecordPreparationFailure, IndInv
    <3> QED
      BY <1>1, <2>1, <3>1, SetAttWrites DEF AttachmentStatus
  <2>2. CASE att[d0][k0] \notin {"pending", "failed"}
    BY <2>2 DEF RecordPreparationFailure
  <2> QED
    BY <2>1, <2>2
<1>4. \A v \in Worker : AtProvider(v)' => v # w /\ AtProvider(v) /\ run'[v] = run[v]
  BY <1>2 DEF AtProvider, OthersStay
<1>5. OneSender'
  BY <1>4 DEF IndInv, OneSender
<1>6. SenderOK'
  <2> SUFFICES ASSUME NEW v \in Worker, AtProvider(v)'
               PROVE  att'[run'[v].day][run'[v].cur] = "sending"
    BY <1>4 DEF SenderOK, IndInv, RecordPreparationFailure
  <2>1. run[v].day \in Day /\ run[v].cur \in Att
    BY <1>4 DEF AtProvider, IndInv, TypeOK, RunOK, Run
  <2> QED
    BY <1>3, <1>4, <2>1 DEF IndInv, SenderOK
<1>7. RowOK'
  BY <1>3 DEF IndInv, RowOK, RecordPreparationFailure
<1>8. OccurrenceOK'
  BY <1>2, <1>3, OccurrenceKept DEF RecordPreparationFailure, claims
<1> QED
  BY <1>2, <1>5, <1>6, <1>7, <1>8

\* beginScheduledWhatsAppAttachmentAttempt keeps the invariant: no other run is
\* at the provider with a row that is still "pending" or "failed".
LEMMA BeginAttemptKeeps ==
  ASSUME IndInv, NEW w \in Worker, BeginAttempt(w)
  PROVE  RunOK' /\ OneSender' /\ SenderOK' /\ RowOK' /\ OccurrenceOK'
<1> DEFINE d0 == run[w].day
           k0 == run[w].cur
<1>1. k0 \in Att /\ d0 \in Day /\ d0 <= today
  BY DEF BeginAttempt, At, IndInv, TypeOK, RunOK, Run
<1>2. CASE att[d0][k0] \notin {"pending", "failed"}
  <2>1. UNCHANGED att /\ NextAttachment(w)
    BY <1>2 DEF BeginAttempt
  <2>2. OthersStay(w) /\ run'[w].pc \in {"prepare", "finalize"} /\ RunOK'
    BY <1>1, <2>1, AdvanceStep DEF BeginAttempt
  <2>3. OneSender' /\ SenderOK' /\ RowOK'
    BY <2>1, <2>2, QuietStep DEF BeginAttempt
  <2>4. OccurrenceOK'
    BY <2>1, <2>2, OccurrenceKept DEF BeginAttempt, claims
  <2> QED
    BY <2>2, <2>3, <2>4
<1>3. CASE att[d0][k0] \in {"pending", "failed"}
  <2>1. SetAtt(w, "sending") /\ Goto(w, "mark")
    BY <1>3 DEF BeginAttempt
  <2>2. Moved(w, "mark", k0, run[w].res)
    BY <2>1, GotoMove DEF IndInv, TypeOK, Pc
  <2>3. RunOK'
    BY <1>1, <2>2, RunStepOK DEF Moved, BeginAttempt
  <2>4. \A d \in Day, k \in Att :
          att'[d][k] = IF d = d0 /\ k = k0 THEN "sending" ELSE att[d][k]
    BY <1>1, <2>1, SetAttWrites DEF IndInv, AttachmentStatus
  <2>5. \A v \in Worker \ {w} : AtProvider(v)' => AtProvider(v) /\ run'[v] = run[v]
    BY <2>2 DEF AtProvider, Moved, OthersStay
  <2>6. \A v \in Worker \ {w} : AtProvider(v) => <<run[v].day, run[v].cur>> # <<d0, k0>>
    BY <1>3 DEF IndInv, SenderOK
  <2>7. run'[w].day = d0 /\ run'[w].cur = k0 /\ run'[w].pc = "mark"
    BY <2>2 DEF Moved
  <2>8. OneSender'
    BY <2>5, <2>6, <2>7 DEF IndInv, OneSender
  <2>9. SenderOK'
    <3>1. ASSUME NEW v \in Worker \ {w}, AtProvider(v)'
          PROVE  att'[run[v].day][run[v].cur] = att[run[v].day][run[v].cur]
      <4>1. run[v].day \in Day /\ run[v].cur \in Att
        BY <2>5, <3>1 DEF AtProvider, IndInv, TypeOK, RunOK, Run
      <4> QED
        BY <2>4, <2>5, <2>6, <3>1, <4>1
    <3>2. delivered[d0][k0] = 0
      BY <1>1, <1>3 DEF IndInv, RowOK
    <3>3. delivered' = delivered
      BY DEF BeginAttempt
    <3> QED
      BY <1>1, <2>4, <2>5, <2>7, <3>1, <3>2, <3>3 DEF IndInv, SenderOK
  <2>10. RowOK'
    BY <2>4 DEF IndInv, RowOK, BeginAttempt
  <2>11. OccurrenceOK'
    <3>1. OthersStay(w) /\ run'[w].pc \notin {"release", "lastSent"}
      BY <2>2 DEF Moved
    <3>2. \A d \in Day, k \in Att : att[d][k] = "sent" => att'[d][k] = "sent"
      BY <1>3, <2>4
    <3> QED
      BY <3>1, <3>2, OccurrenceKept DEF BeginAttempt, claims
  <2> QED
    BY <2>3, <2>8, <2>9, <2>10, <2>11
<1> QED
  BY <1>2, <1>3

\* Marking the occurrence "delivering" keeps the invariant.
LEMMA MarkDeliveringKeeps ==
  ASSUME IndInv, NEW w \in Worker, MarkDelivering(w)
  PROVE  RunOK' /\ OneSender' /\ SenderOK' /\ RowOK' /\ OccurrenceOK'
<1>1. run[w].cur \in Att /\ run[w].day \in Day /\ run[w].day <= today
  BY DEF MarkDelivering, At, IndInv, TypeOK, RunOK, Run
<1>2. Moved(w, "send", run[w].cur, run[w].res)
  BY GotoMove DEF MarkDelivering, IndInv, TypeOK, Pc
<1>3. RunOK'
  BY <1>1, <1>2, RunStepOK DEF Moved, MarkDelivering
<1>4. \A v \in Worker : /\ AtProvider(v)' => AtProvider(v)
                        /\ run'[v].day = run[v].day /\ run'[v].cur = run[v].cur
                        /\ v # w => run'[v] = run[v]
  BY <1>2 DEF AtProvider, Moved, OthersStay, MarkDelivering, At
<1>5. OneSender'
  BY <1>4 DEF IndInv, OneSender
<1>6. SenderOK'
  <2>1. run[w].pc = "mark" /\ run'[w].pc = "send"
    BY <1>2 DEF MarkDelivering, At, Moved
  <2>2. att' = att /\ delivered' = delivered
    BY DEF MarkDelivering
  <2> QED
    BY <1>4, <2>1, <2>2 DEF IndInv, SenderOK, AtProvider
<1>7. RowOK'
  BY DEF IndInv, RowOK, MarkDelivering
<1>8. OccurrenceOK'
  <2>1. \A d \in Day : status'[d] = status[d] \/ (d = run[w].day /\ status'[d] = "delivering")
    <3>1. status' = status \/ status' = [status EXCEPT ![run[w].day] = "delivering"]
      BY DEF MarkDelivering
    <3>2. status \in [Day -> OccurrenceStatus \cup {"none"}]
      BY DEF IndInv, TypeOK
    <3> QED
      BY <3>1, <3>2
  <2>2. \A d \in Day : status'[d] = "sent" => AllSent(d)
    BY <2>1 DEF IndInv, OccurrenceOK
  <2>3. \A d \in Day : status'[d] # "none" => status[d] # "none" \/ d <= today
    BY <1>1, <2>1
  <2>4. \A v \in Worker : run'[v].pc \in {"release", "lastSent"} /\ run'[v].res = "sent"
                         => run'[v].day \in Day /\ AllSent(run'[v].day)
    BY <1>2, RunSaysNothing DEF Moved
  <2>5. today \in Nat /\ today <= today
    BY DEF IndInv, TypeOK, Day
  <2> QED
    BY <2>2, <2>3, <2>4, <2>5, OccurrenceStep DEF MarkDelivering
<1> QED
  BY <1>3, <1>5, <1>6, <1>7, <1>8

\* The upload keeps the invariant: the file had not been accepted before, and no
\* other run is at the provider with it.
LEMMA SendKeeps ==
  ASSUME IndInv, NEW w \in Worker, Send(w)
  PROVE  RunOK' /\ OneSender' /\ SenderOK' /\ RowOK' /\ OccurrenceOK'
<1> DEFINE d0 == run[w].day
           k0 == run[w].cur
<1>1. /\ run[w].pc = "send" /\ k0 \in Att /\ d0 \in Day /\ d0 <= today
      /\ AtProvider(w) /\ att[d0][k0] = "sending" /\ delivered[d0][k0] = 0
  BY DEF Send, At, AtProvider, IndInv, TypeOK, RunOK, Run, SenderOK
<1>2. PICK o \in Outcome, accepted \in BOOLEAN :
        /\ o = "sent" => accepted
        /\ o = "failed" => ~accepted
        /\ run' = [run EXCEPT ![w].pc = "record", ![w].res = o]
        /\ delivered' = IF accepted
                         THEN [delivered EXCEPT ![d0][k0] = @ + 1]
                         ELSE delivered
  BY DEF Send
<1>3. Moved(w, "record", k0, o)
  BY <1>2, ResultMove DEF IndInv, TypeOK, Pc
<1>4. \A d \in Day, k \in Att :
        delivered'[d][k] = IF d = d0 /\ k = k0 THEN (IF accepted THEN 1 ELSE 0)
                                               ELSE delivered[d][k]
  <2>1. delivered \in [Day -> [Att -> Nat]]
    BY DEF IndInv, TypeOK
  <2>2. CASE accepted
    BY <1>1, <1>2, <2>1, <2>2
  <2>3. CASE ~accepted
    BY <1>1, <1>2, <2>1, <2>3
  <2> QED
    BY <2>2, <2>3
<1>5. RunOK'
  BY <1>1, <1>2, <1>3, RunStepOK DEF Moved, Send
<1>6. \A v \in Worker : /\ AtProvider(v)' => AtProvider(v)
                        /\ run'[v].day = run[v].day /\ run'[v].cur = run[v].cur
                        /\ v # w => run'[v] = run[v]
  BY <1>1, <1>3 DEF AtProvider, Moved, OthersStay
<1>7. OneSender'
  BY <1>6 DEF IndInv, OneSender
<1>8. SenderOK'
  <2>1. ASSUME NEW v \in Worker, AtProvider(v)', v # w
        PROVE  delivered'[run[v].day][run[v].cur] = delivered[run[v].day][run[v].cur]
    <3>1. <<run[v].day, run[v].cur>> # <<d0, k0>>
      BY <1>1, <1>6, <2>1 DEF IndInv, OneSender
    <3>2. run[v].day \in Day /\ run[v].cur \in Att
      BY <1>6, <2>1 DEF AtProvider, IndInv, TypeOK, RunOK, Run
    <3> QED
      BY <1>4, <3>1, <3>2
  <2>2. att' = att
    BY DEF Send
  <2>3. ASSUME NEW v \in Worker, AtProvider(v)', v # w
        PROVE  /\ att'[run'[v].day][run'[v].cur] = "sending"
               /\ run'[v].pc \in {"mark", "send"} => delivered'[run'[v].day][run'[v].cur] = 0
               /\ run'[v].pc = "record" /\ run'[v].res = "failed"
                    => delivered'[run'[v].day][run'[v].cur] = 0
               /\ run'[v].pc = "record" /\ run'[v].res = "sent"
                    => delivered'[run'[v].day][run'[v].cur] = 1
    BY <1>6, <2>1, <2>2, <2>3 DEF IndInv, SenderOK
  <2>4. /\ run'[w].pc = "record" /\ run'[w].res = o /\ run'[w].day = d0 /\ run'[w].cur = k0
    BY <1>3 DEF Moved
  <2>5. delivered'[d0][k0] = IF accepted THEN 1 ELSE 0
    BY <1>1, <1>4
  <2> QED
    BY <1>1, <1>2, <2>2, <2>3, <2>4, <2>5 DEF SenderOK
<1>9. RowOK'
  BY <1>1, <1>4 DEF IndInv, RowOK, Send
<1>10. OccurrenceOK'
  <2>1. OthersStay(w) /\ run'[w].pc \notin {"release", "lastSent"}
    BY <1>3 DEF Moved
  <2> QED
    BY <2>1, OccurrenceKept DEF Send, claims
<1> QED
  BY <1>5, <1>7, <1>8, <1>9, <1>10

\* Recording a classified response keeps the invariant.
LEMMA FinishAttemptKeeps ==
  ASSUME IndInv, NEW w \in Worker, FinishAttempt(w)
  PROVE  RunOK' /\ OneSender' /\ SenderOK' /\ RowOK' /\ OccurrenceOK'
<1> DEFINE d0 == run[w].day
           k0 == run[w].cur
           r == run[w].res
<1>1. /\ run[w].pc = "record" /\ k0 \in Att /\ d0 \in Day /\ d0 <= today
      /\ AtProvider(w) /\ att[d0][k0] = "sending" /\ r \in {"sent", "failed"}
      /\ r = "sent" => delivered[d0][k0] = 1
      /\ r = "failed" => delivered[d0][k0] = 0
  BY DEF FinishAttempt, At, AtProvider, IndInv, TypeOK, RunOK, Run, SenderOK, Outcome
<1>2. Moved(w, "renew", k0, r)
  BY GotoMove DEF FinishAttempt, IndInv, TypeOK, Pc
<1>3. \A d \in Day, k \in Att :
        att'[d][k] = att[d][k] \/ (d = d0 /\ k = k0 /\ att'[d][k] = r)
  <2>1. CASE SetAtt(w, r)
    BY <1>1, <2>1, SetAttWrites DEF IndInv, AttachmentStatus
  <2>2. CASE UNCHANGED att
    BY <2>2
  <2> QED
    BY <2>1, <2>2 DEF FinishAttempt
<1>4. RunOK'
  BY <1>1, <1>2, RunStepOK DEF Moved, FinishAttempt
<1>5. \A v \in Worker : AtProvider(v)' => v # w /\ AtProvider(v) /\ run'[v] = run[v]
  BY <1>2 DEF AtProvider, Moved, OthersStay
<1>6. OneSender'
  BY <1>5 DEF IndInv, OneSender
<1>7. SenderOK'
  <2>1. ASSUME NEW v \in Worker, AtProvider(v)'
        PROVE  att'[run[v].day][run[v].cur] = att[run[v].day][run[v].cur]
    <3>1. <<run[v].day, run[v].cur>> # <<d0, k0>>
      BY <1>1, <1>5, <2>1 DEF IndInv, OneSender
    <3>2. run[v].day \in Day /\ run[v].cur \in Att
      BY <1>5, <2>1 DEF AtProvider, IndInv, TypeOK, RunOK, Run
    <3> QED
      BY <1>3, <3>1, <3>2
  <2>2. delivered' = delivered
    BY DEF FinishAttempt
  <2> QED
    BY <1>5, <2>1, <2>2 DEF IndInv, SenderOK
<1>8. RowOK'
  BY <1>1, <1>3 DEF IndInv, RowOK, FinishAttempt
<1>9. OccurrenceOK'
  <2>1. OthersStay(w) /\ run'[w].pc \notin {"release", "lastSent"}
    BY <1>2 DEF Moved
  <2>2. \A d \in Day, k \in Att : att[d][k] = "sent" => att'[d][k] = "sent"
    BY <1>1, <1>3
  <2> QED
    BY <2>1, <2>2, OccurrenceKept DEF FinishAttempt, claims
<1> QED
  BY <1>4, <1>6, <1>7, <1>8, <1>9

-----------------------------------------------------------------------------
(* Ending a run *)

\* The aggregate says "sent" only of an occurrence whose attachments all are.
LEMMA AggregateKeeps ==
  ASSUME IndInv, NEW w \in Worker, Aggregate(w)
  PROVE  RunOK' /\ OneSender' /\ SenderOK' /\ RowOK' /\ OccurrenceOK'
<1> DEFINE r == AggregateStatus(run[w].day)
<1>1. r \in OccurrenceStatus /\ (r = "sent" => AllSent(run[w].day))
  BY DEF AggregateStatus, OccurrenceStatus, AllSent
<1>2. Moved(w, "release", run[w].cur, r)
  BY <1>1, ResultMove DEF Aggregate, IndInv, TypeOK, Pc
<1>3. run[w].day \in Day /\ run[w].day <= today
  BY DEF IndInv, TypeOK, RunOK, Run
<1>4. RunOK'
  BY <1>1, <1>2, <1>3, RunStepOK DEF Moved, Aggregate
<1>5. OneSender' /\ SenderOK' /\ RowOK'
  BY <1>2, QuietStep DEF Moved, Aggregate
<1>6. OccurrenceOK'
  <2>1. UNCHANGED <<status, att, today, lastSent>>
    BY DEF Aggregate, claims
  <2>2. \A v \in Worker : run'[v].pc \in {"release", "lastSent"} /\ run'[v].res = "sent"
                         => run'[v].day \in Day /\ AllSent(run'[v].day)
    <3> SUFFICES ASSUME NEW v \in Worker, run'[v].pc \in {"release", "lastSent"},
                        run'[v].res = "sent"
                 PROVE  run'[v].day \in Day /\ AllSent(run'[v].day)
      OBVIOUS
    <3>1. CASE v = w
      BY <1>1, <1>2, <1>3, <3>1 DEF Moved
    <3>2. CASE v # w
      BY <1>2, <3>2 DEF Moved, OthersStay, IndInv, TypeOK, Run, OccurrenceOK
    <3> QED
      BY <3>1, <3>2
  <2>3. today \in Nat /\ today <= today
    BY DEF IndInv, TypeOK, Day
  <2>4. \A d \in Day : status'[d] = "sent" => AllSent(d)
    BY <2>1 DEF IndInv, OccurrenceOK
  <2> QED
    BY <2>1, <2>2, <2>3, <2>4, OccurrenceStep
<1> QED
  BY <1>4, <1>5, <1>6

\* The final update keeps the invariant, whether or not the run still owns the
\* occurrence.
LEMMA ReleaseKeeps ==
  ASSUME IndInv, NEW w \in Worker, Release(w)
  PROVE  RunOK' /\ OneSender' /\ SenderOK' /\ RowOK' /\ OccurrenceOK'
<1> DEFINE d0 == run[w].day
           r == run[w].res
<1>1. /\ d0 \in Day /\ d0 <= today /\ r \in OccurrenceStatus
      /\ r = "sent" => AllSent(d0)
  BY DEF Release, At, IndInv, TypeOK, RunOK, Run, OccurrenceOK
<1>2. UNCHANGED <<att, today, lastSent, delivered>>
  BY DEF Release
<1>3. \A d \in Day : status'[d] = status[d] \/ (d = d0 /\ status'[d] = r)
  <2>1. status' = status \/ status' = [status EXCEPT ![d0] = r]
    BY DEF Release, claims
  <2>2. status \in [Day -> OccurrenceStatus \cup {"none"}]
    BY DEF IndInv, TypeOK
  <2> QED
    BY <2>1, <2>2
<1>4. today \in Nat /\ today <= today
  BY DEF IndInv, TypeOK, Day
<1>5. \A d \in Day : status'[d] = "sent" => AllSent(d)
  BY <1>1, <1>3 DEF IndInv, OccurrenceOK
<1>6. \A d \in Day : status'[d] # "none" => status[d] # "none" \/ d <= today
  BY <1>1, <1>3
<1>7. CASE r = "sent"
  <2>1. Moved(w, "lastSent", run[w].cur, r)
    BY <1>7, GotoMove DEF Release, IndInv, TypeOK, Pc
  <2>2. RunOK'
    BY <1>1, <1>2, <1>7, <2>1, RunStepOK DEF Moved
  <2>3. OneSender' /\ SenderOK' /\ RowOK'
    BY <1>2, <2>1, QuietStep DEF Moved
  <2>4. \A v \in Worker : run'[v].pc \in {"release", "lastSent"} /\ run'[v].res = "sent"
                         => run'[v].day \in Day /\ AllSent(run'[v].day)
    <3> SUFFICES ASSUME NEW v \in Worker, run'[v].pc \in {"release", "lastSent"},
                        run'[v].res = "sent"
                 PROVE  run'[v].day \in Day /\ AllSent(run'[v].day)
      OBVIOUS
    <3>1. CASE v = w
      BY <1>1, <1>7, <2>1, <3>1 DEF Moved
    <3>2. CASE v # w
      BY <2>1, <3>2 DEF Moved, OthersStay, IndInv, TypeOK, Run, OccurrenceOK
    <3> QED
      BY <3>1, <3>2
  <2> QED
    BY <1>2, <1>4, <1>5, <1>6, <2>2, <2>3, <2>4, OccurrenceStep
<1>8. CASE r # "sent"
  <2>1. EndRun(w)
    BY <1>8 DEF Release
  <2>2. RunOK' /\ OneSender' /\ SenderOK' /\ RowOK' /\ OthersStay(w) /\ run'[w].pc = "idle"
    BY <1>2, <2>1, EndRunKeeps
  <2>3. \A v \in Worker : run'[v].pc \in {"release", "lastSent"} /\ run'[v].res = "sent"
                         => run'[v].day \in Day /\ AllSent(run'[v].day)
    BY <2>2, RunSaysNothing
  <2> QED
    BY <1>2, <1>4, <1>5, <1>6, <2>2, <2>3, OccurrenceStep
<1> QED
  BY <1>7, <1>8

\* Setting last_sent_at keeps the invariant: the run follows an occurrence that
\* was sent in full, of a day that is not after today.
LEMMA SetLastSentKeeps ==
  ASSUME IndInv, NEW w \in Worker, SetLastSent(w)
  PROVE  RunOK' /\ OneSender' /\ SenderOK' /\ RowOK' /\ OccurrenceOK'
<1>1. run[w].day \in Day /\ run[w].day <= today /\ AllSent(run[w].day)
  BY DEF SetLastSent, At, IndInv, TypeOK, RunOK, Run, OccurrenceOK
<1>2. UNCHANGED <<status, att, today, delivered>> /\ lastSent' = today
  BY DEF SetLastSent, claims
<1>3. RunOK' /\ OneSender' /\ SenderOK' /\ RowOK' /\ OthersStay(w) /\ run'[w].pc = "idle"
  BY <1>2, EndRunKeeps DEF SetLastSent
<1>4. \A v \in Worker : run'[v].pc \in {"release", "lastSent"} /\ run'[v].res = "sent"
                         => run'[v].day \in Day /\ AllSent(run'[v].day)
  BY <1>3, RunSaysNothing
<1>5. today \in Nat /\ today <= today
  BY DEF IndInv, TypeOK, Day
<1>6. \A d \in Day : status'[d] = "sent" => AllSent(d)
  BY <1>2 DEF IndInv, OccurrenceOK
<1>7. OccurrenceOK'
  BY <1>1, <1>2, <1>4, <1>5, <1>6, OccurrenceStep
<1> QED
  BY <1>3, <1>7

-----------------------------------------------------------------------------
(* The theorems *)

\* The invariant holds when nothing has happened yet.
LEMMA InitInv == Init => IndInv
<1> SUFFICES ASSUME Init PROVE IndInv
  OBVIOUS
<1>1. TypeOK
  BY BoundsAssumption
  DEF Init, TypeOK, Idle, Run, Pc, Day, Att, AttachmentStatus, Outcome
<1>2. RunOK /\ OneSender /\ SenderOK
  BY BoundsAssumption
  DEF Init, RunOK, OneSender, SenderOK, AtProvider, Idle, Day
<1>3. RowOK /\ OccurrenceOK
  BY DEF Init, RowOK, OccurrenceOK, Idle, Day, Att
<1> QED
  BY <1>1, <1>2, <1>3 DEF IndInv

\* Every step keeps the invariant.
LEMMA StepInv == IndInv /\ [Next]_vars => IndInv'
<1> SUFFICES ASSUME IndInv, [Next]_vars PROVE IndInv'
  OBVIOUS
<1> DEFINE Rest == RunOK /\ OneSender /\ SenderOK /\ RowOK /\ OccurrenceOK
<1>1. TypeOK'
  BY TypeStep DEF IndInv
<1>2. ASSUME NEW w \in Worker, ClaimRetryable(w) PROVE Rest'
  <2>1. PICK d \in Day : Retryable(d) /\ Claim(w, d)
    BY <1>2 DEF ClaimRetryable
  <2>2. d <= today
    BY <2>1 DEF Retryable, Acquirable, IndInv, OccurrenceOK
  <2> QED
    BY <1>2, <2>1, <2>2, ClaimKeeps DEF ClaimRetryable
<1>3. ASSUME NEW w \in Worker, NothingToRetry(w) PROVE Rest'
  <2>1. Moved(w, "fresh", run[w].cur, run[w].res) /\ run[w].day <= today
    BY <1>3, GotoMove DEF NothingToRetry, IndInv, TypeOK, Pc, RunOK
  <2>2. RunOK'
    BY <1>3, <2>1, RunStepOK DEF NothingToRetry, Moved
  <2>3. OneSender' /\ SenderOK' /\ RowOK'
    BY <1>3, <2>1, QuietStep DEF NothingToRetry, Moved
  <2>4. OccurrenceOK'
    BY <1>3, <2>1, OccurrenceKept DEF NothingToRetry, Moved, claims
  <2> QED
    BY <2>2, <2>3, <2>4
<1>4. ASSUME NEW w \in Worker, ClaimFresh(w) PROVE Rest'
  <2>1. today \in Day /\ today <= today
    BY DEF IndInv, TypeOK, Day
  <2>2. CASE Claim(w, today)
    BY <1>4, <2>1, <2>2, ClaimKeeps DEF ClaimFresh
  <2>3. CASE EndRun(w) /\ UNCHANGED claims
    <3>1. RunOK' /\ OneSender' /\ SenderOK' /\ RowOK' /\ OthersStay(w) /\ run'[w].pc = "idle"
      BY <1>4, <2>3, EndRunKeeps DEF ClaimFresh
    <3>2. OccurrenceOK'
      BY <1>4, <2>3, <3>1, OccurrenceKept DEF ClaimFresh, claims
    <3> QED
      BY <3>1, <3>2
  <2> QED
    BY <1>4, <2>2, <2>3 DEF ClaimFresh
<1>5. ASSUME NEW w \in Worker, run[w].cur \in Att, NextAttachment(w),
             UNCHANGED <<status, att, today, lastSent, delivered>>
      PROVE  Rest'
  <2>1. OthersStay(w) /\ run'[w].pc \in {"prepare", "finalize"} /\ RunOK'
    BY <1>5, AdvanceStep
  <2>2. OneSender' /\ SenderOK' /\ RowOK'
    BY <1>5, <2>1, QuietStep
  <2>3. OccurrenceOK'
    BY <1>5, <2>1, OccurrenceKept
  <2> QED
    BY <2>1, <2>2, <2>3
<1>6. ASSUME NEW w \in Worker, SkipSent(w) PROVE Rest'
  BY <1>5, <1>6 DEF SkipSent, claims, At, IndInv, RunOK
<1>7. ASSUME NEW w \in Worker, Prepare(w) PROVE Rest'
  <2>1. run[w].cur \in Att /\ run[w].day <= today
    BY <1>7 DEF Prepare, At, IndInv, RunOK
  <2>2. CASE NextAttachment(w)
    BY <1>5, <1>7, <2>1, <2>2 DEF Prepare, claims
  <2>3. ASSUME NEW l \in {"begin", "fail"}, Goto(w, l) PROVE Rest'
    <3>1. Moved(w, l, run[w].cur, run[w].res)
      BY <2>3, GotoMove DEF IndInv, TypeOK, Pc
    <3>2. RunOK'
      BY <1>7, <2>1, <3>1, RunStepOK DEF Prepare, Moved
    <3>3. OneSender' /\ SenderOK' /\ RowOK'
      BY <1>7, <3>1, QuietStep DEF Prepare, Moved
    <3>4. OccurrenceOK'
      BY <1>7, <3>1, OccurrenceKept DEF Prepare, Moved, claims
    <3> QED
      BY <3>2, <3>3, <3>4
  <2> QED
    BY <1>7, <2>2, <2>3 DEF Prepare
<1>8. ASSUME NEW w \in Worker, RenewLease(w) PROVE Rest'
  BY <1>5, <1>8 DEF RenewLease, At, IndInv, RunOK
<1>9. ASSUME NEW w \in Worker, RecordUncertain(w) PROVE Rest'
  BY <1>5, <1>9 DEF RecordUncertain, claims, At, IndInv, RunOK
<1>10. ASSUME NEW w \in Worker, Crash(w) PROVE Rest'
  <2>1. RunOK' /\ OneSender' /\ SenderOK' /\ RowOK' /\ OthersStay(w) /\ run'[w].pc = "idle"
    BY <1>10, EndRunKeeps DEF Crash
  <2>2. OccurrenceOK'
    BY <1>10, <2>1, OccurrenceKept DEF Crash, claims
  <2> QED
    BY <2>1, <2>2
<1>11. ASSUME UNCHANGED <<status, att, lastSent, run, delivered>>,
              today' \in Nat, today <= today'
       PROVE  Rest'
  <2>1. OneSender' /\ SenderOK' /\ RowOK'
    BY <1>11, IdleStep
  <2>2. RunOK'
    <3>1. \A w \in Worker : run[w].day \in Nat /\ today \in Nat
      BY DEF IndInv, TypeOK, Run, Day
    <3> QED
      BY <1>11, <3>1 DEF IndInv, RunOK
  <2>3. \A v \in Worker : run[v].pc \in {"release", "lastSent"} /\ run[v].res = "sent"
                             => run[v].day \in Day /\ AllSent(run[v].day)
    BY DEF IndInv, TypeOK, Run, OccurrenceOK
  <2>4. \A d \in Day : status[d] = "sent" => AllSent(d)
    BY DEF IndInv, OccurrenceOK
  <2>5. OccurrenceOK'
    BY <1>11, <2>3, <2>4, OccurrenceStep
  <2> QED
    BY <2>1, <2>2, <2>5
<1>12. today \in Nat /\ today <= today
  BY DEF IndInv, TypeOK, Day
<1>13. ASSUME NEW d \in Day, LeaseExpires(d) PROVE Rest'
  BY <1>11, <1>12, <1>13 DEF LeaseExpires
<1>14. ASSUME NEW d \in Day, AgeOut(d) PROVE Rest'
  BY <1>11, <1>12, <1>14 DEF AgeOut, claims
<1>15. ASSUME NextDay PROVE Rest'
  BY <1>11, <1>12, <1>15 DEF NextDay, claims
<1>16. ASSUME UNCHANGED vars PROVE Rest'
  BY <1>11, <1>12, <1>16 DEF vars
<1>17. Rest'
  <2>1. ASSUME NEW w \in Worker, RunStep(w) PROVE Rest'
    BY <1>4, <1>6, <1>7, <1>8, <1>9, <2>1, PreparationFailureKeeps, BeginAttemptKeeps,
       MarkDeliveringKeeps, SendKeeps, FinishAttemptKeeps, AggregateKeeps, ReleaseKeeps,
       SetLastSentKeeps
    DEF RunStep
  <2> QED
    BY <1>2, <1>3, <1>10, <1>13, <1>14, <1>15, <1>16, <2>1 DEF Next, Tick
<1> QED
  BY <1>1, <1>17 DEF IndInv

\* The invariant holds throughout every behaviour.
THEOREM Invariance == Spec => []IndInv
BY InitInv, StepInv, PTL DEF Spec

\* Every variable keeps its type.
THEOREM TypeCorrect == Spec => []TypeOK
<1>1. IndInv => TypeOK
  BY DEF IndInv
<1> QED
  BY <1>1, Invariance, PTL

\* No file of an occurrence reaches the recipient twice.
THEOREM AtMostOnceHolds == Spec => []AtMostOnce
<1>1. IndInv => AtMostOnce
  BY DEF IndInv, RowOK, AtMostOnce
<1> QED
  BY <1>1, Invariance, PTL

\* Two runs are never at the provider with the same file.
THEOREM OneSenderHolds == Spec => []OneSender
<1>1. IndInv => OneSender
  BY DEF IndInv
<1> QED
  BY <1>1, Invariance, PTL

\* An occurrence that says "sent" was delivered in full, and last_sent_at only
\* follows such an occurrence.
THEOREM SentMeansDeliveredHolds == Spec => []SentMeansDelivered
<1>1. IndInv => SentMeansDelivered
  BY DEF IndInv, RowOK, OccurrenceOK, AllSent, SentMeansDelivered
<1> QED
  BY <1>1, Invariance, PTL

-----------------------------------------------------------------------------
(* Steps, seen by one attachment *)

\* Only five actions write attachments or deliveries, and each of them writes
\* at most the attachment its run is at.
LEMMA WhoWrites ==
  ASSUME IndInv, [Next]_vars
  PROVE  \/ UNCHANGED <<att, delivered>>
         \/ \E w \in Worker : \/ RecordPreparationFailure(w)
                              \/ BeginAttempt(w)
                              \/ Send(w)
                              \/ FinishAttempt(w)
BY DEF Next, Tick, RunStep, vars, ClaimRetryable, NothingToRetry, ClaimFresh, SkipSent,
       Prepare, MarkDelivering, RenewLease, RecordUncertain, Aggregate, Release,
       SetLastSent, Crash, LeaseExpires, AgeOut, NextDay

\* An attachment whose row is not "pending", "failed" or attended is not written.
LEMMA AmbiguousStep ==
  ASSUME IndInv, [Next]_vars, NEW d \in Day, NEW k \in Att,
         att[d][k] = "sending", ~Attended(d, k)
  PROVE  att'[d][k] = "sending"
<1>1. ASSUME NEW w \in Worker, NEW s \in AttachmentStatus, SetAtt(w, s),
             run[w].cur \in Att, <<run[w].day, run[w].cur>> # <<d, k>>
      PROVE  att'[d][k] = att[d][k]
  BY <1>1, SetAttWrites DEF IndInv
<1>2. ASSUME NEW w \in Worker, RecordPreparationFailure(w) PROVE att'[d][k] = "sending"
  BY <1>1, <1>2 DEF RecordPreparationFailure, At, IndInv, RunOK, AttachmentStatus
<1>3. ASSUME NEW w \in Worker, BeginAttempt(w) PROVE att'[d][k] = "sending"
  BY <1>1, <1>3 DEF BeginAttempt, At, IndInv, RunOK, AttachmentStatus
<1>4. ASSUME NEW w \in Worker, FinishAttempt(w) PROVE att'[d][k] = "sending"
  <2>1. /\ run[w].cur \in Att /\ AtProvider(w) /\ run[w].res \in AttachmentStatus
        /\ <<run[w].day, run[w].cur>> # <<d, k>>
    BY <1>4 DEF FinishAttempt, At, AtProvider, Attended, IndInv, RunOK, Outcome,
                AttachmentStatus
  <2> QED
    BY <1>1, <1>4, <2>1 DEF FinishAttempt
<1>5. ASSUME NEW w \in Worker, Send(w) PROVE att'[d][k] = "sending"
  BY <1>5 DEF Send
<1> QED
  BY <1>2, <1>3, <1>4, <1>5, WhoWrites

\* No retry, and no other step, ever touches an ambiguous send.
THEOREM AmbiguousIsFinalHolds == Spec => AmbiguousIsFinal
<1>1. IndInv /\ [Next]_vars
        => [\A d \in Day, k \in Att :
              att[d][k] = "sending" /\ ~Attended(d, k) => att'[d][k] = "sending"]_vars
  BY AmbiguousStep
<1> QED
  BY <1>1, Invariance, PTL DEF Spec, AmbiguousIsFinal

-----------------------------------------------------------------------------
(* The protocol implements OncePerFile *)

\* The state of a file, without the case distinction on impossible counts.
LEMMA FileStateOf ==
  ASSUME NEW d \in Day, NEW k \in Att
  PROVE  /\ delivered[d][k] = 1 => FileState[<<d, k>>] = "accepted"
         /\ delivered[d][k] = 0 =>
              FileState[<<d, k>>] = IF att[d][k] = "sending" THEN "offered" ELSE "open"
BY DEF FileState

\* The same in the state after a step.
LEMMA FileStateNext ==
  ASSUME NEW d \in Day, NEW k \in Att
  PROVE  /\ delivered'[d][k] = 1 => FileState'[<<d, k>>] = "accepted"
         /\ delivered'[d][k] = 0 =>
              FileState'[<<d, k>>] = IF att'[d][k] = "sending" THEN "offered" ELSE "open"
BY DEF FileState

\* A step that moves the file of one attachment to state s is a step of the
\* function FileState.
LEMMA OneFileMoves ==
  ASSUME NEW d0 \in Day, NEW k0 \in Att, NEW s, FileState'[<<d0, k0>>] = s,
         \A d \in Day, k \in Att : <<d, k>> # <<d0, k0>> =>
            att'[d][k] = att[d][k] /\ delivered'[d][k] = delivered[d][k]
  PROVE  FileState' = [FileState EXCEPT ![<<d0, k0>>] = s]
<1> DEFINE F == Day \X Att
<1>1. \A f \in F : f # <<d0, k0>> => FileState'[f] = FileState[f]
  BY DEF FileState
<1>2. FileState = [f \in F |-> FileState[f]] /\ FileState' = [f \in F |-> FileState'[f]]
  BY DEF FileState
<1> HIDE DEF F
<1>3. FileState' = [f \in F |-> IF f = <<d0, k0>> THEN s ELSE FileState[f]]
  BY <1>1, <1>2
<1> QED
  BY <1>2, <1>3

\* Each step is an offer, a withdrawal, an acceptance, or changes no file.
LEMMA RefinementStep ==
  ASSUME IndInv, [Next]_vars
  PROVE  [Promise!Next]_FileState
<1>1. CASE UNCHANGED <<att, delivered>>
  BY <1>1 DEF FileState
<1> DEFINE f(w) == <<run[w].day, run[w].cur>>
<1>2. ASSUME NEW w \in Worker, run[w].cur \in Att, NEW s, FileState'[f(w)] = s,
             \A d \in Day, k \in Att : <<d, k>> # f(w) =>
                att'[d][k] = att[d][k] /\ delivered'[d][k] = delivered[d][k]
      PROVE  f(w) \in Day \X Att /\ FileState' = [FileState EXCEPT ![f(w)] = s]
  <2>1. run[w].day \in Day
    BY DEF IndInv, TypeOK, Run
  <2> QED
    BY <1>2, <2>1, OneFileMoves
<1>3. ASSUME NEW w \in Worker, NEW s \in AttachmentStatus, run[w].cur \in Att,
             SetAtt(w, s), delivered' = delivered
      PROVE  /\ run[w].day \in Day /\ att'[run[w].day][run[w].cur] = s
             /\ \A d \in Day, k \in Att : <<d, k>> # f(w) =>
                  att'[d][k] = att[d][k] /\ delivered'[d][k] = delivered[d][k]
  BY <1>3, SetAttWrites DEF IndInv, TypeOK, Run
<1>4. ASSUME NEW w \in Worker, RecordPreparationFailure(w) PROVE [Promise!Next]_FileState
  <2>1. run[w].cur \in Att /\ run[w].day \in Day /\ delivered' = delivered
    BY <1>4 DEF RecordPreparationFailure, At, IndInv, TypeOK, RunOK, Run
  <2>2. CASE att[run[w].day][run[w].cur] \in {"pending", "failed"}
    <3>1. SetAtt(w, "failed") /\ "failed" \in AttachmentStatus
      BY <1>4, <2>2 DEF RecordPreparationFailure, AttachmentStatus
    <3>2. delivered[run[w].day][run[w].cur] = 0
      BY <2>1, <2>2 DEF IndInv, RowOK
    <3>3. att'[run[w].day][run[w].cur] = "failed"
      BY <1>3, <2>1, <3>1
    <3>4. FileState[f(w)] = "open" /\ FileState'[f(w)] = "open"
      BY <2>1, <2>2, <3>2, <3>3, FileStateOf, FileStateNext
    <3>5. FileState' = [FileState EXCEPT ![f(w)] = "open"]
      BY <1>2, <1>3, <2>1, <3>1, <3>4
    <3> QED
      BY <2>1, <3>4, <3>5 DEF FileState
  <2>3. CASE att[run[w].day][run[w].cur] \notin {"pending", "failed"}
    BY <1>1, <1>4, <2>1, <2>3 DEF RecordPreparationFailure
  <2> QED
    BY <2>2, <2>3
<1>5. ASSUME NEW w \in Worker, BeginAttempt(w) PROVE [Promise!Next]_FileState
  <2>1. run[w].cur \in Att /\ run[w].day \in Day /\ delivered' = delivered
    BY <1>5 DEF BeginAttempt, At, IndInv, TypeOK, RunOK, Run
  <2>2. CASE att[run[w].day][run[w].cur] \in {"pending", "failed"}
    <3>1. SetAtt(w, "sending") /\ "sending" \in AttachmentStatus
      BY <1>5, <2>2 DEF BeginAttempt, AttachmentStatus
    <3>2. delivered[run[w].day][run[w].cur] = 0
      BY <2>1, <2>2 DEF IndInv, RowOK
    <3>3. att'[run[w].day][run[w].cur] = "sending"
      BY <1>3, <2>1, <3>1
    <3>4. FileState[f(w)] = "open" /\ FileState'[f(w)] = "offered"
      BY <2>1, <2>2, <3>2, <3>3, FileStateOf, FileStateNext
    <3>5. f(w) \in Day \X Att /\ FileState' = [FileState EXCEPT ![f(w)] = "offered"]
      BY <1>2, <1>3, <2>1, <3>1, <3>4
    <3> QED
      BY <3>4, <3>5 DEF Promise!Next, Promise!Offer
  <2>3. CASE att[run[w].day][run[w].cur] \notin {"pending", "failed"}
    BY <1>1, <1>5, <2>1, <2>3 DEF BeginAttempt
  <2> QED
    BY <2>2, <2>3
<1>6. ASSUME NEW w \in Worker, Send(w) PROVE [Promise!Next]_FileState
  <2>1. /\ run[w].cur \in Att /\ run[w].day \in Day /\ att' = att
        /\ att[run[w].day][run[w].cur] = "sending"
        /\ delivered[run[w].day][run[w].cur] = 0
    BY <1>6 DEF Send, At, AtProvider, IndInv, TypeOK, RunOK, Run, SenderOK
  <2>2. CASE delivered' = delivered
    BY <1>1, <2>1, <2>2
  <2>3. CASE delivered' = [delivered EXCEPT ![run[w].day][run[w].cur] = @ + 1]
    <3>1. delivered \in [Day -> [Att -> Nat]]
      BY DEF IndInv, TypeOK
    <3>2. /\ delivered'[run[w].day][run[w].cur] = 1
          /\ \A d \in Day, k \in Att : <<d, k>> # f(w) => delivered'[d][k] = delivered[d][k]
      BY <2>1, <2>3, <3>1
    <3>3. FileState[f(w)] = "offered" /\ FileState'[f(w)] = "accepted"
      BY <2>1, <3>2, FileStateOf, FileStateNext
    <3>4. f(w) \in Day \X Att /\ FileState' = [FileState EXCEPT ![f(w)] = "accepted"]
      BY <1>2, <2>1, <3>2, <3>3
    <3> QED
      BY <3>3, <3>4 DEF Promise!Next, Promise!Accept
  <2> QED
    BY <1>6, <2>2, <2>3 DEF Send
<1>7. ASSUME NEW w \in Worker, FinishAttempt(w) PROVE [Promise!Next]_FileState
  <2>1. /\ run[w].cur \in Att /\ run[w].day \in Day /\ delivered' = delivered
        /\ att[run[w].day][run[w].cur] = "sending" /\ run[w].res \in {"sent", "failed"}
        /\ run[w].res = "sent" => delivered[run[w].day][run[w].cur] = 1
        /\ run[w].res = "failed" => delivered[run[w].day][run[w].cur] = 0
    BY <1>7 DEF FinishAttempt, At, AtProvider, IndInv, TypeOK, RunOK, Run, SenderOK, Outcome
  <2>2. CASE SetAtt(w, run[w].res)
    <3>1. run[w].res \in AttachmentStatus
      BY <2>1 DEF AttachmentStatus
    <3>2. /\ att'[run[w].day][run[w].cur] = run[w].res
          /\ \A d \in Day, k \in Att : <<d, k>> # f(w) =>
               att'[d][k] = att[d][k] /\ delivered'[d][k] = delivered[d][k]
      BY <1>3, <2>1, <2>2, <3>1
    <3>3. CASE run[w].res = "sent"
      <4>1. FileState[f(w)] = "accepted" /\ FileState'[f(w)] = "accepted"
        BY <2>1, <3>3, FileStateOf, FileStateNext
      <4>2. FileState' = [FileState EXCEPT ![f(w)] = "accepted"]
        BY <1>2, <2>1, <3>2, <4>1
      <4> QED
        BY <2>1, <4>1, <4>2 DEF FileState
    <3>4. CASE run[w].res = "failed"
      <4>1. FileState[f(w)] = "offered" /\ FileState'[f(w)] = "open"
        BY <2>1, <3>2, <3>4, FileStateOf, FileStateNext
      <4>2. f(w) \in Day \X Att /\ FileState' = [FileState EXCEPT ![f(w)] = "open"]
        BY <1>2, <2>1, <3>2, <4>1
      <4> QED
        BY <4>1, <4>2 DEF Promise!Next, Promise!Withdraw
    <3> QED
      BY <2>1, <3>3, <3>4
  <2>3. CASE UNCHANGED att
    BY <1>1, <2>1, <2>3
  <2> QED
    BY <1>7, <2>2, <2>3 DEF FinishAttempt
<1> QED
  BY <1>1, <1>4, <1>5, <1>6, <1>7, WhoWrites

\* The claim and lease protocol implements the promise of OncePerFile.
THEOREM Refinement == Spec => ImplementsOncePerFile
<1>1. Init => Promise!Init
  BY DEF Init, Promise!Init, FileState
<1>2. IndInv /\ [Next]_vars => [Promise!Next]_FileState
  BY RefinementStep
<1> QED
  BY <1>1, <1>2, Invariance, PTL DEF Spec, ImplementsOncePerFile, Promise!Spec

=============================================================================

----------------------------- MODULE HeavyExport -----------------------------
(***************************************************************************)
(* The exports of one server process: the coordinator that serialises the  *)
(* heavy ones, the list of export jobs, and the archives on disk.          *)
(*                                                                         *)
(* The process is single-threaded: an action is what runs between two      *)
(* awaits.  An export asks the coordinator for a slot, is served, queued or *)
(* refused, and gives the slot back when its work ends or throws; a waiting *)
(* export may time out.  An export to be downloaded leaves its archive with *)
(* its job, and whoever downloads it removes it; one to be sent disposes of *)
(* its archive itself.  A timer deletes old jobs, and a new job old ones   *)
(* that have ended, with their archives.  A restart forgets everything; the *)
(* archives it leaves are swept by age when a process starts, and are not  *)
(* followed here.                                                          *)
(*                                                                         *)
(* Not here: an export that asks for a slot while it holds one is let       *)
(* through at once, and no caller does so.                                 *)
(***************************************************************************)
EXTENDS Naturals, Sequences, FiniteSets, SequencesExt

CONSTANTS
  MaxConcurrent, \* the slots
  MaxQueue,      \* the places in the queue
  MaxJobs,       \* the jobs above which ended ones are deleted
  MaxExports,    \* bound on the exports
  Reader,        \* the requests that download archives
  None           \* no export

ASSUME ExportAssumption ==
  /\ MaxConcurrent \in Nat \ {0} /\ MaxQueue \in Nat \ {0} /\ MaxJobs \in Nat \ {0}
  /\ MaxExports \in Nat
  /\ None \notin Nat

VARIABLES
  active,     \* the coordinator's count of slots in use
  queue,      \* the exports in its queue
  pc,         \* where each export is
  kind,       \* what each export is for
  status,     \* the status of each export's job
  listed,     \* the jobs in the list
  path,       \* the jobs that name an archive
  file,       \* the exports whose archive is on disk
  reader,     \* what each request is downloading: [job, open]
  evicted     \* history: jobs deleted from the list while they ran

vars == <<active, queue, pc, kind, status, listed, path, file, reader, evicted>>

\* Exports are numbered in the order in which they begin.
Export == 1..MaxExports
Kind == {"download", "email", "scheduled", "buffered"}

HasJob(k) == k \in {"download", "email"}
HasArchive(k) == k # "buffered"

Location == {"new", "begun", "waiting", "working", "built", "sending", "disposing",
             "failed", "ended"}

NoReader == [job |-> None, open |-> FALSE]

Init ==
  /\ active = 0
  /\ queue = <<>>
  /\ pc = [e \in Export |-> "new"]
  /\ kind = [e \in Export |-> "buffered"]
  /\ status = [e \in Export |-> "running"]
  /\ listed = {} /\ path = {} /\ file = {} /\ evicted = {}
  /\ reader = [r \in Reader |-> NoReader]

Goto(e, l) == pc' = [pc EXCEPT ![e] = l]

-----------------------------------------------------------------------------
(* The coordinator *)

\* How many of n waiting exports are served when a slots are in use.
Serves(a, n) == IF n < MaxConcurrent - a THEN n ELSE MaxConcurrent - a

\* Mutation of Dispatch: one export too many is served.
DispatchOneMore(a, q, e, l) ==
  LET n == IF Len(q) < MaxConcurrent + 1 - a THEN Len(q) ELSE MaxConcurrent + 1 - a
  IN /\ active' = a + n
     /\ queue' = SubSeq(q, n + 1, Len(q))
     /\ pc' = [x \in Export |-> IF \E i \in 1..n : q[i] = x THEN "working"
                                ELSE IF x = e THEN l ELSE pc[x]]

\* With a slots in use and q in the queue, e goes to l and the first of q are
\* served while there are slots.
Dispatch(a, q, e, l) ==
  LET n == Serves(a, Len(q))
  IN /\ active' = a + n
     /\ queue' = SubSeq(q, n + 1, Len(q))
     /\ pc' = [x \in Export |-> IF \E i \in 1..n : q[i] = x THEN "working"
                                ELSE IF x = e THEN l ELSE pc[x]]

\* Mutation of Release: the next in the queue is not woken.
ReleaseOnly(e, l) ==
  /\ active' = active - 1
  /\ Goto(e, l)
  /\ UNCHANGED queue

\* e gives its slot back, and the next is served.
Release(e, l) == Dispatch(IF active = 0 THEN 0 ELSE active - 1, queue, e, l)

\* Slots and queue are taken.
Full == Len(queue) >= MaxQueue /\ active >= MaxConcurrent

-----------------------------------------------------------------------------
(* Exports *)

Completed == {e \in listed : status[e] # "running"}

\* The jobs deleted before a new one is listed: the oldest that have ended, until
\* there is room.
Pruned ==
  LET excess == Cardinality(listed) + 1
  IN {e \in Completed : Cardinality({f \in Completed : f <= e}) + MaxJobs <= excess}

\* The jobs of a set are deleted with their archives.  A job that is still
\* running names none yet.
Delete(jobs) ==
  /\ path' = path \ jobs
  /\ file' = file \ (path \cap jobs)
  /\ evicted' = evicted \cup {e \in jobs : status[e] = "running"}

Begin(e) ==
  /\ pc[e] = "new" /\ \A f \in Export : f < e => pc[f] # "new"
  /\ Goto(e, "begun")
  /\ \E k \in Kind :
       /\ kind' = [kind EXCEPT ![e] = k]
       /\ IF HasJob(k)
          THEN Delete(Pruned) /\ listed' = (listed \ Pruned) \cup {e}
          ELSE UNCHANGED <<listed, path, file, evicted>>
  /\ UNCHANGED <<active, queue, status, reader>>

\* There are no companies to export, or they cannot be read.
Abandon(e) ==
  /\ pc[e] = "begun"
  /\ HasArchive(kind[e])
  /\ Goto(e, "failed")
  /\ UNCHANGED <<active, queue, kind, status, listed, path, file, reader, evicted>>

\* The archive's file is created, and then a slot asked for.
Acquire(e) ==
  /\ pc[e] = "begun"
  /\ file' = IF HasArchive(kind[e]) THEN file \cup {e} ELSE file
  /\ IF Full
     THEN Goto(e, "failed") /\ UNCHANGED <<active, queue>>
     ELSE Dispatch(active, Append(queue, e), e, "waiting")
  /\ UNCHANGED <<kind, status, listed, path, reader, evicted>>

\* The wait for a slot times out.
TimeOut(e) ==
  /\ pc[e] = "waiting"
  /\ \E i \in DOMAIN queue : queue[i] = e /\ queue' = RemoveAt(queue, i)
  /\ Goto(e, "failed")
  /\ UNCHANGED <<active, kind, status, listed, path, file, reader, evicted>>

\* Where an export goes when its work has ended well.
AfterWork(e) ==
  IF kind[e] = "buffered" THEN "ended"
  ELSE IF kind[e] = "download" THEN "built" ELSE "sending"

\* Mutation of EndWork: the slot is not given back when the work throws.
EndWorkWithoutFinally(e) ==
  /\ pc[e] = "working"
  /\ \/ Release(e, AfterWork(e))
     \/ Goto(e, "failed") /\ UNCHANGED <<active, queue>>
  /\ UNCHANGED <<kind, status, listed, path, file, reader, evicted>>

\* The work of e ends, or throws.
EndWork(e) ==
  /\ pc[e] = "working"
  /\ \E l \in {AfterWork(e), "failed"} : Release(e, l)
  /\ UNCHANGED <<kind, status, listed, path, file, reader, evicted>>

\* Mutation of Fail: the unfinished archive is left where it is.
FailKeepingFile(e) ==
  /\ pc[e] = "failed"
  /\ Goto(e, "ended")
  /\ status' = [status EXCEPT ![e] = "error"]
  /\ UNCHANGED <<active, queue, kind, listed, path, file, reader, evicted>>

\* An export that was refused, timed out or failed removes its archive, and its
\* job fails.
Fail(e) ==
  /\ pc[e] = "failed"
  /\ Goto(e, "ended")
  /\ file' = file \ {e}
  /\ status' = [status EXCEPT ![e] = "error"]
  /\ UNCHANGED <<active, queue, kind, listed, path, reader, evicted>>

\* The archive is left with the job, whether or not that is still listed.
Offer(e) ==
  /\ pc[e] = "built"
  /\ Goto(e, "ended")
  /\ path' = path \cup {e}
  /\ status' = [status EXCEPT ![e] = "done"]
  /\ UNCHANGED <<active, queue, kind, listed, file, reader, evicted>>

\* The archive is sent, with retries, and the job ends; or the sending throws.
Send(e) ==
  /\ pc[e] = "sending"
  /\ Goto(e, "disposing")
  /\ \E s \in {"running", "done", "error"} : status' = [status EXCEPT ![e] = s]
  /\ UNCHANGED <<active, queue, kind, listed, path, file, reader, evicted>>

\* The archive is disposed of; if the sending threw, the job then fails.
Dispose(e) ==
  /\ pc[e] = "disposing"
  /\ Goto(e, "ended")
  /\ file' = file \ {e}
  /\ status' = [status EXCEPT ![e] = IF @ = "running" THEN "error" ELSE @]
  /\ UNCHANGED <<active, queue, kind, listed, path, reader, evicted>>

-----------------------------------------------------------------------------
(* Downloads *)

\* A request finds a job that names an archive.
Ask(r) ==
  /\ reader[r] = NoReader
  /\ \E e \in listed \cap path : reader' = [reader EXCEPT ![r] = [job |-> e, open |-> FALSE]]
  /\ UNCHANGED <<active, queue, pc, kind, status, listed, path, file, evicted>>

\* The archive is still there, and is opened: it can be read to its end, removed
\* or not.
Open(r) ==
  /\ reader[r].job \in file /\ ~reader[r].open
  /\ reader' = [reader EXCEPT ![r].open = TRUE]
  /\ UNCHANGED <<active, queue, pc, kind, status, listed, path, file, evicted>>

\* The archive was read, or was gone, or the client went: it is released.
Close(r) ==
  /\ reader[r] # NoReader
  /\ reader[r].open \/ reader[r].job \notin file
  /\ reader' = [reader EXCEPT ![r] = NoReader]
  /\ file' = file \ (path \cap {reader[r].job})
  /\ path' = path \ {reader[r].job}
  /\ UNCHANGED <<active, queue, pc, kind, status, listed, evicted>>

-----------------------------------------------------------------------------
\* The timer deletes the jobs older than half an hour, those that run as well.
CleanUp ==
  /\ \E n \in Export :
       LET old == {e \in listed : e <= n}
       IN old # {} /\ listed' = listed \ old /\ Delete(old)
  /\ UNCHANGED <<active, queue, pc, kind, status, reader>>

Restart ==
  /\ active' = 0 /\ queue' = <<>>
  /\ pc' = [e \in Export |-> IF pc[e] = "new" THEN "new" ELSE "ended"]
  /\ listed' = {} /\ path' = {} /\ file' = {} /\ evicted' = {}
  /\ reader' = [r \in Reader |-> NoReader]
  /\ UNCHANGED <<kind, status>>

\* What an export does of itself once it has begun.
Proceed(e) == Acquire(e) \/ EndWork(e) \/ Fail(e) \/ Offer(e) \/ Send(e) \/ Dispose(e)

Step(e) == Begin(e) \/ Abandon(e) \/ TimeOut(e) \/ Proceed(e)
Read(r) == Ask(r) \/ Open(r) \/ Close(r)

Next == (\E e \in Export : Step(e)) \/ (\E r \in Reader : Read(r)) \/ CleanUp \/ Restart

Spec == Init /\ [][Next]_vars

\* Every await of an export returns: queries and providers answer or time out.
\* That the wait for a slot ever times out is not assumed.
Fairness == \A e \in Export : WF_vars(Proceed(e))

FairSpec == Spec /\ Fairness

-----------------------------------------------------------------------------
TypeOK ==
  /\ active \in 0..MaxConcurrent
  /\ queue \in Seq(Export)
  /\ pc \in [Export -> Location]
  /\ kind \in [Export -> Kind]
  /\ status \in [Export -> {"running", "done", "error"}]
  /\ listed \subseteq Export /\ path \subseteq Export /\ file \subseteq Export
  /\ evicted \subseteq Export
  /\ reader \in [Reader -> [job : Export \cup {None}, open : BOOLEAN]]

At(l) == {e \in Export : pc[e] = l}

\* The coordinator's count is the number of exports at work, the queue holds those
\* that wait, each once, and is bounded, although an export is only refused when
\* the slots are taken as well; and nobody waits while a slot is free.
SlotsAreHeld ==
  /\ active = Cardinality(At("working"))
  /\ \A e \in Export : pc[e] = "waiting" <=> \E i \in DOMAIN queue : queue[i] = e
  /\ \A i, j \in DOMAIN queue : queue[i] = queue[j] => i = j
  /\ Len(queue) <= MaxQueue
  /\ queue # <<>> => active = MaxConcurrent

\* No archive accumulates on disk: it belongs to an export that goes on, or to a
\* listed job, unless the job was deleted from the list while it ran.  And the
\* archive a listed job offers is there.
ArchivesAreOwned ==
  /\ \A e \in file : pc[e] \in {"new", "ended"} => e \in path /\ e \in listed \cup evicted
  /\ path \cap listed \subseteq file

\* Every export that has begun ends; one that waits is served, without the help
\* of the timeout.
EveryExportEnds == \A e \in Export : pc[e] # "new" ~> pc[e] = "ended"

=============================================================================

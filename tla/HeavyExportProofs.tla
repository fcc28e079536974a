-------------------------- MODULE HeavyExportProofs --------------------------
(***************************************************************************)
(* Theorems about HeavyExport, for any number of slots, places, jobs,      *)
(* exports and readers.                                                    *)
(*                                                                         *)
(* Two arguments that do not need each other.  Slots is SlotsAreHeld in    *)
(* terms of any queue and any places (Queued, Counted), so that the lemmas *)
(* on what a dispatch does can be used for every action.  Archives says    *)
(* what is on disk at each place of an export, and that a job still at work *)
(* is listed or was evicted.                                               *)
(***************************************************************************)
EXTENDS HeavyExport, FiniteSetTheorems, SequenceTheorems, TLAPS

USE ExportAssumption

Places == [Export -> Location]

\* q holds the exports that wait, each once.
Queued(q, f) ==
  /\ \A e \in Export : f[e] = "waiting" <=> \E i \in DOMAIN q : q[i] = e
  /\ \A i, j \in DOMAIN q : q[i] = q[j] => i = j

AtWork(f) == {e \in Export : f[e] = "working"}

Counted(a, f) == a = Cardinality(AtWork(f))

Slots ==
  /\ Queued(queue, pc)
  /\ Counted(active, pc)
  /\ Len(queue) <= MaxQueue
  /\ queue # <<>> => active = MaxConcurrent

\* What is known of an export's archive, and of its job while it is at work.
ArchiveOf(e) ==
  /\ pc[e] = "new" => e \notin file /\ e \notin path /\ status[e] = "running"
  /\ e \in path => pc[e] = "ended"
  /\ e \in file => HasArchive(kind[e])
  /\ pc[e] \in {"waiting", "working"} /\ HasArchive(kind[e]) => e \in file
  /\ pc[e] = "built" => kind[e] = "download" /\ e \in file
  /\ pc[e] \in {"sending", "disposing"} => kind[e] # "download"
  /\ kind[e] = "download" /\ pc[e] \notin {"new", "ended"} =>
       status[e] = "running" /\ e \in listed \cup evicted
  /\ e \in file /\ pc[e] \in {"new", "ended"} => e \in path /\ e \in listed \cup evicted
  /\ e \in path /\ e \in listed => e \in file

Archives == \A e \in Export : ArchiveOf(e)

Inv == TypeOK /\ Slots /\ Archives

-----------------------------------------------------------------------------
(* The queue and the count *)

LEMMA QueueAppend ==
  ASSUME NEW q \in Seq(Export), NEW f \in Places, NEW e \in Export,
         Queued(q, f), f[e] # "waiting"
  PROVE  Queued(Append(q, e), [f EXCEPT ![e] = "waiting"])
<1>1. /\ Append(q, e) \in Seq(Export) /\ Len(Append(q, e)) = Len(q) + 1
      /\ \A i \in 1..Len(q) : Append(q, e)[i] = q[i]
      /\ Append(q, e)[Len(q) + 1] = e
      /\ DOMAIN q = 1..Len(q) /\ Len(q) \in Nat
      /\ DOMAIN Append(q, e) = 1..(Len(q) + 1)
  BY AppendProperties, LenProperties
<1>2. \A i \in DOMAIN q : q[i] # e
  BY DEF Queued
<1>3. \A i \in 1..(Len(q) + 1) : i \in 1..Len(q) \/ i = Len(q) + 1
  BY <1>1
<1>4. ASSUME NEW x \in Export
      PROVE  [f EXCEPT ![e] = "waiting"][x] = "waiting" <=>
               \E i \in DOMAIN Append(q, e) : Append(q, e)[i] = x
  <2>1. CASE x = e
    BY <1>1, <2>1 DEF Places
  <2>2. CASE x # e
    <3>1. [f EXCEPT ![e] = "waiting"][x] = f[x]
      BY <2>2 DEF Places
    <3>2. (\E i \in DOMAIN q : q[i] = x) <=> \E i \in DOMAIN Append(q, e) : Append(q, e)[i] = x
      BY <1>1, <1>3, <2>2
    <3> QED
      BY <3>1, <3>2 DEF Queued
  <2> QED
    BY <2>1, <2>2
<1>5. \A i, j \in DOMAIN Append(q, e) : Append(q, e)[i] = Append(q, e)[j] => i = j
  BY <1>1, <1>2, <1>3 DEF Queued
<1> QED
  BY <1>4, <1>5 DEF Queued

LEMMA QueueTail ==
  ASSUME NEW q \in Seq(Export), NEW f \in Places, Queued(q, f), q # <<>>
  PROVE  /\ Head(q) \in Export /\ f[Head(q)] = "waiting"
         /\ Tail(q) \in Seq(Export) /\ Len(Tail(q)) = Len(q) - 1
         /\ Queued(Tail(q), [f EXCEPT ![Head(q)] = "working"])
<1>1. /\ Tail(q) \in Seq(Export) /\ Len(Tail(q)) = Len(q) - 1
      /\ \A i \in 1..Len(Tail(q)) : Tail(q)[i] = q[i + 1]
      /\ Head(q) \in Export
      /\ DOMAIN q = 1..Len(q) /\ Len(q) \in Nat \ {0}
      /\ DOMAIN Tail(q) = 1..Len(Tail(q))
      /\ Head(q) = q[1]
  BY HeadTailProperties, LenProperties, EmptySeq
<1>2. f[Head(q)] = "waiting"
  BY <1>1 DEF Queued
<1>3. ASSUME NEW x \in Export
      PROVE  [f EXCEPT ![Head(q)] = "working"][x] = "waiting" <=>
               \E i \in DOMAIN Tail(q) : Tail(q)[i] = x
  <2>1. CASE x = Head(q)
    <3>1. [f EXCEPT ![Head(q)] = "working"][x] # "waiting"
      BY <2>1 DEF Places
    <3>2. ASSUME NEW i \in DOMAIN Tail(q), Tail(q)[i] = x
          PROVE  FALSE
      <4>1. i + 1 \in DOMAIN q /\ q[i + 1] = q[1] /\ 1 \in DOMAIN q /\ i + 1 # 1
        BY <1>1, <2>1, <3>2
      <4> QED
        BY <4>1 DEF Queued
    <3> QED
      BY <3>1, <3>2
  <2>2. CASE x # Head(q)
    <3>1. [f EXCEPT ![Head(q)] = "working"][x] = f[x]
      BY <2>2 DEF Places
    <3>2. ASSUME NEW i \in DOMAIN q, q[i] = x
          PROVE  \E j \in DOMAIN Tail(q) : Tail(q)[j] = x
      <4>1. i - 1 \in DOMAIN Tail(q) /\ Tail(q)[i - 1] = q[i]
        BY <1>1, <2>2, <3>2
      <4> QED
        BY <4>1, <3>2
    <3>3. ASSUME NEW i \in DOMAIN Tail(q), Tail(q)[i] = x
          PROVE  \E j \in DOMAIN q : q[j] = x
      <4>1. i + 1 \in DOMAIN q /\ q[i + 1] = x
        BY <1>1, <3>3
      <4> QED
        BY <4>1
    <3> QED
      BY <3>1, <3>2, <3>3 DEF Queued
  <2> QED
    BY <2>1, <2>2
<1>4. ASSUME NEW i \in DOMAIN Tail(q), NEW j \in DOMAIN Tail(q), Tail(q)[i] = Tail(q)[j]
      PROVE  i = j
  <2>1. i + 1 \in DOMAIN q /\ j + 1 \in DOMAIN q /\ q[i + 1] = q[j + 1]
    BY <1>1, <1>4
  <2>2. i + 1 = j + 1
    BY <2>1 DEF Queued
  <2> QED
    BY <2>2, <1>1
<1> QED
  BY <1>1, <1>2, <1>3, <1>4 DEF Queued

LEMMA QueueOther ==
  ASSUME NEW q, NEW f \in Places, NEW e \in Export, NEW l, Queued(q, f),
         f[e] # "waiting", l # "waiting"
  PROVE  Queued(q, [f EXCEPT ![e] = l])
BY DEF Queued, Places

LEMMA AtWorkIsFinite ==
  ASSUME NEW f
  PROVE  IsFiniteSet(AtWork(f))
<1>1. IsFiniteSet(Export)
  <2>1. 1 \in Int /\ MaxExports \in Int
    OBVIOUS
  <2> QED
    BY <2>1, FS_Interval DEF Export
<1>2. AtWork(f) \in SUBSET Export
  BY DEF AtWork
<1> QED
  BY <1>1, <1>2, FS_Subset

\* An export at work is counted.
LEMMA SomeAtWork ==
  ASSUME NEW f \in Places, NEW a, NEW e \in Export, Counted(a, f), f[e] = "working"
  PROVE  a \in Nat \ {0}
<1>1. e \in AtWork(f)
  BY DEF AtWork
<1> QED
  BY <1>1, AtWorkIsFinite, FS_EmptySet, FS_CardinalityType DEF Counted

\* One export starts to work, stops, or neither.
LEMMA CountMore ==
  ASSUME NEW f \in Places, NEW a, NEW e \in Export, Counted(a, f), f[e] # "working"
  PROVE  a \in Nat /\ Counted(a + 1, [f EXCEPT ![e] = "working"])
<1>1. IsFiniteSet(AtWork(f))
  BY AtWorkIsFinite
<1>2. AtWork([f EXCEPT ![e] = "working"]) = AtWork(f) \cup {e}
  BY DEF AtWork, Places
<1>3. e \notin AtWork(f)
  BY DEF AtWork
<1> QED
  BY <1>1, <1>2, <1>3, FS_AddElement, FS_CardinalityType DEF Counted

LEMMA CountLess ==
  ASSUME NEW f \in Places, NEW a, NEW e \in Export, NEW l, Counted(a, f),
         f[e] = "working", l # "working"
  PROVE  a \in Nat \ {0} /\ Counted(a - 1, [f EXCEPT ![e] = l])
<1>1. IsFiniteSet(AtWork(f))
  BY AtWorkIsFinite
<1>2. AtWork([f EXCEPT ![e] = l]) = AtWork(f) \ {e}
  BY DEF AtWork, Places
<1>3. e \in AtWork(f)
  BY DEF AtWork
<1> QED
  BY <1>1, <1>2, <1>3, SomeAtWork, FS_RemoveElement DEF Counted

LEMMA CountOther ==
  ASSUME NEW f \in Places, NEW a, NEW e \in Export, NEW l, Counted(a, f),
         f[e] # "working", l # "working"
  PROVE  Counted(a, [f EXCEPT ![e] = l])
<1>1. AtWork([f EXCEPT ![e] = l]) = AtWork(f)
  BY DEF AtWork, Places
<1> QED
  BY <1>1 DEF Counted

-----------------------------------------------------------------------------
(* What a dispatch does *)

\* An export that asks for a slot is queued, or served at once.
LEMMA Asked ==
  ASSUME TypeOK, Slots, NEW e \in Export,
         Dispatch(active, Append(queue, e), e, "waiting")
  PROVE  \/ /\ active = MaxConcurrent
            /\ active' = active /\ queue' = Append(queue, e)
            /\ pc' = [pc EXCEPT ![e] = "waiting"]
         \/ /\ active < MaxConcurrent /\ queue = <<>>
            /\ active' = active + 1 /\ queue' = <<>>
            /\ pc' = [pc EXCEPT ![e] = "working"]
<1> DEFINE q == Append(queue, e)
<1>1. /\ q \in Seq(Export) /\ Len(q) = Len(queue) + 1 /\ Len(queue) \in Nat
      /\ q[Len(queue) + 1] = e
  BY AppendProperties, LenProperties DEF TypeOK
<1>2. active \in Nat /\ active <= MaxConcurrent
  BY DEF TypeOK
<1>3. CASE active = MaxConcurrent
  <2>1. Serves(active, Len(q)) = 0
    BY <1>1, <1>2, <1>3 DEF Serves
  <2>2. active' = active
    BY <2>1, <1>2 DEF Dispatch
  <2>3. queue' = q
    BY <2>1, <1>1, SubSeqFull DEF Dispatch
  <2>4. pc' = [x \in Export |-> IF \E i \in 1..0 : q[i] = x THEN "working"
                                ELSE IF x = e THEN "waiting" ELSE pc[x]]
    BY <2>1 DEF Dispatch
  <2>5. pc' = [pc EXCEPT ![e] = "waiting"]
    <3>1. \A x : ~\E i \in 1..0 : q[i] = x
      OBVIOUS
    <3> QED
      BY <2>4, <3>1 DEF TypeOK
  <2> QED
    BY <1>3, <2>2, <2>3, <2>5
<1>4. CASE active # MaxConcurrent
  <2>1. queue = <<>> /\ Len(queue) = 0
    BY <1>4, EmptySeq DEF Slots
  <2>2. Len(q) = 1 /\ q[1] = e
    BY <1>1, <2>1
  <2>3. Serves(active, Len(q)) = 1
    BY <1>2, <1>4, <2>2 DEF Serves
  <2>4. active' = active + 1
    BY <2>3 DEF Dispatch
  <2>5. queue' = SubSeq(q, 2, 1)
    BY <2>3, <2>2 DEF Dispatch
  <2>6. queue' = <<>>
    BY <2>5, SubSeqEmpty
  <2>7. pc' = [x \in Export |-> IF \E i \in 1..1 : q[i] = x THEN "working"
                                ELSE IF x = e THEN "waiting" ELSE pc[x]]
    BY <2>3 DEF Dispatch
  <2>8. \A x \in Export : (\E i \in 1..1 : q[i] = x) <=> x = e
    BY <2>2
  <2>9. pc' = [pc EXCEPT ![e] = "working"]
    BY <2>7, <2>8 DEF TypeOK
  <2> QED
    BY <1>2, <1>4, <2>1, <2>4, <2>6, <2>9
<1> QED
  BY <1>3, <1>4

\* An export that ends its work frees its slot, or hands it to the first in the
\* queue.
LEMMA Released ==
  ASSUME TypeOK, Slots, NEW e \in Export, pc[e] = "working", NEW l, Release(e, l)
  PROVE  \/ /\ queue = <<>> /\ active' = active - 1 /\ queue' = <<>>
            /\ pc' = [pc EXCEPT ![e] = l]
         \/ /\ queue # <<>> /\ active' = active /\ queue' = Tail(queue)
            /\ pc' = [pc EXCEPT ![e] = l, ![Head(queue)] = "working"]
<1>1. active \in Nat \ {0} /\ active <= MaxConcurrent
  <2>1. pc \in Places /\ Counted(active, pc)
    BY DEF TypeOK, Slots, Places
  <2>2. active \in Nat \ {0}
    BY <2>1, SomeAtWork
  <2> QED
    BY <2>2 DEF TypeOK
<1>2. Dispatch(active - 1, queue, e, l)
  BY <1>1 DEF Release
<1>3. Len(queue) \in Nat /\ queue \in Seq(Export)
  BY LenProperties DEF TypeOK
<1>4. CASE queue = <<>>
  <2>1. Len(queue) = 0
    BY <1>4, EmptySeq
  <2>2. Serves(active - 1, Len(queue)) = 0
    BY <1>1, <2>1 DEF Serves
  <2>3. active' = active - 1
    BY <1>1, <1>2, <2>2 DEF Dispatch
  <2>4. queue' = SubSeq(queue, 1, 0)
    BY <1>2, <2>1, <2>2 DEF Dispatch
  <2>5. queue' = <<>>
    BY <2>4, SubSeqEmpty
  <2>6. pc' = [x \in Export |-> IF \E i \in 1..0 : queue[i] = x THEN "working"
                                ELSE IF x = e THEN l ELSE pc[x]]
    BY <1>2, <2>2 DEF Dispatch
  <2>7. pc' = [pc EXCEPT ![e] = l]
    <3>1. \A x : ~\E i \in 1..0 : queue[i] = x
      OBVIOUS
    <3> QED
      BY <2>6, <3>1 DEF TypeOK
  <2> QED
    BY <1>4, <2>3, <2>5, <2>7
<1>5. CASE queue # <<>>
  <2>1. Len(queue) \in Nat \ {0} /\ active = MaxConcurrent
    BY <1>3, <1>5, EmptySeq DEF Slots
  <2>2. Serves(active - 1, Len(queue)) = 1
    BY <1>1, <2>1 DEF Serves
  <2>3. active' = active
    BY <1>1, <1>2, <2>2 DEF Dispatch
  <2>4. queue' = SubSeq(queue, 2, Len(queue))
    BY <1>2, <2>2 DEF Dispatch
  <2>5. queue' = Tail(queue)
    BY <2>4, <1>3, <1>5, TailIsSubSeq
  <2>6. pc' = [x \in Export |-> IF \E i \in 1..1 : queue[i] = x THEN "working"
                                ELSE IF x = e THEN l ELSE pc[x]]
    BY <1>2, <2>2 DEF Dispatch
  <2>7. Head(queue) = queue[1]
    BY <1>3, <1>5
  <2>8. \A x : (\E i \in 1..1 : queue[i] = x) <=> x = Head(queue)
    BY <2>7
  <2>9. pc' = [pc EXCEPT ![e] = l, ![Head(queue)] = "working"]
    BY <2>6, <2>8 DEF TypeOK
  <2> QED
    BY <1>5, <2>3, <2>5, <2>9
<1> QED
  BY <1>4, <1>5

-----------------------------------------------------------------------------
(* Slots *)

\* An export goes on that neither waits nor works, to where it does neither.
LEMMA SlotsAside ==
  ASSUME TypeOK, Slots, NEW e \in Export, NEW l \in Location, Goto(e, l),
         pc[e] \notin {"waiting", "working"}, l \notin {"waiting", "working"},
         UNCHANGED <<active, queue>>
  PROVE  Slots'
<1>1. pc \in Places /\ pc' = [pc EXCEPT ![e] = l] /\ active' = active /\ queue' = queue
  BY DEF TypeOK, Places, Goto
<1>2. Queued(queue', pc')
  BY <1>1, QueueOther DEF Slots
<1>3. Counted(active', pc')
  BY <1>1, CountOther DEF Slots
<1> QED
  BY <1>1, <1>2, <1>3 DEF Slots

LEMMA SlotsAcquire ==
  ASSUME TypeOK, Slots, NEW e \in Export, pc[e] = "begun", ~Full,
         Dispatch(active, Append(queue, e), e, "waiting")
  PROVE  Slots' /\ active' \in 0..MaxConcurrent /\ queue' \in Seq(Export)
<1>1. pc \in Places /\ active \in Nat /\ active <= MaxConcurrent /\ queue \in Seq(Export)
  BY DEF TypeOK, Places
<1>2. CASE /\ active = MaxConcurrent
           /\ active' = active /\ queue' = Append(queue, e)
           /\ pc' = [pc EXCEPT ![e] = "waiting"]
  <2>1. Queued(queue', pc')
    BY <1>1, <1>2, QueueAppend DEF Slots
  <2>2. Counted(active', pc')
    BY <1>1, <1>2, CountOther DEF Slots
  <2>3. queue' \in Seq(Export) /\ Len(queue') = Len(queue) + 1 /\ Len(queue) \in Nat
    BY <1>1, <1>2, AppendProperties, LenProperties
  <2>4. Len(queue') <= MaxQueue
    BY <1>1, <1>2, <2>3 DEF Full
  <2> QED
    BY <1>1, <1>2, <2>1, <2>2, <2>3, <2>4 DEF Slots
<1>3. CASE /\ active < MaxConcurrent /\ queue = <<>>
           /\ active' = active + 1 /\ queue' = <<>>
           /\ pc' = [pc EXCEPT ![e] = "working"]
  <2>1. Queued(queue', pc')
    BY <1>1, <1>3, QueueOther DEF Slots
  <2>2. Counted(active', pc')
    BY <1>1, <1>3, CountMore DEF Slots
  <2>3. queue' \in Seq(Export) /\ Len(queue') <= MaxQueue
    BY <1>3, EmptySeq
  <2> QED
    BY <1>1, <1>3, <2>1, <2>2, <2>3 DEF Slots
<1> QED
  BY <1>2, <1>3, Asked

LEMMA SlotsRelease ==
  ASSUME TypeOK, Slots, NEW e \in Export, pc[e] = "working",
         NEW l \in Location \ {"waiting", "working"}, Release(e, l)
  PROVE  /\ Slots' /\ active' \in 0..MaxConcurrent /\ queue' \in Seq(Export)
         /\ pc'[e] = l
         /\ \A x \in Export \ {e} :
              pc'[x] = pc[x] \/ (pc[x] = "waiting" /\ pc'[x] = "working")
         /\ pc' \in Places
<1>1. /\ pc \in Places /\ active \in Nat /\ active <= MaxConcurrent /\ queue \in Seq(Export)
      /\ Counted(active, pc) /\ Queued(queue, pc)
  BY DEF TypeOK, Places, Slots
<1>2. CASE /\ queue = <<>> /\ active' = active - 1 /\ queue' = <<>>
           /\ pc' = [pc EXCEPT ![e] = l]
  <2>1. Queued(queue', pc')
    BY <1>1, <1>2, QueueOther
  <2>2. active \in Nat \ {0} /\ Counted(active', pc')
    BY <1>1, <1>2, CountLess
  <2>3. queue' \in Seq(Export) /\ Len(queue') <= MaxQueue
    BY <1>2, EmptySeq
  <2>4. Slots'
    BY <1>2, <2>1, <2>2, <2>3 DEF Slots
  <2>5. active' \in 0..MaxConcurrent
    BY <1>1, <1>2, <2>2
  <2> QED
    BY <1>1, <1>2, <2>3, <2>4, <2>5 DEF Places
<1>3. CASE /\ queue # <<>> /\ active' = active /\ queue' = Tail(queue)
           /\ pc' = [pc EXCEPT ![e] = l, ![Head(queue)] = "working"]
  <2> DEFINE f == [pc EXCEPT ![e] = l]
  <2>1. f \in Places
    BY <1>1 DEF Places
  <2>2. Queued(queue, f)
    BY <1>1, QueueOther
  <2>3. active \in Nat \ {0} /\ Counted(active - 1, f)
    BY <1>1, CountLess
  <2>4. /\ Head(queue) \in Export /\ f[Head(queue)] = "waiting"
        /\ Tail(queue) \in Seq(Export) /\ Len(Tail(queue)) = Len(queue) - 1
        /\ Queued(Tail(queue), [f EXCEPT ![Head(queue)] = "working"])
    BY <1>1, <1>3, <2>1, <2>2, QueueTail
  <2>5. pc' = [f EXCEPT ![Head(queue)] = "working"]
    BY <1>3
  <2>6. Counted((active - 1) + 1, pc')
    BY <2>1, <2>3, <2>4, <2>5, CountMore
  <2>7. Counted(active', pc')
    BY <2>3, <2>6, <1>3
  <2>8. Len(queue) \in Nat
    BY <1>1, LenProperties
  <2>9. Len(queue') <= MaxQueue /\ active' = MaxConcurrent
    BY <1>3, <2>4, <2>8 DEF Slots
  <2>10. Slots'
    BY <1>3, <2>4, <2>5, <2>7, <2>9 DEF Slots
  <2>11. Head(queue) # e /\ pc[Head(queue)] = "waiting"
    BY <1>1, <2>4 DEF Places
  <2>12. \A x \in Export : pc'[x] = IF x = Head(queue) THEN "working"
                                    ELSE IF x = e THEN l ELSE pc[x]
    BY <1>1, <2>4, <2>5 DEF Places
  <2>13. pc' \in Places
    BY <2>1, <2>4, <2>5 DEF Places, Location
  <2>14. active' \in 0..MaxConcurrent
    BY <1>1, <1>3
  <2>15. pc'[e] = l
    BY <2>11, <2>12
  <2>16. \A x \in Export \ {e} :
           pc'[x] = pc[x] \/ (pc[x] = "waiting" /\ pc'[x] = "working")
    BY <2>11, <2>12
  <2>17. queue' \in Seq(Export)
    BY <1>3, <2>4
  <2> QED
    BY <2>10, <2>13, <2>14, <2>15, <2>16, <2>17
<1> QED
  BY <1>2, <1>3, Released

\* An export that has timed out leaves the queue.
LEMMA SlotsTimeOut ==
  ASSUME TypeOK, Slots, NEW e \in Export, TimeOut(e)
  PROVE  Slots' /\ queue' \in Seq(Export)
<1>1. /\ pc \in Places /\ queue \in Seq(Export)
      /\ Counted(active, pc) /\ Queued(queue, pc)
  BY DEF TypeOK, Places, Slots
<1>2. PICK i \in DOMAIN queue : queue[i] = e /\ queue' = RemoveAt(queue, i)
  BY DEF TimeOut
<1>3. pc' = [pc EXCEPT ![e] = "failed"] /\ active' = active /\ pc[e] = "waiting"
  BY DEF TimeOut, Goto
<1>4. Len(queue) \in Nat /\ DOMAIN queue = 1..Len(queue) /\ i \in 1..Len(queue)
  BY <1>1, <1>2, LenProperties
<1> DEFINE s == SubSeq(queue, 1, i - 1)
           t == SubSeq(queue, i + 1, Len(queue))
<1>5. /\ s \in Seq(Export) /\ Len(s) = i - 1
      /\ \A j \in 1..(i - 1) : s[j] = queue[j]
  <2>1. 1 \in Int /\ i - 1 \in Int /\ \A j \in 1..(i - 1) : queue[j] \in Export
    BY <1>1, <1>4, ElementOfSeq
  <2>2. /\ s \in Seq(Export) /\ Len(s) = IF 1 <= i - 1 THEN (i - 1) - 1 + 1 ELSE 0
        /\ \A j \in 1..((i - 1) - 1 + 1) : s[j] = queue[1 + j - 1]
    BY <2>1, SubSeqProperties
  <2> QED
    BY <2>2, <1>4
<1>6. /\ t \in Seq(Export) /\ Len(t) = Len(queue) - i
      /\ \A j \in 1..(Len(queue) - i) : t[j] = queue[i + j]
  <2>1. i + 1 \in Int /\ Len(queue) \in Int /\ \A j \in (i + 1)..Len(queue) : queue[j] \in Export
    BY <1>1, <1>4, ElementOfSeq
  <2>2. /\ t \in Seq(Export)
        /\ Len(t) = IF i + 1 <= Len(queue) THEN Len(queue) - (i + 1) + 1 ELSE 0
        /\ \A j \in 1..(Len(queue) - (i + 1) + 1) : t[j] = queue[(i + 1) + j - 1]
    BY <2>1, SubSeqProperties
  <2> QED
    BY <2>2, <1>4
<1>7. /\ queue' \in Seq(Export) /\ Len(queue') = Len(queue) - 1
      /\ \A j \in 1..(Len(queue) - 1) : queue'[j] = queue[IF j < i THEN j ELSE j + 1]
  <2>1. queue' = s \o t
    BY <1>2 DEF RemoveAt
  <2>2. /\ s \o t \in Seq(Export) /\ Len(s \o t) = Len(s) + Len(t)
        /\ \A j \in 1..(Len(s) + Len(t)) :
             (s \o t)[j] = IF j <= Len(s) THEN s[j] ELSE t[j - Len(s)]
    BY <1>5, <1>6, ConcatProperties
  <2>3. Len(s) + Len(t) = Len(queue) - 1
    BY <1>4, <1>5, <1>6
  <2>4. ASSUME NEW j \in 1..(Len(queue) - 1)
        PROVE  queue'[j] = queue[IF j < i THEN j ELSE j + 1]
    <3>1. CASE j < i
      BY <1>4, <1>5, <2>1, <2>2, <2>3, <3>1
    <3>2. CASE ~(j < i)
      <4>1. queue'[j] = t[j - (i - 1)]
        <5>1. j \in 1..(Len(s) + Len(t)) /\ ~(j <= Len(s))
          <6>1. j \in 1..(Len(s) + Len(t))
            BY <2>3
          <6>2. Len(s) = i - 1
            BY <1>5
          <6>3. j \in Int /\ i \in Int
            BY <1>4
          <6> HIDE DEF s, t
          <6> QED
            BY <3>2, <6>1, <6>2, <6>3
        <5>2. (s \o t)[j] = t[j - Len(s)]
          BY <2>2, <5>1
        <5> QED
          BY <1>5, <2>1, <5>2
      <4>2. j - (i - 1) \in 1..(Len(queue) - i) /\ i + (j - (i - 1)) = j + 1
        BY <1>4, <3>2
      <4> QED
        BY <1>6, <3>2, <4>1, <4>2
    <3> QED
      BY <3>1, <3>2
  <2> QED
    BY <2>1, <2>2, <2>3, <2>4
<1>8. DOMAIN queue' = 1..(Len(queue) - 1)
  BY <1>7, LenProperties
<1>9. \A j, k \in DOMAIN queue : queue[j] = queue[k] => j = k
  BY <1>1 DEF Queued
<1>10. ASSUME NEW x \in Export
       PROVE  pc'[x] = "waiting" <=> \E j \in DOMAIN queue' : queue'[j] = x
  <2>1. ASSUME NEW j \in DOMAIN queue', queue'[j] = x
        PROVE  x # e /\ \E k \in DOMAIN queue : queue[k] = x
    <3> DEFINE k == IF j < i THEN j ELSE j + 1
    <3>1. k \in DOMAIN queue /\ k # i /\ queue[k] = x
      BY <1>4, <1>7, <1>8, <2>1
    <3> QED
      BY <1>2, <1>9, <3>1
  <2>2. ASSUME NEW k \in DOMAIN queue, queue[k] = x, x # e
        PROVE  \E j \in DOMAIN queue' : queue'[j] = x
    <3> DEFINE j == IF k < i THEN k ELSE k - 1
    <3>1. k # i /\ k \in Nat
      BY <1>2, <1>4, <2>2
    <3>2. j \in DOMAIN queue' /\ (IF j < i THEN j ELSE j + 1) = k
      BY <1>4, <1>8, <3>1
    <3>3. queue'[j] = x
      BY <1>7, <1>8, <2>2, <3>2
    <3> QED
      BY <3>2, <3>3
  <2>3. x # e => pc'[x] = pc[x]
    BY <1>1, <1>3 DEF Places
  <2>4. pc'[e] # "waiting"
    BY <1>1, <1>3 DEF Places
  <2>5. pc[x] = "waiting" <=> \E k \in DOMAIN queue : queue[k] = x
    BY <1>1 DEF Queued
  <2> QED
    BY <2>1, <2>2, <2>3, <2>4, <2>5
<1>11. ASSUME NEW j \in DOMAIN queue', NEW k \in DOMAIN queue', queue'[j] = queue'[k]
       PROVE  j = k
  <2> DEFINE j2 == IF j < i THEN j ELSE j + 1
             k2 == IF k < i THEN k ELSE k + 1
  <2>1. j2 \in DOMAIN queue /\ k2 \in DOMAIN queue
    BY <1>4, <1>8
  <2>2. queue[j2] = queue[k2]
    BY <1>7, <1>8, <1>11
  <2>3. j2 = k2
    BY <1>9, <2>1, <2>2
  <2> QED
    BY <1>4, <1>8, <2>3
<1>12. Queued(queue', pc')
  BY <1>10, <1>11 DEF Queued
<1>13. Counted(active', pc')
  BY <1>1, <1>3, CountOther
<1>14. queue # <<>>
  BY <1>2, <1>4, EmptySeq
<1> QED
  BY <1>3, <1>4, <1>7, <1>12, <1>13, <1>14 DEF Slots

LEMMA SlotsRestart ==
  ASSUME TypeOK, Slots, Restart
  PROVE  Slots'
<1>1. active' = 0 /\ queue' = <<>> /\ \A e \in Export : pc'[e] \in {"new", "ended"}
  BY DEF Restart
<1>2. AtWork(pc') = {}
  BY <1>1 DEF AtWork
<1>3. Counted(active', pc')
  BY <1>1, <1>2, FS_EmptySet DEF Counted
<1>4. Queued(queue', pc')
  BY <1>1 DEF Queued
<1>5. Len(queue') <= MaxQueue
  BY <1>1, EmptySeq
<1> QED
  BY <1>1, <1>3, <1>4, <1>5 DEF Slots

-----------------------------------------------------------------------------
(* The actions *)

LEMMA GotoTyped ==
  ASSUME TypeOK, NEW e \in Export, NEW l \in Location, Goto(e, l)
  PROVE  /\ pc' \in [Export -> Location] /\ pc'[e] = l
         /\ \A x \in Export \ {e} : pc'[x] = pc[x]
BY DEF TypeOK, Goto

\* Jobs are deleted that are listed, with the archives of those that name one.
LEMMA Deleted ==
  ASSUME TypeOK, Archives, NEW jobs \in SUBSET listed, Delete(jobs)
  PROVE  /\ path' \subseteq Export /\ file' \subseteq Export /\ evicted' \subseteq Export
         /\ \A x \in Export :
              /\ x \in path' <=> x \in path /\ x \notin jobs
              /\ x \in file' <=> x \in file /\ ~(x \in path /\ x \in jobs)
              /\ x \in evicted' <=> x \in evicted \/ (x \in jobs /\ status[x] = "running")
BY DEF TypeOK, Delete

LEMMA InvBegin ==
  ASSUME Inv, NEW e \in Export, Begin(e)
  PROVE  Inv'
<1>1. TypeOK /\ Slots /\ Archives /\ pc[e] = "new" /\ Goto(e, "begun") /\ "begun" \in Location
  BY DEF Inv, Begin, Location
<1>2. /\ pc' \in [Export -> Location] /\ pc'[e] = "begun"
      /\ \A x \in Export \ {e} : pc'[x] = pc[x]
  BY <1>1, GotoTyped
<1>3. UNCHANGED <<active, queue>> /\ status' = status /\ reader' = reader
  BY DEF Begin
<1>4. Slots'
  BY <1>1, <1>3, SlotsAside
<1>5. PICK k \in Kind :
        /\ kind' = [kind EXCEPT ![e] = k]
        /\ IF HasJob(k)
           THEN Delete(Pruned) /\ listed' = (listed \ Pruned) \cup {e}
           ELSE UNCHANGED <<listed, path, file, evicted>>
  BY DEF Begin
<1>6. kind' \in [Export -> Kind] /\ kind'[e] = k /\ \A x \in Export \ {e} : kind'[x] = kind[x]
  BY <1>1, <1>5 DEF TypeOK
<1>7. Pruned \in SUBSET listed
  BY DEF Pruned, Completed
<1>8. CASE HasJob(k)
  <2>1. Delete(Pruned) /\ listed' = (listed \ Pruned) \cup {e}
    BY <1>5, <1>8
  <2>2. /\ path' \subseteq Export /\ file' \subseteq Export /\ evicted' \subseteq Export
        /\ \A x \in Export :
             /\ x \in path' <=> x \in path /\ x \notin Pruned
             /\ x \in file' <=> x \in file /\ ~(x \in path /\ x \in Pruned)
             /\ x \in evicted' <=> x \in evicted \/ (x \in Pruned /\ status[x] = "running")
    BY <1>1, <1>7, <2>1, Deleted
  <2>3. TypeOK'
    BY <1>1, <1>2, <1>3, <1>6, <2>1, <2>2 DEF TypeOK
  <2>4. ASSUME NEW x \in Export
        PROVE  ArchiveOf(x)'
    <3>1. CASE x = e
      BY <1>1, <1>2, <1>3, <1>6, <2>1, <2>2, <3>1 DEF Archives, ArchiveOf, TypeOK
    <3>2. CASE x # e
      BY <1>1, <1>2, <1>3, <1>6, <1>7, <2>1, <2>2, <3>2 DEF Archives, ArchiveOf, HasArchive
    <3> QED
      BY <3>1, <3>2
  <2> QED
    BY <1>4, <2>3, <2>4 DEF Inv, Archives
<1>9. CASE ~HasJob(k)
  <2>1. UNCHANGED <<listed, path, file, evicted>>
    BY <1>5, <1>9
  <2>2. TypeOK'
    BY <1>1, <1>2, <1>3, <1>6, <2>1 DEF TypeOK
  <2>3. k # "download"
    BY <1>9 DEF HasJob
  <2>4. ASSUME NEW x \in Export
        PROVE  ArchiveOf(x)'
    <3>1. CASE x = e
      BY <1>1, <1>2, <1>3, <1>6, <2>1, <2>3, <3>1 DEF Archives, ArchiveOf
    <3>2. CASE x # e
      BY <1>1, <1>2, <1>3, <1>6, <2>1, <3>2 DEF Archives, ArchiveOf, HasArchive
    <3> QED
      BY <3>1, <3>2
  <2> QED
    BY <1>4, <2>2, <2>4 DEF Inv, Archives
<1> QED
  BY <1>8, <1>9

LEMMA InvAbandon ==
  ASSUME Inv, NEW e \in Export, Abandon(e)
  PROVE  Inv'
<1>1. /\ TypeOK /\ Slots /\ Archives /\ pc[e] = "begun" /\ Goto(e, "failed")
      /\ "failed" \in Location
  BY DEF Inv, Abandon, Location
<1>2. /\ pc' \in [Export -> Location] /\ pc'[e] = "failed"
      /\ \A x \in Export \ {e} : pc'[x] = pc[x]
  BY <1>1, GotoTyped
<1>3. UNCHANGED <<active, queue, kind, status, listed, path, file, reader, evicted>>
  BY DEF Abandon
<1>4. Slots'
  BY <1>1, <1>3, SlotsAside
<1>5. TypeOK'
  BY <1>1, <1>2, <1>3 DEF TypeOK
<1>6. ASSUME NEW x \in Export
      PROVE  ArchiveOf(x)'
  BY <1>1, <1>2, <1>3 DEF Archives, ArchiveOf, HasArchive
<1> QED
  BY <1>4, <1>5, <1>6 DEF Inv, Archives

LEMMA InvAcquire ==
  ASSUME Inv, NEW e \in Export, Acquire(e)
  PROVE  Inv'
<1>1. TypeOK /\ Slots /\ Archives /\ pc[e] = "begun"
  BY DEF Inv, Acquire
<1>2. UNCHANGED <<kind, status, listed, path, reader, evicted>>
  BY DEF Acquire
<1>3. \A x \in Export : x \in file' <=> x \in file \/ (x = e /\ HasArchive(kind[e]))
  BY DEF Acquire
<1>4. file' \subseteq Export
  BY <1>1 DEF Acquire, TypeOK
<1>5. /\ Slots' /\ active' \in 0..MaxConcurrent /\ queue' \in Seq(Export)
      /\ pc' \in [Export -> Location] /\ pc'[e] \in {"failed", "waiting", "working"}
      /\ \A x \in Export \ {e} : pc'[x] = pc[x]
  <2>1. CASE Full
    <3>1. Goto(e, "failed") /\ UNCHANGED <<active, queue>> /\ "failed" \in Location
      BY <2>1 DEF Acquire, Location
    <3>2. Slots'
      BY <1>1, <3>1, SlotsAside
    <3> QED
      BY <1>1, <3>1, <3>2, GotoTyped DEF TypeOK
  <2>2. CASE ~Full
    <3>1. Dispatch(active, Append(queue, e), e, "waiting")
      BY <2>2 DEF Acquire
    <3>2. Slots' /\ active' \in 0..MaxConcurrent /\ queue' \in Seq(Export)
      BY <1>1, <2>2, <3>1, SlotsAcquire
    <3>3. pc' = [pc EXCEPT ![e] = "waiting"] \/ pc' = [pc EXCEPT ![e] = "working"]
      BY <1>1, <3>1, Asked
    <3>4. pc \in [Export -> Location] /\ "waiting" \in Location /\ "working" \in Location
      BY <1>1 DEF TypeOK, Location
    <3> QED
      BY <3>2, <3>3, <3>4
  <2> QED
    BY <2>1, <2>2
<1>6. TypeOK'
  BY <1>1, <1>2, <1>4, <1>5 DEF TypeOK
<1>7. ASSUME NEW x \in Export
      PROVE  ArchiveOf(x)'
  <2>1. CASE x = e
    BY <1>1, <1>2, <1>3, <1>5, <2>1 DEF Archives, ArchiveOf, HasArchive
  <2>2. CASE x # e
    BY <1>1, <1>2, <1>3, <1>5, <2>2 DEF Archives, ArchiveOf, HasArchive
  <2> QED
    BY <2>1, <2>2
<1> QED
  BY <1>5, <1>6, <1>7 DEF Inv, Archives

LEMMA InvTimeOut ==
  ASSUME Inv, NEW e \in Export, TimeOut(e)
  PROVE  Inv'
<1>1. /\ TypeOK /\ Slots /\ Archives /\ pc[e] = "waiting" /\ Goto(e, "failed")
      /\ "failed" \in Location
  BY DEF Inv, TimeOut, Location
<1>2. /\ pc' \in [Export -> Location] /\ pc'[e] = "failed"
      /\ \A x \in Export \ {e} : pc'[x] = pc[x]
  BY <1>1, GotoTyped
<1>3. UNCHANGED <<active, kind, status, listed, path, file, reader, evicted>>
  BY DEF TimeOut
<1>4. Slots' /\ queue' \in Seq(Export)
  BY <1>1, SlotsTimeOut
<1>5. TypeOK'
  BY <1>1, <1>2, <1>3, <1>4 DEF TypeOK
<1>6. ASSUME NEW x \in Export
      PROVE  ArchiveOf(x)'
  BY <1>1, <1>2, <1>3 DEF Archives, ArchiveOf, HasArchive
<1> QED
  BY <1>4, <1>5, <1>6 DEF Inv, Archives

LEMMA InvEndWork ==
  ASSUME Inv, NEW e \in Export, EndWork(e)
  PROVE  Inv'
<1>1. TypeOK /\ Slots /\ Archives /\ pc[e] = "working"
  BY DEF Inv, EndWork
<1>2. UNCHANGED <<kind, status, listed, path, file, reader, evicted>>
  BY DEF EndWork
<1>3. PICK l \in {AfterWork(e), "failed"} : Release(e, l)
  BY DEF EndWork
<1>4. l \in Location \ {"waiting", "working"} /\ l # "new" /\ (l = "built" => kind[e] = "download")
      /\ (l = "ended" => kind[e] = "buffered") /\ (l = "sending" => kind[e] # "download")
      /\ l # "disposing"
  BY <1>1 DEF AfterWork, Location, TypeOK, Kind
<1>5. /\ Slots' /\ active' \in 0..MaxConcurrent /\ queue' \in Seq(Export)
      /\ pc'[e] = l
      /\ \A x \in Export \ {e} :
           pc'[x] = pc[x] \/ (pc[x] = "waiting" /\ pc'[x] = "working")
      /\ pc' \in Places
  BY <1>1, <1>3, <1>4, SlotsRelease
<1>6. TypeOK'
  BY <1>1, <1>2, <1>5 DEF TypeOK, Places
<1>7. ASSUME NEW x \in Export
      PROVE  ArchiveOf(x)'
  <2>1. CASE x = e
    BY <1>1, <1>2, <1>4, <1>5, <2>1 DEF Archives, ArchiveOf, HasArchive
  <2>2. CASE x # e
    BY <1>1, <1>2, <1>5, <2>2 DEF Archives, ArchiveOf, HasArchive
  <2> QED
    BY <2>1, <2>2
<1> QED
  BY <1>5, <1>6, <1>7 DEF Inv, Archives

LEMMA InvFail ==
  ASSUME Inv, NEW e \in Export, Fail(e)
  PROVE  Inv'
<1>1. /\ TypeOK /\ Slots /\ Archives /\ pc[e] = "failed" /\ Goto(e, "ended")
      /\ "ended" \in Location
  BY DEF Inv, Fail, Location
<1>2. /\ pc' \in [Export -> Location] /\ pc'[e] = "ended"
      /\ \A x \in Export \ {e} : pc'[x] = pc[x]
  BY <1>1, GotoTyped
<1>3. UNCHANGED <<active, queue, kind, listed, path, reader, evicted>>
  BY DEF Fail
<1>4. Slots'
  BY <1>1, <1>3, SlotsAside
<1>5. /\ file' = file \ {e}
      /\ status' \in [Export -> {"running", "done", "error"}]
      /\ \A x \in Export \ {e} : status'[x] = status[x]
  BY <1>1 DEF Fail, TypeOK
<1>6. TypeOK'
  BY <1>1, <1>2, <1>3, <1>5 DEF TypeOK
<1>7. ASSUME NEW x \in Export
      PROVE  ArchiveOf(x)'
  <2>1. CASE x = e
    BY <1>1, <1>2, <1>3, <1>5, <2>1 DEF Archives, ArchiveOf
  <2>2. CASE x # e
    BY <1>1, <1>2, <1>3, <1>5, <2>2 DEF Archives, ArchiveOf, HasArchive
  <2> QED
    BY <2>1, <2>2
<1> QED
  BY <1>4, <1>6, <1>7 DEF Inv, Archives

LEMMA InvOffer ==
  ASSUME Inv, NEW e \in Export, Offer(e)
  PROVE  Inv'
<1>1. /\ TypeOK /\ Slots /\ Archives /\ pc[e] = "built" /\ Goto(e, "ended")
      /\ "ended" \in Location
  BY DEF Inv, Offer, Location
<1>2. /\ pc' \in [Export -> Location] /\ pc'[e] = "ended"
      /\ \A x \in Export \ {e} : pc'[x] = pc[x]
  BY <1>1, GotoTyped
<1>3. UNCHANGED <<active, queue, kind, listed, file, reader, evicted>>
  BY DEF Offer
<1>4. Slots'
  BY <1>1, <1>3, SlotsAside
<1>5. /\ path' = path \cup {e}
      /\ status' \in [Export -> {"running", "done", "error"}]
      /\ \A x \in Export \ {e} : status'[x] = status[x]
  BY <1>1 DEF Offer, TypeOK
<1>6. TypeOK'
  BY <1>1, <1>2, <1>3, <1>5 DEF TypeOK
<1>7. ASSUME NEW x \in Export
      PROVE  ArchiveOf(x)'
  <2>1. CASE x = e
    BY <1>1, <1>2, <1>3, <1>5, <2>1 DEF Archives, ArchiveOf, HasArchive
  <2>2. CASE x # e
    BY <1>1, <1>2, <1>3, <1>5, <2>2 DEF Archives, ArchiveOf, HasArchive
  <2> QED
    BY <2>1, <2>2
<1> QED
  BY <1>4, <1>6, <1>7 DEF Inv, Archives

LEMMA InvSend ==
  ASSUME Inv, NEW e \in Export, Send(e)
  PROVE  Inv'
<1>1. /\ TypeOK /\ Slots /\ Archives /\ pc[e] = "sending" /\ Goto(e, "disposing")
      /\ "disposing" \in Location
  BY DEF Inv, Send, Location
<1>2. /\ pc' \in [Export -> Location] /\ pc'[e] = "disposing"
      /\ \A x \in Export \ {e} : pc'[x] = pc[x]
  BY <1>1, GotoTyped
<1>3. UNCHANGED <<active, queue, kind, listed, path, file, reader, evicted>>
  BY DEF Send
<1>4. Slots'
  BY <1>1, <1>3, SlotsAside
<1>5. /\ status' \in [Export -> {"running", "done", "error"}]
      /\ \A x \in Export \ {e} : status'[x] = status[x]
  BY <1>1 DEF Send, TypeOK
<1>6. TypeOK'
  BY <1>1, <1>2, <1>3, <1>5 DEF TypeOK
<1>7. ASSUME NEW x \in Export
      PROVE  ArchiveOf(x)'
  <2>1. CASE x = e
    BY <1>1, <1>2, <1>3, <1>5, <2>1 DEF Archives, ArchiveOf, HasArchive
  <2>2. CASE x # e
    BY <1>1, <1>2, <1>3, <1>5, <2>2 DEF Archives, ArchiveOf, HasArchive
  <2> QED
    BY <2>1, <2>2
<1> QED
  BY <1>4, <1>6, <1>7 DEF Inv, Archives

LEMMA InvDispose ==
  ASSUME Inv, NEW e \in Export, Dispose(e)
  PROVE  Inv'
<1>1. /\ TypeOK /\ Slots /\ Archives /\ pc[e] = "disposing" /\ Goto(e, "ended")
      /\ "ended" \in Location
  BY DEF Inv, Dispose, Location
<1>2. /\ pc' \in [Export -> Location] /\ pc'[e] = "ended"
      /\ \A x \in Export \ {e} : pc'[x] = pc[x]
  BY <1>1, GotoTyped
<1>3. UNCHANGED <<active, queue, kind, listed, path, reader, evicted>>
  BY DEF Dispose
<1>4. Slots'
  BY <1>1, <1>3, SlotsAside
<1>5. /\ file' = file \ {e}
      /\ status' \in [Export -> {"running", "done", "error"}]
      /\ \A x \in Export \ {e} : status'[x] = status[x]
  BY <1>1 DEF Dispose, TypeOK
<1>6. TypeOK'
  BY <1>1, <1>2, <1>3, <1>5 DEF TypeOK
<1>7. ASSUME NEW x \in Export
      PROVE  ArchiveOf(x)'
  <2>1. CASE x = e
    BY <1>1, <1>2, <1>3, <1>5, <2>1 DEF Archives, ArchiveOf
  <2>2. CASE x # e
    BY <1>1, <1>2, <1>3, <1>5, <2>2 DEF Archives, ArchiveOf, HasArchive
  <2> QED
    BY <2>1, <2>2
<1> QED
  BY <1>4, <1>6, <1>7 DEF Inv, Archives

\* The slots are as they were when no export moves.
LEMMA SlotsStill ==
  ASSUME Slots, UNCHANGED <<active, queue, pc>>
  PROVE  Slots'
BY DEF Slots, Queued, Counted, AtWork

LEMMA InvRead ==
  ASSUME Inv, NEW r \in Reader, Read(r)
  PROVE  Inv'
<1>1. TypeOK /\ Slots /\ Archives
  BY DEF Inv
<1>2. UNCHANGED <<active, queue, pc, kind, status, listed, evicted>>
  BY DEF Read, Ask, Open, Close
<1>3. Slots'
  BY <1>1, <1>2, SlotsStill
<1>4. reader' \in [Reader -> [job : Export \cup {None}, open : BOOLEAN]]
  <2>1. CASE Ask(r)
    BY <1>1, <2>1 DEF Ask, TypeOK
  <2>2. CASE Open(r)
    BY <1>1, <2>2 DEF Open, TypeOK
  <2>3. CASE Close(r)
    BY <1>1, <2>3 DEF Close, TypeOK, NoReader
  <2> QED
    BY <2>1, <2>2, <2>3 DEF Read
<1>5. \E jobs : /\ path' = path \ jobs
                /\ file' = file \ (path \cap jobs)
  <2>1. CASE Ask(r) \/ Open(r)
    <3>1. path' = path \ {} /\ file' = file \ (path \cap {})
      BY <2>1 DEF Ask, Open
    <3> QED
      BY <3>1
  <2>2. CASE Close(r)
    BY <2>2 DEF Close
  <2> QED
    BY <2>1, <2>2 DEF Read
<1>6. PICK jobs : path' = path \ jobs /\ file' = file \ (path \cap jobs)
  BY <1>5
<1>7. TypeOK'
  BY <1>1, <1>2, <1>4, <1>6 DEF TypeOK
<1>8. ASSUME NEW x \in Export
      PROVE  ArchiveOf(x)'
  BY <1>1, <1>2, <1>6 DEF Archives, ArchiveOf, HasArchive
<1> QED
  BY <1>3, <1>7, <1>8 DEF Inv, Archives

LEMMA InvCleanUp ==
  ASSUME Inv, CleanUp
  PROVE  Inv'
<1>1. TypeOK /\ Slots /\ Archives
  BY DEF Inv
<1>2. UNCHANGED <<active, queue, pc, kind, status, reader>>
  BY DEF CleanUp
<1>3. Slots'
  BY <1>1, <1>2, SlotsStill
<1>4. PICK n \in Export : /\ listed' = listed \ {e \in listed : e <= n}
                          /\ Delete({e \in listed : e <= n})
  BY DEF CleanUp
<1> DEFINE old == {e \in listed : e <= n}
<1>5. /\ path' \subseteq Export /\ file' \subseteq Export /\ evicted' \subseteq Export
      /\ \A x \in Export :
           /\ x \in path' <=> x \in path /\ x \notin old
           /\ x \in file' <=> x \in file /\ ~(x \in path /\ x \in old)
           /\ x \in evicted' <=> x \in evicted \/ (x \in old /\ status[x] = "running")
  <2>1. old \in SUBSET listed /\ Delete(old)
    BY <1>4
  <2> HIDE DEF old
  <2> QED
    BY <1>1, <2>1, Deleted
<1>6. \A x : x \in listed' <=> x \in listed /\ x \notin old
  BY <1>4
<1> HIDE DEF old
<1>7. listed' \subseteq Export
  BY <1>1, <1>6 DEF TypeOK
<1>8. TypeOK'
  BY <1>1, <1>2, <1>5, <1>7 DEF TypeOK
<1>9. ASSUME NEW x \in Export
      PROVE  ArchiveOf(x)'
  BY <1>1, <1>2, <1>5, <1>6 DEF Archives, ArchiveOf, HasArchive
<1> QED
  BY <1>3, <1>8, <1>9 DEF Inv, Archives

LEMMA InvRestart ==
  ASSUME Inv, Restart
  PROVE  Inv'
<1>1. TypeOK /\ Slots /\ Archives
  BY DEF Inv
<1>2. Slots'
  BY <1>1, SlotsRestart
<1>3. /\ active' = 0 /\ queue' = <<>>
      /\ pc' \in [Export -> {"new", "ended"}]
      /\ \A x \in Export : pc'[x] = "new" => pc[x] = "new"
      /\ listed' = {} /\ path' = {} /\ file' = {} /\ evicted' = {}
      /\ kind' = kind /\ status' = status
  BY DEF Restart
<1>4. reader' \in [Reader -> [job : Export \cup {None}, open : BOOLEAN]]
  BY DEF Restart, NoReader
<1>5. pc' \in [Export -> Location]
  BY <1>3 DEF Location
<1>6. queue' \in Seq(Export) /\ active' \in 0..MaxConcurrent
  BY <1>3, EmptySeq
<1>7. TypeOK'
  BY <1>1, <1>3, <1>4, <1>5, <1>6 DEF TypeOK
<1>8. ASSUME NEW x \in Export
      PROVE  ArchiveOf(x)'
  <2>1. pc'[x] \in {"new", "ended"}
    BY <1>3
  <2> QED
    BY <1>1, <1>3, <2>1 DEF Archives, ArchiveOf
<1> QED
  BY <1>2, <1>7, <1>8 DEF Inv, Archives

LEMMA InvInit ==
  ASSUME Init
  PROVE  Inv
<1>1. \A e \in Export : pc[e] = "new"
  BY DEF Init
<1>2. AtWork(pc) = {}
  BY <1>1 DEF AtWork
<1>3. Counted(active, pc)
  BY <1>2, FS_EmptySet DEF Counted, Init
<1>4. Queued(queue, pc)
  BY <1>1 DEF Queued, Init
<1>5. queue = <<>> /\ queue \in Seq(Export) /\ Len(queue) <= MaxQueue
  BY EmptySeq DEF Init
<1>6. Slots
  BY <1>3, <1>4, <1>5 DEF Slots
<1>7. TypeOK
  BY <1>5 DEF Init, TypeOK, Location, Kind, NoReader
<1>8. Archives
  BY <1>1 DEF Init, Archives, ArchiveOf
<1> QED
  BY <1>6, <1>7, <1>8 DEF Inv

LEMMA InvStill ==
  ASSUME Inv, UNCHANGED vars
  PROVE  Inv'
<1>1. Slots'
  BY SlotsStill DEF Inv, vars
<1>2. TypeOK'
  BY DEF Inv, TypeOK, vars
<1>3. Archives'
  BY DEF Inv, Archives, ArchiveOf, HasArchive, vars
<1> QED
  BY <1>1, <1>2, <1>3 DEF Inv

LEMMA InvNext ==
  ASSUME Inv, [Next]_vars
  PROVE  Inv'
<1>1. ASSUME NEW e \in Export, Step(e)
      PROVE  Inv'
  <2>1. \/ Begin(e) \/ Abandon(e) \/ TimeOut(e) \/ Acquire(e) \/ EndWork(e)
        \/ Fail(e) \/ Offer(e) \/ Send(e) \/ Dispose(e)
    BY <1>1 DEF Step, Proceed
  <2> QED
    BY <2>1, InvBegin, InvAbandon, InvTimeOut, InvAcquire, InvEndWork, InvFail, InvOffer,
       InvSend, InvDispose
<1> QED
  BY <1>1, InvRead, InvCleanUp, InvRestart, InvStill DEF Next

\* The inductive invariant: slots, queue and archives are in order in every state.
THEOREM Invariance == Spec => []Inv
BY InvInit, InvNext, PTL DEF Spec

-----------------------------------------------------------------------------
(* The theorems *)

\* The count, the queue and the list keep their types: at most MaxConcurrent
\* slots are ever in use.
THEOREM ExportTypeCorrect == Spec => []TypeOK
<1>1. Inv => TypeOK
  BY DEF Inv
<1> QED
  BY <1>1, Invariance, PTL

\* Slots are counted exactly, whoever times out, fails or is refused; the queue is
\* bounded and holds whoever waits; nobody waits beside a free slot.
THEOREM ExportSlotsAreHeld == Spec => []SlotsAreHeld
<1>1. Inv => SlotsAreHeld
  BY DEF Inv, Slots, Queued, Counted, AtWork, SlotsAreHeld, At
<1> QED
  BY <1>1, Invariance, PTL

\* An archive on disk has an owner, but for that of a job deleted while it ran;
\* the archive of a listed job is there until it is released.
THEOREM ExportArchivesAreOwned == Spec => []ArchivesAreOwned
<1>1. ASSUME Inv
      PROVE  ArchivesAreOwned
  <2>1. file \subseteq Export /\ path \subseteq Export
    BY <1>1 DEF Inv, TypeOK
  <2> QED
    BY <1>1, <2>1 DEF Inv, Archives, ArchiveOf, ArchivesAreOwned
<1> QED
  BY <1>1, Invariance, PTL

=============================================================================

------------------------ MODULE WorkqueuePoolProofs ------------------------
(***************************************************************************)
(* Proofs that the work queue keeps every work it accepted, and that it    *)
(* implements the pool of WorkPool.  Everything here is about the works    *)
(* alone, so the steps of Workqueue are first reduced to the five things   *)
(* they can do to works.                                                   *)
(***************************************************************************)
EXTENDS WorkqueueProofs, RingIndexProofs

\* The works in the ring, oldest first, and those the workers execute.
Waiting == RingSeq(head, tail, work_list, IdxMod, Cap)
Busy    == In(wstate, {"busy"})
InHand  == {job[i] : i \in Busy}

----------------------------------------------------------------------------
(* The ring, as the model writes it.                                         *)

LEMMA SizesFit == RingOf(IdxMod, Cap)
  BY SizeAssumption DEF RingOf

LEMMA NextIsStep == ASSUME NEW n PROVE Next1(n) = Step(IdxMod, n, 1)
  BY DEF Next1, Step

LEMMA PendingIsGap == Pending = Gap(IdxMod, tail, head)
  BY DEF Pending, Gap

LEMMA WaitingIs ==
    ASSUME TypeOK
    PROVE  /\ Waiting = [k \in 1 .. Pending |-> work_list[SlotOf(k - 1)]]
           /\ Waiting \in Seq(Works \cup {NoWork})
           /\ Len(Waiting) = Pending /\ DOMAIN Waiting = 1 .. Pending
           /\ Pending \in 0 .. IdxMod - 1
<1>1. /\ Cap \in Nat \ {0} /\ IdxMod \in Nat \ {0}
      /\ head \in 0 .. IdxMod - 1 /\ tail \in 0 .. IdxMod - 1
      /\ \A x \in 0 .. Cap - 1 : work_list[x] \in Works \cup {NoWork}
  BY SizeFacts DEF TypeOK
<1>2. Waiting = [k \in 1 .. Pending |-> work_list[SlotOf(k - 1)]]
  BY PendingIsGap DEF Waiting, RingSeq, Step, Entry, SlotOf
<1>3. Waiting \in Seq(Works \cup {NoWork})
  BY <1>1, SizesFit, RingSeqTyped DEF Waiting
<1>4. Len(Waiting) = Pending /\ DOMAIN Waiting = 1 .. Pending
  BY <1>1, PendingIsGap, RingSeqLen DEF Waiting
<1>5. Pending \in 0 .. IdxMod - 1
  BY <1>1, PendingIsGap, GapIs
<1> QED BY <1>2, <1>3, <1>4, <1>5

LEMMA BacklogIs == TypeOK => Backlog = ElemsOf(Waiting)
<1> SUFFICES ASSUME TypeOK PROVE Backlog = ElemsOf(Waiting)
  OBVIOUS
<1>1. Pending \in Nat
  BY WaitingIs
<1>2. ElemsOf(Waiting) = {Waiting[k] : k \in 1 .. Pending}
  BY WaitingIs DEF ElemsOf
<1>3. \A k \in 1 .. Pending : Waiting[k] = work_list[SlotOf(k - 1)]
  BY WaitingIs
<1>4. ASSUME NEW k \in 0 .. Pending - 1
      PROVE  k + 1 \in 1 .. Pending /\ (k + 1) - 1 = k
  BY <1>1
<1>5. ASSUME NEW k \in 1 .. Pending PROVE k - 1 \in 0 .. Pending - 1
  BY <1>1
<1>6. Backlog \subseteq ElemsOf(Waiting)
  BY <1>2, <1>3, <1>4 DEF Backlog
<1>7. ElemsOf(Waiting) \subseteq Backlog
  BY <1>2, <1>3, <1>5 DEF Backlog
<1> QED BY <1>6, <1>7

\* RingBounded speaks of the indexes, Pending of the works.
LEMMA PendingBounded ==
    ASSUME TypeOK, RingBounded
    PROVE  /\ Pending \in 0 .. Cap
           /\ Pending = 0 <=> head = tail
           /\ ~Full => Pending < Cap
<1>1. Pending = IF tail >= head THEN tail - head ELSE tail - head + IdxMod
  BY SizeFacts, PendingIsGap, GapIs DEF TypeOK
<1> QED BY <1>1, SizeFacts DEF TypeOK, RingBounded, Full, count_pending_works

\* An empty ring is the empty sequence.
LEMMA WaitingEmpty == TypeOK /\ head = tail => Waiting = <<>>
<1> SUFFICES ASSUME TypeOK, head = tail PROVE Waiting = <<>>
  OBVIOUS
<1>1. Pending = 0
  <2>1. Pending = IF tail >= head THEN tail - head ELSE tail - head + IdxMod
    BY SizeFacts, PendingIsGap, GapIs DEF TypeOK
  <2> QED BY <2>1 DEF TypeOK
<1> QED BY <1>1, WaitingIs, EmptySeq

\* Putting a work into the ring, and taking one.
LEMMA WorkFilled ==
    ASSUME TypeOK, NEW w, work_list' = [work_list EXCEPT ![tail % Cap] = w]
    PROVE  Filled(work_list, work_list', Cap, tail, w)
<1>1. Entry(Cap, tail) \in 0 .. Cap - 1
  BY SizeFacts, EntryIs DEF TypeOK
<1> QED BY <1>1 DEF TypeOK, Entry, Filled

LEMMA WaitingAppend ==
    ASSUME TypeOK, RingBounded, ~Full, NEW w, head' = head, tail' = Next1(tail),
           Filled(work_list, work_list', Cap, tail, w)
    PROVE  Len(Waiting) < Cap /\ Waiting' = Append(Waiting, w)
<1>1. /\ Cap \in Nat \ {0} /\ IdxMod \in Nat \ {0}
      /\ head \in 0 .. IdxMod - 1 /\ tail \in 0 .. IdxMod - 1
  BY SizeFacts DEF TypeOK
<1>2. Gap(IdxMod, tail, head) < Cap
  BY PendingBounded, PendingIsGap
<1>3. RingSeq(head, Step(IdxMod, tail, 1), work_list', IdxMod, Cap) = Append(Waiting, w)
  BY <1>1, <1>2, SizesFit, RingSeqAppend DEF Waiting
<1>4. Waiting' = Append(Waiting, w)
  BY <1>3, NextIsStep DEF Waiting
<1> QED BY <1>2, <1>4, PendingIsGap, WaitingIs

LEMMA WaitingTake ==
    ASSUME TypeOK, head # tail, head' = Next1(head), UNCHANGED <<tail, work_list>>
    PROVE  /\ Waiting # <<>> /\ work_list[head % Cap] = Head(Waiting)
           /\ Waiting' = Tail(Waiting)
<1>1. /\ Cap \in Nat \ {0} /\ IdxMod \in Nat \ {0}
      /\ head \in 0 .. IdxMod - 1 /\ tail \in 0 .. IdxMod - 1
  BY SizeFacts DEF TypeOK
<1>2. /\ Waiting # <<>> /\ work_list[Entry(Cap, head)] = Head(Waiting)
      /\ RingSeq(Step(IdxMod, head, 1), tail, work_list, IdxMod, Cap) = Tail(Waiting)
  BY <1>1, SizesFit, RingSeqTake DEF Waiting
<1> QED BY <1>2, NextIsStep DEF Waiting, Entry

----------------------------------------------------------------------------
(* What a step does to the works.                                            *)

\* Caller q of queue_work brings a work that is nobody else's.
Brings(q, w) == w \notin live /\ \A p \in Queuers : p # q => qwork[p] # w

\* A work is accepted,
Puts(w) ==
    /\ w \in Works
    /\ ~should_stop /\ should_stop' = should_stop
    /\ Len(Waiting) < Cap /\ Waiting' = Append(Waiting, w)
    /\ live' = live \cup {w}
    /\ Busy' = Busy /\ job' = job

\* taken by a worker,
Takes(i) ==
    /\ i \in Slots \ Busy
    /\ Waiting # <<>> /\ Waiting' = Tail(Waiting)
    /\ Busy' = Busy \cup {i} /\ job' = [job EXCEPT ![i] = Head(Waiting)]
    /\ should_stop' = should_stop /\ live' = live

\* or done with;
Ends(i) ==
    /\ i \in Busy
    /\ Busy' = Busy \ {i} /\ job' = [job EXCEPT ![i] = NoWork]
    /\ live' = live \ {job[i]}
    /\ Waiting' = Waiting /\ should_stop' = should_stop

\* the queue is closed and its backlog deleted,
Closes ==
    /\ ~should_stop /\ should_stop'
    /\ Waiting' = <<>>
    /\ live' = live \ ElemsOf(Waiting)
    /\ Busy' = Busy /\ job' = job

\* or nothing happens to the works.
Keeps ==
    /\ Waiting' = Waiting /\ live' = live
    /\ Busy' = Busy /\ job' = job
    /\ should_stop' = should_stop

\* What becomes of the work of a caller that does not sleep, or sleeps on.
QworkKept == qwork' = qwork
QworkOf(q, w) == qwork' = [qwork EXCEPT ![q] = w]

LEMMA SameRing == UNCHANGED <<head, tail, work_list>> => Waiting' = Waiting
  BY DEF Waiting

LEMMA WokenBusy == Woken(wstate, wstate') => Busy' = Busy
<1> SUFFICES ASSUME Woken(wstate, wstate') PROVE Busy' = Busy
  OBVIOUS
<1>1. In(wstate', {"busy"}) = In(wstate, {"busy"})
  BY WokenIn
<1> QED BY <1>1 DEF Busy

LEMMA OwnerMoves ==
    ASSUME Typed, Stage, OwnerStep
    PROVE  (Keeps \/ Closes) /\ QworkKept
<1>1. UNCHANGED <<head, tail, work_list, job, live, qwork>>
  BY DEF OwnerStep, CreateWorker, CreateFails, AllocFails, AllocReturns, UnwindJoin,
         UnwindFree, JoinWorker, JoinAsserts, Free, queue, clients, unchangedByJoin
<1>2. Waiting' = Waiting
  BY <1>1, SameRing
<1>3. wstate \in [Slots -> WorkerStates] /\ wstate' \in [Slots -> WorkerStates]
  BY OwnerTyped DEF Typed, TypeOK
<1>4. Busy' = Busy
  <2>1. \A i \in Slots : wstate'[i] = "busy" <=> wstate[i] = "busy"
    <3>1. CASE CreateWorker
      <4>1. cursor \in Slots /\ wstate[cursor] = "free"
        BY <3>1, SizeFacts DEF CreateWorker, CreatedInOrder, Typed, TypeOK, Slots
      <4> QED BY <1>3, <3>1, <4>1 DEF CreateWorker
    <3>2. CASE CreateFails
      <4>1. cursor \in Slots /\ wstate[cursor] = "free"
        BY <3>2, SizeFacts DEF CreateFails, CreatedInOrder, Typed, TypeOK, Slots
      <4> QED BY <1>3, <3>2, <4>1 DEF CreateFails, CondBroadcast
    <3>3. CASE UnwindJoin
      BY <1>3, <3>3 DEF UnwindJoin
    <3>4. CASE JoinWorker
      BY <1>3, <3>4 DEF JoinWorker
    <3>5. CASE AllocFails \/ AllocReturns \/ UnwindFree \/ JoinAsserts \/ Free
      BY <3>5 DEF AllocFails, AllocReturns, UnwindFree, JoinAsserts, Free
    <3> QED BY <3>1, <3>2, <3>3, <3>4, <3>5 DEF OwnerStep
  <2> QED BY <1>3, <2>1 DEF Busy, In
<1>5. CASE CreateFails
  <2>1. ~should_stop /\ should_stop' /\ head = tail
    BY <1>5 DEF CreateFails, Typed, TypeOK, Stage, StopKnown, EmptyWhenStopped
  <2>2. Waiting = <<>>
    BY <2>1, WaitingEmpty DEF Typed
  <2>3. ElemsOf(Waiting) = {}
    BY <2>2 DEF ElemsOf
  <2> QED BY <1>1, <1>2, <1>4, <2>1, <2>2, <2>3 DEF Closes, QworkKept
<1>6. CASE ~CreateFails
  <2>1. UNCHANGED should_stop
    BY <1>6 DEF OwnerStep, CreateWorker, AllocFails, AllocReturns, UnwindJoin,
                UnwindFree, JoinWorker, JoinAsserts, Free, unchangedByJoin
  <2> QED BY <1>1, <1>2, <1>4, <2>1 DEF Keeps, QworkKept
<1> QED BY <1>5, <1>6

LEMMA DestroyMoves ==
    ASSUME Typed, Stage, Destroy
    PROVE  Closes /\ QworkKept
<1>1. ~should_stop /\ should_stop'
  BY DEF Destroy, Stage, StopKnown
<1>2. Waiting' = <<>>
  <2>1. TypeOK' /\ head' = tail'
    BY DestroyTyped DEF Typed, Destroy
  <2>2. (TypeOK /\ head = tail => Waiting = <<>>)'
    BY WaitingEmpty, PTL
  <2> QED BY <2>1, <2>2
<1>3. live' = live \ ElemsOf(Waiting)
  BY BacklogIs DEF Destroy, Typed
<1>4. Busy' = Busy
  <2>1. Woken(wstate, wstate')
    BY SleepersWake, SignalledIsState DEF Destroy, wake_up_all_workers, Typed, TypeOK
  <2> QED BY <2>1, WokenBusy
<1> QED BY <1>1, <1>2, <1>3, <1>4 DEF Closes, QworkKept, Destroy

LEMMA WorkerMoves ==
    ASSUME Typed, Stage, NEW i \in Slots, WorkerStep(i)
    PROVE  (Keeps \/ Takes(i) \/ Ends(i)) /\ QworkKept
<1>1. /\ UNCHANGED <<should_stop, tail, work_list, qwork>>
      /\ wstate \in [Slots -> WorkerStates]
  BY DEF WorkerStep, WorkerStarts, WorkerWakes, RunWork, WorkerFinishes,
         unchangedByWorkers, Typed, TypeOK
<1>2. CASE RunWork(i)
  <2>1. i \in Busy /\ Busy' = Busy \ {i}
    BY <1>1, <1>2 DEF RunWork, Busy, In
  <2>2. Waiting' = Waiting
    BY <1>1, <1>2, SameRing DEF RunWork
  <2> QED BY <1>1, <1>2, <2>1, <2>2 DEF RunWork, Ends, QworkKept
<1>3. CASE ~RunWork(i)
  <2>1. /\ live' = live /\ wstate[i] # "busy"
        /\ \E sleeping, online, running : WaitForEvent(i, sleeping, online, running)
    BY <1>3 DEF WorkerStep, WorkerStarts, WorkerWakes, WorkerFinishes
  <2>2. CASE /\ head # tail /\ head' = Next1(head)
             /\ job' = [job EXCEPT ![i] = work_list[head % Cap]]
             /\ wstate' = [wstate EXCEPT ![i] = "busy"]
    <3>1. i \in Slots \ Busy /\ Busy' = Busy \cup {i}
      BY <1>1, <2>1, <2>2 DEF Busy, In
    <3>2. /\ Waiting # <<>> /\ work_list[head % Cap] = Head(Waiting)
          /\ Waiting' = Tail(Waiting)
      BY <1>1, <2>2, WaitingTake DEF Typed
    <3> QED BY <1>1, <2>1, <2>2, <3>1, <3>2 DEF Takes, QworkKept
  <2>3. CASE /\ UNCHANGED <<head, job>>
             /\ \E st \in {"gone", "asleep"} : wstate' = [wstate EXCEPT ![i] = st]
    <3>1. Busy' = Busy
      BY <1>1, <2>1, <2>3 DEF Busy, In
    <3>2. Waiting' = Waiting
      BY <1>1, <2>3, SameRing
    <3> QED BY <1>1, <2>1, <2>3, <3>1, <3>2 DEF Keeps, QworkKept
  <2> QED BY <2>1, <2>2, <2>3 DEF WaitForEvent
<1> QED BY <1>2, <1>3

LEMMA QueueMoves ==
    ASSUME Typed, Stage, NEW q \in Queuers, NEW w \in Works, NEW others,
           TryQueueWork(q, w, others)
    PROVE  \/ Puts(w) /\ QworkOf(q, NoWork)
           \/ Keeps /\ (QworkOf(q, NoWork) \/ QworkOf(q, w))
<1>1. UNCHANGED <<should_stop, head, job>>
  BY DEF TryQueueWork
<1>2. CASE Accepted(q, w)
  <2>1. /\ ~should_stop /\ ~Full /\ tail' = Next1(tail) /\ arm_worker
        /\ work_list' = [work_list EXCEPT ![tail % Cap] = w]
        /\ live' = live \cup {w} /\ QworkOf(q, NoWork)
    BY <1>2 DEF Accepted, QworkOf
  <2>2. Filled(work_list, work_list', Cap, tail, w)
    BY <2>1, WorkFilled DEF Typed
  <2>3. Len(Waiting) < Cap /\ Waiting' = Append(Waiting, w)
    BY <1>1, <2>1, <2>2, WaitingAppend DEF Typed, Stage
  <2>4. Busy' = Busy
    <3>1. wstate \in [Slots -> WorkerStates] /\ wstate' \in [Slots -> WorkerStates]
      BY <2>1, ArmTyped DEF Typed, TypeOK
    <3>2. \A i \in Slots : wstate'[i] = "busy" <=> wstate[i] = "busy"
      BY <2>1, ArmMoves DEF Typed
    <3> QED BY <3>1, <3>2 DEF Busy, In
  <2> QED BY <1>1, <2>1, <2>3, <2>4 DEF Puts
<1>3. CASE Refused(q) \/ PutToSleep(q, w)
  <2>1. /\ UNCHANGED <<tail, work_list, wstate, live>>
        /\ QworkOf(q, NoWork) \/ QworkOf(q, w)
    BY <1>3 DEF Refused, PutToSleep, QworkOf
  <2>2. Waiting' = Waiting /\ Busy' = Busy
    BY <1>1, <2>1, SameRing DEF Busy
  <2> QED BY <1>1, <2>1, <2>2 DEF Keeps
<1> QED BY <1>2, <1>3 DEF TryQueueWork

LEMMA QuietMoves ==
    ASSUME Woken(wstate, wstate'),
           UNCHANGED <<should_stop, head, tail, work_list, job, live, qwork>>
    PROVE  Keeps /\ QworkKept
  BY WokenBusy, SameRing DEF Keeps, QworkKept

----------------------------------------------------------------------------
(* The invariant: a work is in one place, and a caller brings one that is    *)
(* nobody else's.                                                            *)

OnePlace ==
    /\ Distinct(Waiting)
    /\ \A i, j \in Busy : job[i] = job[j] => i = j
    /\ ElemsOf(Waiting) \cap InHand = {}
    /\ live = ElemsOf(Waiting) \cup InHand

Fresh ==
    /\ \A q \in Queuers : qwork[q] # NoWork => qwork[q] \notin live
    /\ \A p, q \in Queuers : qwork[p] # NoWork /\ qwork[p] = qwork[q] => p = q

LEMMA MoveSummary ==
    ASSUME Typed, Stage, Fresh, Next
    PROVE  \/ (Keeps \/ Closes) /\ QworkKept
           \/ \E i \in Slots : (Takes(i) \/ Ends(i)) /\ QworkKept
           \/ \E q \in Queuers, w \in Works :
                 /\ Brings(q, w)
                 /\ \/ Puts(w) /\ QworkOf(q, NoWork)
                    \/ Keeps /\ (QworkOf(q, NoWork) \/ QworkOf(q, w))
<1>1. CASE OwnerStep
  BY <1>1, OwnerMoves
<1>2. CASE Destroy
  BY <1>2, DestroyMoves
<1>3. CASE \E i \in Slots : WorkerStep(i)
  BY <1>3, WorkerMoves
<1>4. ASSUME NEW q \in Queuers, NEW w \in Works, QueueWork(q, w)
      PROVE  Brings(q, w) /\ TryQueueWork(q, w, nr_sleeping_queuers)
  BY <1>4 DEF QueueWork, Brings
<1>5. ASSUME NEW q \in Queuers, ResumeQueueWork(q)
      PROVE  /\ qwork[q] \in Works /\ Brings(q, qwork[q])
             /\ TryQueueWork(q, qwork[q], nr_sleeping_queuers - 1)
  <2>1. qwork[q] \in Works
    BY <1>5 DEF ResumeQueueWork, Typed, CallersHold
  <2>2. qwork[q] # NoWork
    BY <2>1, ClientAssumption
  <2> QED BY <1>5, <2>1, <2>2 DEF ResumeQueueWork, Fresh, Brings
<1>6. CASE \E a \in Waiters : WaitAll(a) \/ ResumeWaitAll(a)
  BY <1>6, QuietMoves DEF WaitAll, ResumeWaitAll, unchangedByWaiters, queue, Woken
<1>7. CASE SpuriousWakeup
  <2>1. Woken(wstate, wstate')
    BY <1>7 DEF SpuriousWakeup, Woken, In, Typed, TypeOK
  <2> QED BY <1>7, <2>1, QuietMoves DEF SpuriousWakeup, queue
<1> QED BY <1>1, <1>2, <1>3, <1>4, <1>5, <1>6, <1>7, QueueMoves DEF Next

LEMMA InitConserved == Init => OnePlace /\ Fresh
<1> SUFFICES ASSUME Init PROVE OnePlace /\ Fresh
  OBVIOUS
<1>1. Waiting = <<>>
  BY InitTyped, WaitingEmpty DEF Init, Typed
<1>2. ElemsOf(Waiting) = {} /\ Distinct(Waiting)
  BY <1>1 DEF ElemsOf, Distinct
<1>3. Busy = {}
  BY DEF Init, Busy, In
<1> QED BY <1>2, <1>3 DEF Init, OnePlace, Fresh, InHand

\* Closing the queue and every step that keeps the works.
LEMMA KeepsConserve ==
    ASSUME OnePlace, Keeps PROVE OnePlace' /\ live' = live
  BY DEF OnePlace, Keeps, InHand

LEMMA ClosesConserve ==
    ASSUME OnePlace, Closes PROVE OnePlace' /\ live' \subseteq live
<1>1. ElemsOf(<<>>) = {} /\ Distinct(<<>>)
  BY DEF ElemsOf, Distinct
<1>2. InHand' = InHand
  BY DEF Closes, InHand
<1> QED BY <1>1, <1>2 DEF OnePlace, Closes

LEMMA TakesConserve ==
    ASSUME TypeOK, OnePlace, NEW i \in Slots, Takes(i)
    PROVE  OnePlace' /\ live' = live /\ InHand' = InHand \cup {Head(Waiting)}
<1>1. /\ ElemsOf(Waiting) = {Head(Waiting)} \cup ElemsOf(Waiting')
      /\ Distinct(Waiting') /\ Head(Waiting) \notin ElemsOf(Waiting')
  BY WaitingIs, TailElems DEF Takes, OnePlace
<1>2. /\ job'[i] = Head(Waiting) /\ i \notin Busy
      /\ \A j \in Busy : job'[j] = job[j]
  BY DEF Takes, TypeOK, Busy, In
<1>3. InHand' = InHand \cup {Head(Waiting)}
  BY <1>2 DEF Takes, InHand
<1>4. Head(Waiting) \notin InHand
  BY <1>1 DEF OnePlace
<1>5. \A j, k \in Busy' : job'[j] = job'[k] => j = k
  BY <1>2, <1>4 DEF Takes, OnePlace, InHand
<1> QED BY <1>1, <1>3, <1>5 DEF Takes, OnePlace

LEMMA EndsConserve ==
    ASSUME TypeOK, OnePlace, NEW i \in Slots, Ends(i)
    PROVE  OnePlace' /\ live' \subseteq live /\ InHand' = InHand \ {job[i]}
<1>1. \A j \in Busy' : j \in Busy /\ j # i /\ job'[j] = job[j]
  BY DEF Ends, TypeOK, Busy, In
<1>2. InHand' = InHand \ {job[i]}
  BY <1>1 DEF Ends, OnePlace, InHand
<1>3. job[i] \in InHand
  BY DEF Ends, InHand
<1>4. \A j, k \in Busy' : job'[j] = job'[k] => j = k
  BY <1>1 DEF OnePlace
<1> QED BY <1>2, <1>3, <1>4 DEF Ends, OnePlace

LEMMA PutsConserve ==
    ASSUME TypeOK, OnePlace, NEW w \in Works, w \notin live, Puts(w)
    PROVE  OnePlace' /\ live' = live \cup {w} /\ InHand' = InHand
<1>1. w \notin ElemsOf(Waiting) /\ w \notin InHand
  BY DEF OnePlace
<1>2. ElemsOf(Waiting') = ElemsOf(Waiting) \cup {w} /\ Distinct(Waiting')
  BY <1>1, WaitingIs, AppendElems DEF Puts, OnePlace
<1>3. InHand' = InHand
  BY DEF Puts, InHand
<1> QED BY <1>1, <1>2, <1>3 DEF Puts, OnePlace

LEMMA NextConserved ==
    Typed /\ Stage /\ OnePlace /\ Fresh /\ [Next]_vars => OnePlace' /\ Fresh'
<1> SUFFICES ASSUME Typed, Stage, OnePlace, Fresh, [Next]_vars PROVE OnePlace' /\ Fresh'
  OBVIOUS
<1>1. ASSUME live' \subseteq live, QworkKept PROVE Fresh'
  BY <1>1 DEF QworkKept, Fresh
<1>2. CASE UNCHANGED vars
  <2>1. Keeps /\ QworkKept
    BY <1>2, QuietMoves DEF vars, queue, clients, Woken
  <2> QED BY <1>1, <2>1, KeepsConserve
<1>3. CASE (Keeps \/ Closes) /\ QworkKept
  BY <1>1, <1>3, KeepsConserve, ClosesConserve
<1>4. ASSUME NEW i \in Slots, Takes(i) \/ Ends(i), QworkKept
      PROVE  OnePlace' /\ Fresh'
  BY <1>1, <1>4, TakesConserve, EndsConserve DEF Typed
<1>5. ASSUME NEW q \in Queuers, NEW w \in Works, Brings(q, w),
             Puts(w), QworkOf(q, NoWork)
      PROVE  OnePlace' /\ Fresh'
  <2>1. OnePlace' /\ live' = live \cup {w}
    BY <1>5, PutsConserve DEF Brings, Typed
  <2>2. Fresh'
    BY <1>5, <2>1 DEF Brings, QworkOf, Fresh, Typed, TypeOK
  <2> QED BY <2>1, <2>2
<1>6. ASSUME NEW q \in Queuers, NEW w \in Works, Brings(q, w),
             Keeps, QworkOf(q, NoWork) \/ QworkOf(q, w)
      PROVE  OnePlace' /\ Fresh'
  <2>1. OnePlace' /\ live' = live
    BY <1>6, KeepsConserve
  <2>2. Fresh'
    BY <1>6, <2>1 DEF Brings, QworkOf, Fresh, Typed, TypeOK
  <2> QED BY <2>1, <2>2
<1> QED BY <1>2, <1>3, <1>4, <1>5, <1>6, MoveSummary

LEMMA AlwaysConserved == Spec => [](Typed /\ Stage /\ OnePlace /\ Fresh)
<1>1. Init => Typed /\ Stage /\ OnePlace /\ Fresh
  BY InitTyped, InitStage, InitConserved
<1>2. Typed /\ Stage /\ OnePlace /\ Fresh /\ [Next]_vars
        => Typed' /\ Stage' /\ OnePlace' /\ Fresh'
  BY NextTyped, NextStage, NextConserved
<1> QED BY <1>1, <1>2, PTL DEF Spec

----------------------------------------------------------------------------
(* How far the creator has got with joining the workers.                     *)

\* Slots without a thread: never armed, not created, or joined.
Left == {"free", "unborn", "joined"}

JoinedSoFar ==
    /\ owner = "unwinding" => \A i \in Slots : i >= cursor => wstate[i] \in Left
    /\ owner = "joining" => \A i \in Slots : i < cursor => wstate[i] \in Left
    /\ owner \in {"failed", "freed"} => \A i \in Slots : wstate[i] \in Left
    /\ owner = "failed" => head = tail

\* Only a thread that is there moves, unless a work is accepted; and nobody
\* accepts one once the creator has begun to join.
LEMMA OthersLeave ==
    ASSUME Typed, Stage, Next, ~OwnerStep, ~Destroy,
           owner \in {"unwinding", "joining", "failed", "freed"}
    PROVE  /\ \A i \in Slots : wstate[i] \in Left => wstate'[i] = wstate[i]
           /\ UNCHANGED <<owner, cursor, tail>>
           /\ (\A i \in Slots : wstate[i] \in Left) => UNCHANGED head
<1>1. ASSUME NEW i \in Slots, WorkerStep(i)
      PROVE  /\ wstate[i] \notin Left
             /\ \A j \in Slots : j # i => wstate'[j] = wstate[j]
             /\ UNCHANGED <<owner, cursor, tail>>
  BY <1>1 DEF WorkerStep, WorkerStarts, WorkerWakes, RunWork, WorkerFinishes, WaitForEvent,
              unchangedByWorkers, creator, Left, Typed, TypeOK
<1>2. ASSUME NEW q \in Queuers, ResumeQueueWork(q) \/ \E w \in Works : QueueWork(q, w)
      PROVE  UNCHANGED <<wstate, owner, cursor, head, tail>>
  <2>1. PICK w, others : TryQueueWork(q, w, others)
    BY <1>2 DEF ResumeQueueWork, QueueWork
  <2>2. owner \notin {"unwinding", "failed"}
    BY <1>2 DEF ResumeQueueWork, QueueWork, Usable, Typed, NotYetShared
  <2>3. should_stop
    BY <2>2 DEF Stage, StopKnown
  <2> QED BY <2>1, <2>3 DEF TryQueueWork, Refused, Accepted, PutToSleep, creator
<1>3. ASSUME NEW a \in Waiters, WaitAll(a) \/ ResumeWaitAll(a)
      PROVE  UNCHANGED <<wstate, owner, cursor, head, tail>>
  BY <1>3 DEF WaitAll, ResumeWaitAll, unchangedByWaiters, queue, creator
<1>4. CASE SpuriousWakeup
  BY <1>4 DEF SpuriousWakeup, queue, creator, In, Left, Typed, TypeOK
<1> QED BY <1>1, <1>2, <1>3, <1>4 DEF Next

LEMMA NextJoined == Typed /\ Stage /\ JoinedSoFar /\ [Next]_vars => JoinedSoFar'
<1> SUFFICES ASSUME Typed, Stage, JoinedSoFar, [Next]_vars PROVE JoinedSoFar'
  OBVIOUS
<1> USE SizeFacts DEF Typed
<1>1. CASE UNCHANGED vars
  BY <1>1 DEF vars, queue, creator, JoinedSoFar
<1>2. CASE Destroy
  <2>1. owner' = "joining" /\ cursor' = 0
    BY <1>2 DEF Destroy
  <2> QED BY <2>1 DEF JoinedSoFar, Slots
<1>3. CASE CreateWorker \/ AllocReturns
  BY <1>3 DEF CreateWorker, AllocReturns, JoinedSoFar
<1>4. CASE CreateFails
  <2>1. /\ owner' = "unwinding" /\ cursor' = cursor /\ cursor \in Slots
        /\ wstate' = CondBroadcast([wstate EXCEPT ![cursor] = "unborn"])
        /\ \A i \in Slots : i >= cursor => wstate[i] = "free"
    BY <1>4 DEF CreateFails, CreatedInOrder, TypeOK, Slots
  <2>2. \A i \in Slots : i >= cursor => wstate'[i] \in {"free", "unborn"}
    BY <2>1 DEF CondBroadcast, TypeOK
  <2> QED BY <2>1, <2>2 DEF JoinedSoFar, Left
<1>5. CASE AllocFails
  <2>1. /\ owner = "allocating" /\ cursor = 0 /\ owner' = "failed"
        /\ UNCHANGED <<head, tail, wstate>> /\ head = tail
    BY <1>5 DEF AllocFails, queue, Stage, EmptyWhenStopped
  <2> QED BY <2>1 DEF JoinedSoFar, CreatedInOrder, Left, Slots
<1>6. CASE UnwindJoin
  <2>1. /\ owner = "unwinding" /\ owner' = owner /\ cursor' = cursor - 1
        /\ wstate' = [wstate EXCEPT ![cursor - 1] = "joined"]
    BY <1>6 DEF UnwindJoin
  <2>2. ASSUME NEW i \in Slots, i >= cursor' PROVE wstate'[i] \in Left
    BY <2>1, <2>2 DEF JoinedSoFar, TypeOK, Left, Slots
  <2> QED BY <2>1, <2>2 DEF JoinedSoFar
<1>7. CASE UnwindFree
  BY <1>7 DEF UnwindFree, JoinedSoFar, Slots
<1>8. CASE JoinWorker
  <2>1. /\ owner = "joining" /\ owner' = owner /\ cursor' = cursor + 1
        /\ \/ wstate[cursor] = "free" /\ UNCHANGED wstate
           \/ wstate' = [wstate EXCEPT ![cursor] = "joined"]
    BY <1>8 DEF JoinWorker
  <2>2. ASSUME NEW i \in Slots, i < cursor' PROVE wstate'[i] \in Left
    BY <2>1, <2>2 DEF JoinedSoFar, TypeOK, Left, Slots
  <2> QED BY <2>1, <2>2 DEF JoinedSoFar
<1>9. CASE JoinAsserts
  BY <1>9 DEF JoinAsserts, JoinedSoFar
<1>10. CASE Free
  BY <1>10 DEF Free, JoinedSoFar, Slots
<1>11. CASE Next /\ ~OwnerStep /\ ~Destroy
  <2>1. CASE owner \in {"unwinding", "joining", "failed", "freed"}
    BY <1>11, <2>1, OthersLeave DEF JoinedSoFar
  <2>2. CASE owner \notin {"unwinding", "joining", "failed", "freed"}
    <3>1. owner' = owner
      BY <1>11 DEF Next, WorkerStep, WorkerStarts, WorkerWakes, RunWork, WorkerFinishes,
                   unchangedByWorkers, QueueWork, ResumeQueueWork, TryQueueWork, WaitAll,
                   ResumeWaitAll, unchangedByWaiters, SpuriousWakeup, creator
    <3> QED BY <2>2, <3>1 DEF JoinedSoFar
  <2> QED BY <2>1, <2>2
<1> QED BY <1>1, <1>2, <1>3, <1>4, <1>5, <1>6, <1>7, <1>8, <1>9, <1>10, <1>11
        DEF OwnerStep

----------------------------------------------------------------------------
(* Each step is a step of the pool, or none.                                 *)

\* A worker that has no work leaves room for one more.
LEMMA RoomForOne ==
    ASSUME TypeOK, NEW i \in Slots \ Busy
    PROVE  Cardinality(InHand) < MaxThreads
<1> DEFINE f == [j \in Busy |-> job[j]]
<1>1. Busy \subseteq Slots
  BY DEF TypeOK, Busy, In
<1>2. IsFiniteSet(Slots \ {i}) /\ Cardinality(Slots \ {i}) = MaxThreads - 1
  BY SlotsFinite, FS_RemoveElement
<1>3. IsFiniteSet(Busy) /\ Cardinality(Busy) <= MaxThreads - 1
  <2>1. Busy \in SUBSET (Slots \ {i})
    BY <1>1
  <2> QED BY <1>2, <2>1, FS_Subset
<1>4. f \in Surjection(Busy, InHand)
  BY DEF Surjection, InHand
<1> HIDE DEF f
<1>5. IsFiniteSet(InHand) /\ Cardinality(InHand) <= Cardinality(Busy)
  BY <1>3, <1>4, FS_Surjection
<1> QED BY <1>3, <1>5, FS_CardinalityType, SizeFacts

LEMMA StepServes ==
    ASSUME Typed, Stage, OnePlace, Fresh, Typed', [Next]_vars
    PROVE  [Pool!Next]_(Pool!vars)
<1> DEFINE b == [k \in 1 .. Pending |-> work_list[SlotOf(k - 1)]]
<1>1. b = Waiting /\ b' = Waiting'
  <2>1. TypeOK /\ TypeOK'
    BY DEF Typed
  <2>2. (TypeOK => Waiting = b)'
    BY WaitingIs, PTL
  <2> QED BY <2>1, <2>2, WaitingIs
<1>2. Pool!Queued = ElemsOf(Waiting)
  BY <1>1 DEF Pool!Queued, ElemsOf
<1> HIDE DEF b
<1>3. ASSUME Keeps PROVE UNCHANGED Pool!vars
  BY <1>1, <1>3 DEF Keeps, Pool!vars, b, InHand, Busy
<1>4. ASSUME Closes PROVE Pool!Close
  BY <1>1, <1>4 DEF Closes, Pool!Close, b, InHand, Busy
<1>5. ASSUME NEW w \in Works, w \notin live, Puts(w) PROVE Pool!Accept(w)
  BY <1>1, <1>2, <1>5 DEF Puts, Pool!Accept, OnePlace, b, InHand, Busy
<1>6. ASSUME NEW i \in Slots, Takes(i) PROVE Pool!Start
  <2>1. /\ Waiting # <<>> /\ Cardinality(InHand) < MaxThreads
        /\ InHand' = InHand \cup {Head(Waiting)} /\ Waiting' = Tail(Waiting)
        /\ UNCHANGED should_stop
    BY <1>6, RoomForOne, TakesConserve DEF Takes, Typed
  <2>2. /\ b # <<>> /\ b' = Tail(b) /\ InHand' = InHand \cup {Head(b)}
    BY <1>1, <2>1
  <2>3. Cardinality(InHand) < MaxThreads /\ UNCHANGED should_stop
    BY <2>1
  <2>4. Pool!Cardinality(InHand) = Cardinality(InHand)
    BY DEF Cardinality, Pool!Cardinality
  <2> QED BY <2>2, <2>3, <2>4, Zenon DEF Pool!Start, b, InHand, Busy
<1>7. ASSUME NEW i \in Slots, Ends(i) PROVE \E w \in Works : Pool!Complete(w)
  <2>1. PICK w \in Works : w = job[i]
    BY <1>7 DEF Ends, InHand, OnePlace, Typed, TypeOK
  <2>2. /\ w \in InHand /\ InHand' = InHand \ {w} /\ b' = b
        /\ UNCHANGED should_stop
    BY <1>1, <1>7, <2>1, EndsConserve DEF Ends, InHand, Typed
  <2>3. Pool!Complete(w)
    BY <2>2 DEF Pool!Complete, b, InHand, Busy
  <2> QED BY <2>3
<1>8. CASE UNCHANGED vars
  <2>1. Keeps
    BY <1>8, QuietMoves DEF vars, queue, clients, Woken
  <2> QED BY <1>3, <2>1
<1>9. CASE Next
  <2>1. CASE (Keeps \/ Closes) /\ QworkKept
    BY <1>3, <1>4, <2>1, Zenon DEF Pool!Next
  <2>2. CASE \E i \in Slots : (Takes(i) \/ Ends(i)) /\ QworkKept
    <3>1. PICK i \in Slots : Takes(i) \/ Ends(i)
      BY <2>2
    <3>2. CASE Takes(i)
      BY <1>6, <3>2, Zenon DEF Pool!Next
    <3>3. CASE Ends(i)
      BY <1>7, <3>3, Zenon DEF Pool!Next
    <3> QED BY <3>1, <3>2, <3>3, Zenon
  <2>3. CASE \E q \in Queuers, w \in Works :
                /\ Brings(q, w)
                /\ \/ Puts(w) /\ QworkOf(q, NoWork)
                   \/ Keeps /\ (QworkOf(q, NoWork) \/ QworkOf(q, w))
    <3>1. PICK q \in Queuers, w \in Works : Brings(q, w) /\ (Puts(w) \/ Keeps)
      BY <2>3
    <3>2. CASE Puts(w)
      BY <1>5, <3>1, <3>2, Zenon DEF Pool!Next, Brings
    <3>3. CASE Keeps
      BY <1>3, <3>3, Zenon
    <3> QED BY <3>1, <3>2, <3>3, Zenon
  <2> QED BY <1>9, <2>1, <2>2, <2>3, MoveSummary
<1> QED BY <1>8, <1>9

\* The work queue is a bounded FIFO pool: every work accepted is started once,
\* in the order of acceptance, by at most MaxThreads threads, or deleted when the
\* queue is closed; whatever the size of the ring, wherever its indexes wrap.
THEOREM Refinement == Spec => ImplementsPool
<1>1. Init => Pool!Init
  <2> SUFFICES ASSUME Init PROVE Pool!Init
    OBVIOUS
  <2>1. [k \in 1 .. Pending |-> work_list[SlotOf(k - 1)]] = <<>>
    BY InitTyped, WaitingIs, WaitingEmpty DEF Init, Typed
  <2>2. In(wstate, {"busy"}) = {}
    BY DEF Init, In
  <2> QED BY <2>1, <2>2 DEF Pool!Init, Init
<1>2. Typed /\ Stage /\ OnePlace /\ Fresh /\ Typed' /\ [Next]_vars
        => [Pool!Next]_(Pool!vars)
  BY StepServes
<1> QED BY <1>1, <1>2, AlwaysConserved, PTL DEF Spec, ImplementsPool, Pool!Spec

\* No accepted work is lost, doubled or overwritten: each is in one entry of the
\* ring or with one worker until its deleter has run, and the wrapped indexes
\* always count the works that are really there.
THEOREM WorksConserved == Spec => []WorkConserved
<1>1. Typed /\ Stage /\ OnePlace => WorkConserved
  <2> SUFFICES ASSUME Typed, Stage, OnePlace PROVE WorkConserved
    OBVIOUS
  <2>1. Pending <= Cap
    BY PendingBounded, SizeFacts DEF Typed, Stage
  <2>2. Backlog = ElemsOf(Waiting) /\ Cardinality(Backlog) = Pending
    BY BacklogIs, WaitingIs, CountElems DEF Typed, OnePlace
  <2> QED BY <2>1, <2>2 DEF WorkConserved, OnePlace, InHand, Busy
<1> QED BY <1>1, AlwaysConserved, PTL

\* When the ring is empty and no worker is running, no accepted work is left.
LEMMA DrainedIsEmpty ==
    ASSUME Typed, OnePlace, head = tail, nr_running_workers = 0
    PROVE  live = {}
<1>1. ElemsOf(Waiting) = {}
  BY WaitingEmpty DEF ElemsOf, Typed
<1>2. In(wstate, Running) = {}
  BY InFinite, SlotsFinite, FS_EmptySet DEF Typed, TypeOK, CountersMatch
<1>3. Busy = {}
  BY <1>2 DEF Busy, In, Running
<1> QED BY <1>1, <1>3 DEF OnePlace, InHand

\* A caller that returns from wait_all_work_done on a queue that is not stopping
\* has seen every work accepted so far run and deleted.
THEOREM ReturnsDrained == Spec => DrainedOnReturn
<1> DEFINE Ok == \A a \in Waiters :
                    astate[a] # "out" /\ astate'[a] = "out" /\ ~should_stop => live = {}
<1>1. Typed /\ OnePlace /\ [Next]_vars => Ok
  <2> SUFFICES ASSUME Typed, OnePlace, [Next]_vars, NEW a \in Waiters,
                      astate[a] # "out", astate'[a] = "out", ~should_stop
               PROVE  live = {}
    OBVIOUS
  <2>1. ASSUME Woken(astate, astate') PROVE FALSE
    BY <2>1 DEF Woken, Typed, TypeOK
  <2>2. Woken(astate, CondBroadcast(astate)) /\ Woken(astate, astate)
    BY BroadcastWakes, SignalledIsState DEF Typed, TypeOK, Woken
  <2>3. PICK b \in Waiters : WaitAll(b) \/ ResumeWaitAll(b)
    <3>1. CASE OwnerStep
      BY <2>1, <2>2, <3>1
         DEF OwnerStep, CreateWorker, CreateFails, AllocFails, AllocReturns, UnwindJoin,
             UnwindFree, JoinWorker, JoinAsserts, Free, unchangedByJoin, clients
    <3>2. CASE Destroy
      BY <2>1, <2>2, <3>2 DEF Destroy, wake_up_all_workers, WakeWaitersIf
    <3>3. ASSUME NEW i \in Slots, WorkerStep(i) PROVE FALSE
      BY <2>1, <2>2, <3>3
         DEF WorkerStep, WorkerStarts, WorkerWakes, RunWork, WorkerFinishes, WaitForEvent,
             WakeWaitersIf
    <3>4. ASSUME NEW q \in Queuers,
                 ResumeQueueWork(q) \/ \E w \in Works : QueueWork(q, w)
          PROVE  FALSE
      BY <2>1, <2>2, <3>4 DEF ResumeQueueWork, QueueWork, TryQueueWork
    <3>5. CASE SpuriousWakeup
      <4>1. Woken(astate, astate')
        BY <2>2, <3>5 DEF SpuriousWakeup, Woken, In, Typed, TypeOK
      <4> QED BY <2>1, <4>1
    <3>6. CASE UNCHANGED vars
      BY <2>1, <2>2, <3>6 DEF vars, clients
    <3> QED BY <3>1, <3>2, <3>3, <3>4, <3>5, <3>6 DEF Next
  <2>4. ~NotDone
    BY <2>3 DEF WaitAll, ResumeWaitAll, WaitAllSleeps, WaitAllReturns, Typed, TypeOK
  <2>5. head = tail /\ nr_running_workers = 0
    BY <2>4, ZeroRunning DEF Typed, TypeOK
  <2> QED BY <2>5, DrainedIsEmpty
<1>2. Typed /\ OnePlace /\ [Next]_vars => [Ok]_vars
  BY <1>1
<1> QED BY <1>2, AlwaysConserved, PTL DEF Spec, DrainedOnReturn

\* A queue that is freed, or was never made, has joined every thread it created
\* and holds no work.
THEOREM NothingLeft == Spec => []FreedLeavesNothing
<1>1. Init => JoinedSoFar
  BY DEF Init, JoinedSoFar
<1>2. Typed /\ Stage /\ JoinedSoFar /\ [Next]_vars => JoinedSoFar'
  BY NextJoined
<1>3. Typed /\ Stage /\ OnePlace /\ JoinedSoFar => FreedLeavesNothing
  <2> SUFFICES ASSUME Typed, Stage, OnePlace, JoinedSoFar, owner \in {"failed", "freed"}
               PROVE  /\ live = {}
                      /\ \A i \in Slots : wstate[i] \in {"free", "unborn", "joined"}
                      /\ nr_online_workers = 0
    BY DEF FreedLeavesNothing
  <2>1. \A i \in Slots : wstate[i] \in {"free", "unborn", "joined"}
    BY DEF JoinedSoFar, Left
  <2>2. head = tail
    BY DEF JoinedSoFar, Stage, StopKnown, EmptyWhenStopped
  <2>3. In(wstate, Online) = {} /\ In(wstate, Running) = {}
    BY <2>1 DEF In, Online, Sleeping, Running, Typed, TypeOK
  <2>4. nr_online_workers = 0 /\ nr_running_workers = 0
    BY <2>3, FS_EmptySet DEF Typed, CountersMatch
  <2> QED BY <2>1, <2>2, <2>4, DrainedIsEmpty
<1> QED BY <1>1, <1>2, <1>3, AlwaysConserved, PTL DEF Spec
=============================================================================

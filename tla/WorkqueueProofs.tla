-------------------------- MODULE WorkqueueProofs --------------------------
(***************************************************************************)
(* Proofs about Workqueue, for every number of threads, callers and works  *)
(* and every size of the ring.                                             *)
(***************************************************************************)
EXTENDS Workqueue, FiniteSetTheorems, TLAPS

----------------------------------------------------------------------------
(* Threads in wait sets, and how many of them there are.                     *)

\* st2 is st after some sleepers were woken.
Woken(st, st2) ==
    /\ DOMAIN st2 = DOMAIN st
    /\ \A x \in DOMAIN st :
          st2[x] = st[x] \/ (st[x] = "asleep" /\ st2[x] = "signalled")

\* A broadcast, a signal and their combination only wake sleepers.
LEMMA BroadcastWakes ==
    ASSUME NEW D, NEW T, NEW st \in [D -> T], "signalled" \in T
    PROVE  /\ CondBroadcast(st) \in [D -> T]
           /\ Woken(st, CondBroadcast(st))
  BY DEF CondBroadcast, Woken

LEMMA SignalWakes ==
    ASSUME NEW D, NEW T, NEW st \in [D -> T], "signalled" \in T,
           NEW st2 \in CondSignal(st)
    PROVE  st2 \in [D -> T] /\ Woken(st, st2)
  BY DEF CondSignal, Woken, In

LEMMA SleepersWake ==
    ASSUME NEW D, NEW T, NEW st \in [D -> T], "signalled" \in T,
           NEW n, NEW st2 \in WakeSleepers(n, st)
    PROVE  st2 \in [D -> T] /\ Woken(st, st2)
<1>1. CASE n = 0
  BY <1>1 DEF WakeSleepers, Woken
<1>2. CASE n # 0 /\ n = 1
  BY <1>2, SignalWakes DEF WakeSleepers
<1>3. CASE n # 0 /\ n # 1
  BY <1>3, BroadcastWakes DEF WakeSleepers
<1> QED BY <1>1, <1>2, <1>3

\* A set of states that does not separate sleepers from woken threads has the
\* same members before and after a wake-up.
LEMMA WokenIn ==
    ASSUME NEW st, NEW st2, Woken(st, st2), NEW S,
           "asleep" \in S <=> "signalled" \in S
    PROVE  In(st2, S) = In(st, S)
  BY DEF Woken, In

\* Threads in given states are finitely many, no more than there are threads.
LEMMA InFinite ==
    ASSUME NEW D, IsFiniteSet(D), NEW T, NEW st \in [D -> T], NEW S
    PROVE  /\ IsFiniteSet(In(st, S))
           /\ Cardinality(In(st, S)) \in 0 .. Cardinality(D)
<1>1. In(st, S) \subseteq D
  BY DEF In
<1>2. /\ IsFiniteSet(In(st, S))
      /\ Cardinality(In(st, S)) <= Cardinality(D)
  BY <1>1, FS_Subset
<1> QED BY <1>2, FS_CardinalityType

One(x, S) == IF x \in S THEN 1 ELSE 0

\* st2 is st with thread x moved.
Moved(st, st2, x) ==
    /\ DOMAIN st2 = DOMAIN st
    /\ \A y \in DOMAIN st : y # x => st2[y] = st[y]

\* Moving one thread changes the number of threads in S by at most one.
LEMMA CountMove ==
    ASSUME NEW D, IsFiniteSet(D), NEW T, NEW st \in [D -> T], NEW x \in D,
           NEW st2, Moved(st, st2, x), NEW S
    PROVE  Cardinality(In(st2, S)) =
              Cardinality(In(st, S)) + One(st2[x], S) - One(st[x], S)
<1> DEFINE old == In(st, S)
           new == In(st2, S)
<1>1. IsFiniteSet(old) /\ Cardinality(old) \in Nat
  BY InFinite, FS_CardinalityType
<1>2. CASE st2[x] \in S /\ st[x] \in S
  <2>1. new = old
    BY <1>2 DEF In, Moved
  <2> QED BY <2>1, <1>1, <1>2 DEF One
<1>3. CASE st2[x] \in S /\ st[x] \notin S
  <2>1. new = old \cup {x} /\ x \notin old
    BY <1>3 DEF In, Moved
  <2>2. Cardinality(new) = Cardinality(old) + 1
    BY <2>1, <1>1, FS_AddElement
  <2> QED BY <2>2, <1>1, <1>3 DEF One
<1>4. CASE st2[x] \notin S /\ st[x] \in S
  <2>1. new = old \ {x} /\ x \in old
    BY <1>4 DEF In, Moved
  <2>2. Cardinality(new) = Cardinality(old) - 1
    BY <2>1, <1>1, FS_RemoveElement
  <2> QED BY <2>2, <1>1, <1>4 DEF One
<1>5. CASE st2[x] \notin S /\ st[x] \notin S
  <2>1. new = old
    BY <1>5 DEF In, Moved
  <2> QED BY <2>1, <1>1, <1>5 DEF One
<1> QED BY <1>2, <1>3, <1>4, <1>5

----------------------------------------------------------------------------
(* Types and counters.                                                       *)

\* A caller inside queue_work carries a work.
CallersHold == \A q \in Queuers : qstate[q] # "out" => qwork[q] \in Works

\* alloc_workers creates the workers in the order of their slots.
CreatedInOrder ==
    owner = "allocating" => \A i \in Slots : i >= cursor => wstate[i] = "free"

\* Nobody calls the queue before alloc_workqueue returns it.
NotYetShared ==
    owner \in {"allocating", "failed", "unwinding"} =>
        (\A q \in Queuers : qstate[q] = "out") /\ (\A a \in Waiters : astate[a] = "out")

Typed == TypeOK /\ CountersMatch /\ CallersHold /\ CreatedInOrder /\ NotYetShared

LEMMA SlotsFinite == IsFiniteSet(Slots) /\ Cardinality(Slots) = MaxThreads
<1> DEFINE last == MaxThreads - 1
<1>1. last \in Int /\ 0 \in Int /\ ~(0 > last) /\ last - 0 + 1 = MaxThreads
  BY ThreadsAssumption
<1>2. Slots = 0 .. last
  BY DEF Slots
<1> HIDE DEF last
<1>3. /\ IsFiniteSet(0 .. last)
      /\ Cardinality(0 .. last) = IF 0 > last THEN 0 ELSE last - 0 + 1
  BY <1>1, FS_Interval
<1> QED BY <1>1, <1>2, <1>3

LEMMA RingIndex ==
    ASSUME NEW n \in Nat
    PROVE  n % Cap \in 0 .. Cap - 1 /\ n % IdxMod \in 0 .. IdxMod - 1
<1>1. Cap \in Nat \ {0} /\ IdxMod \in Nat \ {0}
  BY SizeAssumption
<1> QED BY <1>1

LEMMA NextIndex ==
    ASSUME NEW n \in 0 .. IdxMod - 1
    PROVE  Next1(n) \in 0 .. IdxMod - 1
  BY RingIndex, n + 1 \in Nat DEF Next1

\* CountMove for a worker and for a caller of queue_work.
LEMMA WorkerMove ==
    ASSUME NEW st \in [Slots -> WorkerStates], NEW i \in Slots,
           NEW st2, Moved(st, st2, i), NEW S
    PROVE  Cardinality(In(st2, S)) =
              Cardinality(In(st, S)) + One(st2[i], S) - One(st[i], S)
  BY CountMove, SlotsFinite

LEMMA QueuerMove ==
    ASSUME NEW st \in [Queuers -> CallerStates], NEW q \in Queuers,
           NEW st2, Moved(st, st2, q), NEW S
    PROVE  Cardinality(In(st2, S)) =
              Cardinality(In(st, S)) + One(st2[q], S) - One(st[q], S)
  BY CountMove, ClientAssumption

\* The counters of a worker's turn, when `sleeping`, `online` and `running`
\* count the other workers, and worker i itself as on line.
LEMMA LoopCounts ==
    ASSUME wstate \in [Slots -> WorkerStates], NEW i \in Slots,
           NEW sleeping, NEW online, NEW running,
           sleeping = Cardinality(In(wstate, Sleeping)) - One(wstate[i], Sleeping),
           online = Cardinality(In(wstate, Online)) - One(wstate[i], Online) + 1,
           running = Cardinality(In(wstate, Running)) - One(wstate[i], Running),
           WaitForEvent(i, sleeping, online, running)
    PROVE  /\ wstate' \in [Slots -> WorkerStates]
           /\ nr_sleeping_workers' = Cardinality(In(wstate', Sleeping))
           /\ nr_online_workers' = Cardinality(In(wstate', Online))
           /\ nr_running_workers' = Cardinality(In(wstate', Running))
<1>1. \A S : Cardinality(In(wstate, S)) \in Nat
  BY InFinite, SlotsFinite, FS_CardinalityType
<1>2. /\ wstate' \in [Slots -> WorkerStates]
      /\ Moved(wstate, wstate', i)
      /\ nr_sleeping_workers' = sleeping + One(wstate'[i], Sleeping)
      /\ nr_online_workers' = online - 1 + One(wstate'[i], Online)
      /\ nr_running_workers' = running + One(wstate'[i], Running)
  <2>1. /\ sleeping \in Int /\ online \in Int /\ running \in Int
    BY <1>1 DEF One
  <2>2. PICK s \in {"gone", "busy", "asleep"} :
           /\ wstate' = [wstate EXCEPT ![i] = s]
           /\ nr_sleeping_workers' = sleeping + One(s, Sleeping)
           /\ nr_online_workers' = online - 1 + One(s, Online)
           /\ nr_running_workers' = running + One(s, Running)
    BY <2>1 DEF WaitForEvent, One, Sleeping, Running, Online
  <2> QED BY <2>2 DEF WorkerStates, Moved
<1>3. \A S : Cardinality(In(wstate', S)) =
                Cardinality(In(wstate, S)) + One(wstate'[i], S) - One(wstate[i], S)
  BY <1>2, WorkerMove
<1>4. \A x, S : One(x, S) \in Int
  BY DEF One
<1> QED BY <1>1, <1>2, <1>3, <1>4

\* Waking sleepers, or moving a worker between states that are not on line,
\* leaves the counted sets as they are.
LEMMA WakeCounts ==
    ASSUME NEW st, NEW st2, Woken(st, st2)
    PROVE  /\ In(st2, Sleeping) = In(st, Sleeping)
           /\ In(st2, Online) = In(st, Online)
           /\ In(st2, Running) = In(st, Running)
  BY WokenIn DEF Sleeping, Online, Running

LEMMA OfflineMove ==
    ASSUME NEW st \in [Slots -> WorkerStates], NEW i \in Slots,
           NEW st2, Moved(st, st2, i), st[i] \notin Online, st2[i] \notin Online
    PROVE  /\ In(st2, Sleeping) = In(st, Sleeping)
           /\ In(st2, Online) = In(st, Online)
           /\ In(st2, Running) = In(st, Running)
  BY DEF In, Moved, Sleeping, Online, Running

\* Counters that match are in their ranges.
LEMMA CountersInRange ==
    ASSUME NEW ws \in [Slots -> WorkerStates], NEW qs \in [Queuers -> CallerStates]
    PROVE  /\ \A S : Cardinality(In(ws, S)) \in 0 .. MaxThreads
           /\ \A S : Cardinality(In(qs, S)) \in 0 .. Cardinality(Queuers)
<1>1. \A S : Cardinality(In(ws, S)) \in 0 .. MaxThreads
  BY InFinite, SlotsFinite
<1>2. \A S : Cardinality(In(qs, S)) \in 0 .. Cardinality(Queuers)
  BY InFinite, ClientAssumption
<1> QED BY <1>1, <1>2

\* What an action owes to the inductive invariant when it leaves the counters
\* and the counted sets alone.
LEMMA SameCounts ==
    ASSUME CountersMatch, UNCHANGED counters,
           In(wstate', Sleeping) = In(wstate, Sleeping),
           In(wstate', Online) = In(wstate, Online),
           In(wstate', Running) = In(wstate, Running),
           In(qstate', Sleeping) = In(qstate, Sleeping)
    PROVE  CountersMatch'
  BY DEF CountersMatch, counters

LEMMA SignalledIsState == "signalled" \in WorkerStates /\ "signalled" \in CallerStates
  BY DEF WorkerStates, CallerStates

LEMMA InitTyped == Init => Typed
<1> SUFFICES ASSUME Init PROVE Typed
  OBVIOUS
<1>1. /\ In(wstate, Sleeping) = {} /\ In(wstate, Online) = {}
      /\ In(wstate, Running) = {} /\ In(qstate, Sleeping) = {}
  BY DEF Init, In, Sleeping, Online, Running, WorkerStates, CallerStates
<1>2. CountersMatch
  BY <1>1, FS_EmptySet DEF CountersMatch, Init
<1>3. TypeOK
  <2>1. Cardinality(Queuers) \in Nat
    BY FS_CardinalityType, ClientAssumption
  <2>2. MaxThreads \in Nat /\ Cap \in Nat \ {0} /\ IdxMod \in Nat \ {0}
    BY ThreadsAssumption, SizeAssumption
  <2>3. 0 \in 0 .. MaxThreads /\ 0 \in 0 .. Cardinality(Queuers) /\ 0 \in 0 .. IdxMod - 1
    BY <2>1, <2>2
  <2> QED BY <2>3 DEF TypeOK, Init, WorkerStates, CallerStates, OwnerStates
<1>4. CallersHold /\ CreatedInOrder /\ NotYetShared
  BY DEF CallersHold, CreatedInOrder, NotYetShared, Init
<1> QED BY <1>2, <1>3, <1>4 DEF Typed

LEMMA OwnerTyped == Typed /\ OwnerStep => Typed'
<1> SUFFICES ASSUME Typed, OwnerStep PROVE Typed'
  OBVIOUS
<1> USE DEF Typed
<1>0. MaxThreads \in Nat \ {0} /\ InitThreads \in 0 .. MaxThreads
  BY ThreadsAssumption
<1>1. /\ wstate' \in [Slots -> WorkerStates]
      /\ In(wstate', Sleeping) = In(wstate, Sleeping)
      /\ In(wstate', Online) = In(wstate, Online)
      /\ In(wstate', Running) = In(wstate, Running)
      /\ cursor' \in 0 .. MaxThreads
      /\ CreatedInOrder'
  <2>1. CASE CreateWorker
    <3>1. cursor \in Slots /\ wstate[cursor] = "free" /\ cursor + 1 \in 0 .. MaxThreads
      BY <1>0, <2>1 DEF CreateWorker, TypeOK, Slots, CreatedInOrder
    <3>2. /\ wstate' \in [Slots -> WorkerStates] /\ Moved(wstate, wstate', cursor)
          /\ wstate'[cursor] = "starting"
      BY <2>1, <3>1 DEF CreateWorker, TypeOK, WorkerStates, Moved
    <3>3. wstate[cursor] \notin Online /\ wstate'[cursor] \notin Online
      BY <3>1, <3>2 DEF Online, Sleeping, Running
    <3>4. CreatedInOrder'
      BY <2>1, <3>1 DEF CreateWorker, CreatedInOrder, TypeOK, Slots
    <3> QED BY <2>1, <3>1, <3>2, <3>3, <3>4, OfflineMove DEF CreateWorker, TypeOK
  <2>2. CASE CreateFails
    <3> DEFINE st == [wstate EXCEPT ![cursor] = "unborn"]
    <3>1. cursor \in Slots /\ wstate[cursor] = "free"
      BY <1>0, <2>2 DEF CreateFails, TypeOK, Slots, CreatedInOrder
    <3>2. /\ st \in [Slots -> WorkerStates] /\ Moved(wstate, st, cursor)
          /\ st[cursor] = "unborn"
      BY <3>1 DEF TypeOK, WorkerStates, Moved
    <3>3. wstate[cursor] \notin Online /\ st[cursor] \notin Online
      BY <3>1, <3>2 DEF Online, Sleeping, Running
    <3>4. wstate' = CondBroadcast(st)
      BY <2>2 DEF CreateFails
    <3> HIDE DEF st
    <3>5. wstate' \in [Slots -> WorkerStates] /\ Woken(st, wstate')
      BY <3>2, <3>4, BroadcastWakes, SignalledIsState
    <3>6. /\ In(st, Sleeping) = In(wstate, Sleeping)
          /\ In(st, Online) = In(wstate, Online)
          /\ In(st, Running) = In(wstate, Running)
      BY <3>1, <3>2, <3>3, OfflineMove DEF TypeOK
    <3>7. /\ In(wstate', Sleeping) = In(st, Sleeping)
          /\ In(wstate', Online) = In(st, Online)
          /\ In(wstate', Running) = In(st, Running)
      BY <3>2, <3>5, WakeCounts
    <3>8. cursor' \in 0 .. MaxThreads /\ CreatedInOrder'
      BY <2>2 DEF CreateFails, TypeOK, CreatedInOrder
    <3> QED BY <3>5, <3>6, <3>7, <3>8
  <2>3. CASE UnwindJoin \/ (JoinWorker /\ wstate[cursor] = "gone")
    <3>1. PICK i \in Slots :
             /\ wstate[i] = "gone" /\ wstate' = [wstate EXCEPT ![i] = "joined"]
             /\ cursor' \in 0 .. MaxThreads /\ owner # "allocating" /\ owner' = owner
      <4>1. CASE UnwindJoin
        <5>1. cursor - 1 \in Slots /\ cursor - 1 \in 0 .. MaxThreads
          BY <1>0, <4>1 DEF UnwindJoin, TypeOK, Slots
        <5> QED BY <4>1, <5>1 DEF UnwindJoin
      <4>2. CASE JoinWorker /\ wstate[cursor] = "gone"
        <5>1. cursor \in Slots /\ cursor + 1 \in 0 .. MaxThreads
          BY <1>0, <4>2 DEF JoinWorker, TypeOK, Slots
        <5> QED BY <4>2, <5>1 DEF JoinWorker
      <4> QED BY <2>3, <4>1, <4>2
    <3>2. /\ wstate' \in [Slots -> WorkerStates] /\ Moved(wstate, wstate', i)
          /\ wstate'[i] = "joined"
      BY <3>1 DEF TypeOK, WorkerStates, Moved
    <3>3. wstate[i] \notin Online /\ wstate'[i] \notin Online
      BY <3>1, <3>2 DEF Online, Sleeping, Running
    <3> QED BY <3>1, <3>2, <3>3, OfflineMove DEF TypeOK, CreatedInOrder
  <2>4. CASE \/ AllocFails \/ AllocReturns \/ UnwindFree \/ JoinAsserts \/ Free
             \/ JoinWorker /\ wstate[cursor] # "gone"
    <3>1. UNCHANGED wstate /\ cursor' \in 0 .. MaxThreads /\ owner' # "allocating"
      BY <1>0, <2>4 DEF AllocFails, AllocReturns, UnwindFree, JoinAsserts, Free, JoinWorker, TypeOK
    <3> QED BY <3>1 DEF TypeOK, CreatedInOrder
  <2> QED BY <2>1, <2>2, <2>3, <2>4 DEF OwnerStep
<1>2. /\ UNCHANGED <<queue_is_blocked, wait_all_is_waiting, counters, queue, job,
                     clients, live>>
      /\ should_stop' \in BOOLEAN /\ owner' \in OwnerStates
  BY DEF OwnerStep, CreateWorker, CreateFails, AllocFails, AllocReturns, UnwindJoin,
         UnwindFree, JoinWorker, JoinAsserts, Free, TypeOK, OwnerStates, counters, queue,
         clients, creator, unchangedByJoin
<1>3. CountersMatch'
  BY <1>1, <1>2, SameCounts DEF clients
<1>4. TypeOK'
  BY <1>1, <1>2 DEF TypeOK, counters, queue, clients
<1>5. CallersHold'
  BY <1>2 DEF CallersHold, clients
<1>6. owner' \in {"allocating", "failed", "unwinding"}
        => owner \in {"allocating", "failed", "unwinding"}
  BY DEF OwnerStep, CreateWorker, CreateFails, AllocFails, AllocReturns, UnwindJoin,
         UnwindFree, JoinWorker, JoinAsserts, Free
<1>7. NotYetShared'
  BY <1>2, <1>6 DEF NotYetShared, clients
<1> QED BY <1>1, <1>3, <1>4, <1>5, <1>7

\* A turn of a worker.
LEMMA WorkerTyped == ASSUME NEW i \in Slots PROVE Typed /\ WorkerStep(i) => Typed'
<1> SUFFICES ASSUME Typed, WorkerStep(i) PROVE Typed'
  OBVIOUS
<1> USE DEF Typed
<1>0. /\ \A S : Cardinality(In(wstate, S)) \in Nat
      /\ \A S, x : x \notin S => One(x, S) = 0
      /\ \A S, x : x \in S => One(x, S) = 1
  BY CountersInRange DEF TypeOK, One
<1>1. CASE ~RunWork(i)
  <2>1. PICK sleeping, online, running :
           /\ WaitForEvent(i, sleeping, online, running)
           /\ sleeping = Cardinality(In(wstate, Sleeping)) - One(wstate[i], Sleeping)
           /\ online = Cardinality(In(wstate, Online)) - One(wstate[i], Online) + 1
           /\ running = Cardinality(In(wstate, Running)) - One(wstate[i], Running)
    <3>1. CASE WorkerStarts(i)
      <4>1. /\ One(wstate[i], Sleeping) = 0 /\ One(wstate[i], Online) = 0
            /\ One(wstate[i], Running) = 0
        BY <3>1 DEF WorkerStarts, One, Sleeping, Online, Running
      <4> QED BY <1>0, <3>1, <4>1 DEF WorkerStarts, CountersMatch
    <3>2. CASE WorkerWakes(i)
      <4>1. /\ One(wstate[i], Sleeping) = 1 /\ One(wstate[i], Online) = 1
            /\ One(wstate[i], Running) = 0
        BY <3>2 DEF WorkerWakes, One, Sleeping, Online, Running
      <4> QED BY <1>0, <3>2, <4>1 DEF WorkerWakes, CountersMatch
    <3>3. CASE WorkerFinishes(i)
      <4>1. /\ One(wstate[i], Sleeping) = 0 /\ One(wstate[i], Online) = 1
            /\ One(wstate[i], Running) = 1
        BY <3>3 DEF WorkerFinishes, One, Sleeping, Online, Running
      <4> QED BY <1>0, <3>3, <4>1 DEF WorkerFinishes, CountersMatch
    <3> QED BY <1>1, <3>1, <3>2, <3>3 DEF WorkerStep
  <2>2. /\ wstate' \in [Slots -> WorkerStates]
        /\ nr_sleeping_workers' = Cardinality(In(wstate', Sleeping))
        /\ nr_online_workers' = Cardinality(In(wstate', Online))
        /\ nr_running_workers' = Cardinality(In(wstate', Running))
    BY <2>1, LoopCounts DEF TypeOK
  <2>3. /\ UNCHANGED <<unchangedByWorkers, live>>
        /\ qstate' = qstate \/ qstate' \in WakeSleepers(1, qstate)
                            \/ qstate' \in WakeSleepers(2, qstate)
    BY <1>1 DEF WorkerStep, WorkerStarts, WorkerWakes, WorkerFinishes,
                wake_up_all_queue_work_callers, WakeSleepers
  <2>4. qstate' \in [Queuers -> CallerStates] /\ Woken(qstate, qstate')
    BY <2>3, SleepersWake, SignalledIsState DEF TypeOK, Woken
  <2>5. In(qstate', Sleeping) = In(qstate, Sleeping)
    BY <2>4, WakeCounts DEF TypeOK
  <2>6. CountersMatch'
    BY <2>2, <2>3, <2>5 DEF CountersMatch, unchangedByWorkers
  <2>7. /\ head' \in 0 .. IdxMod - 1
        /\ job' \in [Slots -> Works \cup {NoWork}]
        /\ astate' \in [Waiters -> CallerStates]
    <3>1. work_list[head % Cap] \in Works \cup {NoWork}
      BY RingIndex, head \in Nat DEF TypeOK
    <3>2. Next1(head) \in 0 .. IdxMod - 1
      BY NextIndex DEF TypeOK
    <3>3. CondBroadcast(astate) \in [Waiters -> CallerStates]
      BY BroadcastWakes, SignalledIsState DEF TypeOK
    <3> QED BY <2>1, <3>1, <3>2, <3>3 DEF WaitForEvent, WakeWaitersIf, TypeOK
  <2>8. TypeOK'
    <3>1. /\ \A S : Cardinality(In(wstate', S)) \in 0 .. MaxThreads
          /\ \A S : Cardinality(In(qstate', S)) \in 0 .. Cardinality(Queuers)
      BY <2>2, <2>4, CountersInRange
    <3> QED BY <2>2, <2>3, <2>4, <2>6, <2>7, <3>1
            DEF TypeOK, CountersMatch, unchangedByWorkers, creator
  <2>9. CallersHold'
    BY <2>3, <2>4 DEF CallersHold, unchangedByWorkers, Woken, TypeOK
  <2>10. CreatedInOrder'
    <3>1. wstate[i] # "free" /\ \A j \in Slots : j # i => wstate'[j] = wstate[j]
      BY <1>1, <2>1 DEF WorkerStep, WorkerStarts, WorkerWakes, WorkerFinishes,
                        WaitForEvent, TypeOK
    <3> QED BY <2>3, <3>1 DEF CreatedInOrder, unchangedByWorkers, creator
  <2>11. NotYetShared'
    <3>1. Woken(astate, astate')
      BY <2>1, BroadcastWakes, SignalledIsState
         DEF WaitForEvent, WakeWaitersIf, TypeOK, Woken
    <3> QED BY <2>3, <2>4, <3>1
            DEF NotYetShared, unchangedByWorkers, creator, Woken, TypeOK
  <2> QED BY <2>6, <2>8, <2>9, <2>10, <2>11
<1>2. CASE RunWork(i)
  <2>1. /\ wstate' \in [Slots -> WorkerStates] /\ Moved(wstate, wstate', i)
        /\ wstate[i] = "busy" /\ wstate'[i] = "served"
    BY <1>2 DEF RunWork, TypeOK, WorkerStates, Moved
  <2>2. /\ In(wstate', Sleeping) = In(wstate, Sleeping)
        /\ In(wstate', Online) = In(wstate, Online)
        /\ In(wstate', Running) = In(wstate, Running)
    BY <2>1 DEF In, Moved, Sleeping, Online, Running, TypeOK
  <2>3. CountersMatch' /\ UNCHANGED <<counters, qstate, qwork>>
    BY <1>2, <2>2, SameCounts DEF RunWork, unchangedByWorkers, counters
  <2>4. TypeOK'
    BY <1>2, <2>1 DEF RunWork, TypeOK, unchangedByWorkers, creator
  <2>5. CallersHold' /\ CreatedInOrder' /\ NotYetShared'
    BY <1>2, <2>1, <2>3
       DEF RunWork, CallersHold, CreatedInOrder, NotYetShared, unchangedByWorkers,
           creator, Moved, TypeOK
  <2> QED BY <2>3, <2>4, <2>5
<1> QED BY <1>1, <1>2

\* Arming a worker wakes a sleeper or moves a thread that is not on line.
LEMMA ArmTyped ==
    ASSUME wstate \in [Slots -> WorkerStates], arm_worker
    PROVE  /\ wstate' \in [Slots -> WorkerStates]
           /\ In(wstate', Sleeping) = In(wstate, Sleeping)
           /\ In(wstate', Online) = In(wstate, Online)
           /\ In(wstate', Running) = In(wstate, Running)
<1>1. CASE wstate' \in CondSignal(wstate)
  <2>1. wstate' \in [Slots -> WorkerStates] /\ Woken(wstate, wstate')
    BY <1>1, SignalWakes, SignalledIsState
  <2> QED BY <2>1, WakeCounts
<1>2. ASSUME NEW i \in Slots, NEW s \in {"starting", "unborn"},
             wstate[i] = "free", wstate' = [wstate EXCEPT ![i] = s]
      PROVE  /\ wstate' \in [Slots -> WorkerStates]
             /\ In(wstate', Sleeping) = In(wstate, Sleeping)
             /\ In(wstate', Online) = In(wstate, Online)
             /\ In(wstate', Running) = In(wstate, Running)
  <2>1. /\ wstate' \in [Slots -> WorkerStates] /\ Moved(wstate, wstate', i)
        /\ wstate'[i] = s
    BY <1>2 DEF WorkerStates, Moved
  <2>2. wstate[i] \notin Online /\ wstate'[i] \notin Online
    BY <1>2, <2>1 DEF Online, Sleeping, Running
  <2> QED BY <2>1, <2>2, OfflineMove
<1>3. CASE UNCHANGED wstate
  BY <1>3
<1> QED BY <1>1, <1>2, <1>3 DEF arm_worker, arm_spawn_worker, get_free_worker_slot

\* A turn of queue_work.
LEMMA QueueTyped ==
    ASSUME Typed, NEW q \in Queuers, NEW w \in Works, NEW others,
           others = Cardinality(In(qstate, Sleeping)) - One(qstate[q], Sleeping),
           TryQueueWork(q, w, others), owner \notin {"allocating", "failed", "unwinding"}
    PROVE  Typed'
<1> USE DEF Typed
<1>1. /\ wstate' \in [Slots -> WorkerStates]
      /\ In(wstate', Sleeping) = In(wstate, Sleeping)
      /\ In(wstate', Online) = In(wstate, Online)
      /\ In(wstate', Running) = In(wstate, Running)
  <2>1. CASE UNCHANGED wstate
    BY <2>1 DEF TypeOK
  <2>2. CASE arm_worker
    BY <2>2, ArmTyped DEF TypeOK
  <2> QED BY <2>1, <2>2 DEF TryQueueWork, Refused, Accepted, PutToSleep
<1>2. /\ qstate' \in [Queuers -> CallerStates] /\ Moved(qstate, qstate', q)
      /\ qwork' \in [Queuers -> Works \cup {NoWork}] /\ Moved(qwork, qwork', q)
      /\ qstate'[q] # "out" => qwork'[q] \in Works
      /\ nr_sleeping_queuers' = others + One(qstate'[q], Sleeping)
  <2>1. others \in Int
    BY CountersInRange DEF TypeOK, One
  <2>2. CASE qstate' = [qstate EXCEPT ![q] = "out"]
    <3>1. qwork' = [qwork EXCEPT ![q] = NoWork] /\ nr_sleeping_queuers' = others
      BY <2>2 DEF TryQueueWork, Refused, Accepted, PutToSleep, TypeOK
    <3> QED BY <2>1, <2>2, <3>1 DEF TypeOK, CallerStates, Moved, One, Sleeping
  <2>3. CASE /\ qstate' = [qstate EXCEPT ![q] = "asleep"]
             /\ qwork' = [qwork EXCEPT ![q] = w]
             /\ nr_sleeping_queuers' = others + 1
    BY <2>1, <2>3 DEF TypeOK, CallerStates, Moved, One, Sleeping
  <2> QED BY <2>2, <2>3 DEF TryQueueWork, Refused, Accepted, PutToSleep
<1>3. /\ tail' \in 0 .. IdxMod - 1
      /\ work_list' \in [0 .. Cap - 1 -> Works \cup {NoWork}]
      /\ live' \subseteq Works
  <2>1. tail % Cap \in 0 .. Cap - 1 /\ Next1(tail) \in 0 .. IdxMod - 1
    BY RingIndex, NextIndex, tail \in Nat DEF TypeOK
  <2> QED BY <2>1 DEF TryQueueWork, Refused, Accepted, PutToSleep, TypeOK
<1>4. UNCHANGED <<should_stop, queue_is_blocked, wait_all_is_waiting,
                  nr_sleeping_workers, nr_online_workers, nr_running_workers,
                  head, job, astate, owner, cursor>>
  BY DEF TryQueueWork, creator
<1>5. CountersMatch'
  <2>1. Cardinality(In(qstate', Sleeping)) =
           Cardinality(In(qstate, Sleeping))
              + One(qstate'[q], Sleeping) - One(qstate[q], Sleeping)
    BY <1>2, QueuerMove DEF TypeOK
  <2>2. Cardinality(In(qstate, Sleeping)) \in Nat
    BY CountersInRange DEF TypeOK
  <2>3. \A x : One(x, Sleeping) \in Int
    BY DEF One
  <2>4. nr_sleeping_queuers' = Cardinality(In(qstate', Sleeping))
    BY <1>2, <2>1, <2>2, <2>3
  <2> QED BY <1>1, <1>4, <2>4 DEF CountersMatch
<1>6. TypeOK'
  <2>1. /\ \A S : Cardinality(In(wstate', S)) \in 0 .. MaxThreads
        /\ \A S : Cardinality(In(qstate', S)) \in 0 .. Cardinality(Queuers)
    BY <1>1, <1>2, CountersInRange
  <2> QED BY <1>1, <1>2, <1>3, <1>4, <1>5, <2>1 DEF TypeOK, CountersMatch
<1>7. CallersHold'
  BY <1>2 DEF CallersHold, Moved, TypeOK
<1>8. CreatedInOrder' /\ NotYetShared'
  BY <1>4 DEF CreatedInOrder, NotYetShared
<1> QED BY <1>5, <1>6, <1>7, <1>8

LEMMA QueueStepTyped ==
    ASSUME NEW q \in Queuers, NEW w \in Works
    PROVE  Typed /\ (ResumeQueueWork(q) \/ QueueWork(q, w)) => Typed'
<1>1. ASSUME Typed, QueueWork(q, w) PROVE Typed'
  <2>1. qstate[q] = "out" /\ owner \notin {"allocating", "failed", "unwinding"}
          /\ TryQueueWork(q, w, nr_sleeping_queuers)
    BY <1>1 DEF QueueWork, Usable
  <2>2. nr_sleeping_queuers =
           Cardinality(In(qstate, Sleeping)) - One(qstate[q], Sleeping)
    BY <1>1, <2>1 DEF Typed, CountersMatch, TypeOK, One, Sleeping
  <2> QED BY <1>1, <2>1, <2>2, QueueTyped
<1>2. ASSUME Typed, ResumeQueueWork(q) PROVE Typed'
  <2>1. qstate[q] = "signalled" /\ qwork[q] \in Works
    BY <1>2 DEF ResumeQueueWork, Typed, CallersHold
  <2>2. PICK others : others = nr_sleeping_queuers - 1 /\ TryQueueWork(q, qwork[q], others)
    BY <1>2 DEF ResumeQueueWork
  <2>3. others = Cardinality(In(qstate, Sleeping)) - One(qstate[q], Sleeping)
    BY <1>2, <2>1, <2>2 DEF Typed, CountersMatch, TypeOK, One, Sleeping
  <2>4. owner \notin {"allocating", "failed", "unwinding"}
    BY <1>2, <2>1 DEF Typed, NotYetShared
  <2> QED BY <1>2, <2>1, <2>2, <2>3, <2>4, QueueTyped
<1> QED BY <1>1, <1>2

\* A turn of wait_all_work_done.
LEMMA WaiterTyped ==
    ASSUME NEW a \in Waiters
    PROVE  Typed /\ (WaitAll(a) \/ ResumeWaitAll(a)) => Typed'
<1> SUFFICES ASSUME Typed, WaitAll(a) \/ ResumeWaitAll(a) PROVE Typed'
  OBVIOUS
<1> USE DEF Typed
<1>1. UNCHANGED unchangedByWaiters
  BY DEF WaitAll, ResumeWaitAll
<1>2. CountersMatch' /\ CallersHold' /\ CreatedInOrder'
  BY <1>1 DEF unchangedByWaiters, counters, creator, CountersMatch, CallersHold,
              CreatedInOrder
<1>3. /\ queue_is_blocked' \in BOOLEAN
      /\ wait_all_is_waiting' \in BOOLEAN
      /\ astate' \in [Waiters -> CallerStates]
  BY DEF WaitAll, ResumeWaitAll, WaitAllSleeps, WaitAllReturns, TypeOK, CallerStates
<1>4. TypeOK'
  BY <1>1, <1>3 DEF TypeOK, unchangedByWaiters, counters, queue, creator
<1>5. owner \notin {"allocating", "failed", "unwinding"}
  BY DEF WaitAll, ResumeWaitAll, Usable, NotYetShared
<1>6. NotYetShared'
  BY <1>1, <1>5 DEF NotYetShared, unchangedByWaiters, creator
<1> QED BY <1>2, <1>4, <1>6

\* The first half of destroy_workqueue.
LEMMA DestroyTyped == Typed /\ Destroy => Typed'
<1> SUFFICES ASSUME Typed, Destroy PROVE Typed'
  OBVIOUS
<1> USE DEF Typed
<1>1. wstate' \in [Slots -> WorkerStates] /\ Woken(wstate, wstate')
  BY SleepersWake, SignalledIsState DEF Destroy, wake_up_all_workers, TypeOK
<1>2. /\ In(wstate', Sleeping) = In(wstate, Sleeping)
      /\ In(wstate', Online) = In(wstate, Online)
      /\ In(wstate', Running) = In(wstate, Running)
  BY <1>1, WakeCounts
<1>3. CountersMatch'
  BY <1>2, SameCounts DEF Destroy
<1>4. CallersHold' /\ CreatedInOrder' /\ NotYetShared'
  BY DEF Destroy, CallersHold, CreatedInOrder, NotYetShared
<1>5. astate' \in [Waiters -> CallerStates]
  BY BroadcastWakes, SignalledIsState
     DEF Destroy, wake_up_all_workers, WakeWaitersIf, TypeOK
<1>6. TypeOK'
  BY <1>1, <1>5, ThreadsAssumption DEF Destroy, TypeOK, counters, OwnerStates
<1> QED BY <1>3, <1>4, <1>6

LEMMA SpuriousTyped == Typed /\ SpuriousWakeup => Typed'
<1> SUFFICES ASSUME Typed, SpuriousWakeup PROVE Typed'
  OBVIOUS
<1> USE DEF Typed
<1>1. /\ wstate' \in [Slots -> WorkerStates] /\ Woken(wstate, wstate')
      /\ qstate' \in [Queuers -> CallerStates] /\ Woken(qstate, qstate')
      /\ astate' \in [Waiters -> CallerStates] /\ Woken(astate, astate')
  BY SignalledIsState DEF SpuriousWakeup, Woken, TypeOK, In
<1>2. /\ In(wstate', Sleeping) = In(wstate, Sleeping)
      /\ In(wstate', Online) = In(wstate, Online)
      /\ In(wstate', Running) = In(wstate, Running)
      /\ In(qstate', Sleeping) = In(qstate, Sleeping)
  BY <1>1, WakeCounts
<1>3. CountersMatch'
  BY <1>2, SameCounts DEF SpuriousWakeup
<1>4. TypeOK'
  BY <1>1 DEF SpuriousWakeup, TypeOK, counters, queue, creator
<1>5. CallersHold' /\ CreatedInOrder' /\ NotYetShared'
  BY <1>1 DEF SpuriousWakeup, CallersHold, CreatedInOrder, NotYetShared, creator,
              Woken, TypeOK
<1> QED BY <1>3, <1>4, <1>5

LEMMA NextTyped == Typed /\ [Next]_vars => Typed'
<1> SUFFICES ASSUME Typed, [Next]_vars PROVE Typed'
  OBVIOUS
<1>1. CASE OwnerStep
  BY <1>1, OwnerTyped
<1>2. CASE Destroy
  BY <1>2, DestroyTyped
<1>3. ASSUME NEW i \in Slots, WorkerStep(i) PROVE Typed'
  BY <1>3, WorkerTyped
<1>4. ASSUME NEW q \in Queuers, NEW w \in Works, QueueWork(q, w) PROVE Typed'
  BY <1>4, QueueStepTyped
<1>5. ASSUME NEW q \in Queuers, ResumeQueueWork(q) PROVE Typed'
  <2>1. qwork[q] \in Works
    BY <1>5 DEF ResumeQueueWork, Typed, CallersHold
  <2> QED BY <1>5, <2>1, QueueStepTyped
<1>6. ASSUME NEW a \in Waiters, WaitAll(a) \/ ResumeWaitAll(a) PROVE Typed'
  BY <1>6, WaiterTyped
<1>7. CASE SpuriousWakeup
  BY <1>7, SpuriousTyped
<1>8. CASE UNCHANGED vars
  BY <1>8 DEF vars, counters, queue, clients, creator, Typed, TypeOK, CountersMatch,
              CallersHold, CreatedInOrder, NotYetShared
<1> QED BY <1>1, <1>2, <1>3, <1>4, <1>5, <1>6, <1>7, <1>8 DEF Next

LEMMA AlwaysTyped == Spec => []Typed
  BY InitTyped, NextTyped, PTL DEF Spec

\* The fields have their types in every reachable state.
THEOREM TypeCorrect == Spec => []TypeOK
<1>1. Typed => TypeOK
  BY DEF Typed
<1> QED BY <1>1, AlwaysTyped, PTL

\* The counters workers, callers and destroyers decide by never drift from what
\* the threads are doing, however signals, spurious wake-ups and lock
\* acquisitions interleave.
THEOREM CountersCorrect == Spec => []CountersMatch
<1>1. Typed => CountersMatch
  BY DEF Typed
<1> QED BY <1>1, AlwaysTyped, PTL

----------------------------------------------------------------------------
(* The wake-ups.  The work queue loses none it is obliged to give: to its    *)
(* workers when a work is queued, and to wait_all_work_done when the queue   *)
(* drains.                                                                   *)

\* The ring holds at most Cap works, counted on the wrapped indexes.
RingBounded ==
    IF tail >= head THEN tail - head <= Cap ELSE tail + IdxMod - head <= Cap

\* The queue is stopped exactly while it is being torn down, and then empty.
StopKnown == should_stop <=> owner \in {"unwinding", "joining", "freed", "aborted"}
EmptyWhenStopped == should_stop \/ owner = "allocating" => head = tail

\* Workers leave only a stopped queue.
GoneOnlyStopped == ~should_stop => \A i \in Slots : wstate[i] \notin {"gone", "joined"}

\* The first worker alloc_workers created is there while the queue is in use.
FirstWorker ==
    InitThreads > 0 /\ (owner = "ready" \/ (owner = "allocating" /\ cursor > 0)) =>
        wstate[0] \notin {"free", "unborn"}
SpawnReliable == ~CreateMayFail => \A i \in Slots : wstate[i] # "unborn"

Stage == /\ RingBounded /\ StopKnown /\ EmptyWhenStopped /\ GoneOnlyStopped
         /\ FirstWorker /\ SpawnReliable

LEMMA SizeFacts ==
    /\ Cap \in Nat \ {0} /\ IdxMod \in Nat \ {0} /\ 2 * Cap <= IdxMod
    /\ MaxThreads \in Nat \ {0} /\ InitThreads \in 0 .. MaxThreads
    /\ 0 \in Slots
  BY SizeAssumption, ThreadsAssumption DEF Slots

LEMMA NextIs ==
    ASSUME NEW n \in 0 .. IdxMod - 1
    PROVE  Next1(n) = IF n = IdxMod - 1 THEN 0 ELSE n + 1
<1>1. CASE n = IdxMod - 1
  BY <1>1, SizeFacts DEF Next1
<1>2. CASE n # IdxMod - 1
  BY <1>2, SizeFacts DEF Next1
<1> QED BY <1>1, <1>2

\* The test of try_queue_work_locked, made on wrapped indexes, is at least as
\* strict as it should be.
LEMMA AcceptFits ==
    ASSUME TypeOK, RingBounded, ~Full, tail' = Next1(tail), head' = head
    PROVE  RingBounded' /\ head' # tail'
<1>1. tail' = IF tail = IdxMod - 1 THEN 0 ELSE tail + 1
  BY NextIs DEF TypeOK
<1> QED BY <1>1, SizeFacts DEF TypeOK, RingBounded, Full, count_pending_works

LEMMA TakeFits ==
    ASSUME TypeOK, RingBounded, head # tail, head' = Next1(head), tail' = tail
    PROVE  RingBounded'
<1>1. head' = IF head = IdxMod - 1 THEN 0 ELSE head + 1
  BY NextIs DEF TypeOK
<1> QED BY <1>1, SizeFacts DEF TypeOK, RingBounded

LEMMA InitStage == Init => Stage
  BY SizeFacts DEF Init, Stage, RingBounded, StopKnown, EmptyWhenStopped, GoneOnlyStopped,
                   FirstWorker, SpawnReliable

LEMMA OwnerStage == Typed /\ Stage /\ OwnerStep => Stage'
<1> SUFFICES ASSUME Typed, Stage, OwnerStep PROVE Stage'
  OBVIOUS
<1> USE SizeFacts DEF Typed, Stage
<1>1. UNCHANGED <<head, tail>>
  BY DEF OwnerStep, CreateWorker, CreateFails, AllocFails, AllocReturns, UnwindJoin,
         UnwindFree, JoinWorker, JoinAsserts, Free, queue, unchangedByJoin
<1>2. RingBounded'
  BY <1>1 DEF RingBounded
<1>3. StopKnown' /\ EmptyWhenStopped'
  BY <1>1 DEF OwnerStep, CreateWorker, CreateFails, AllocFails, AllocReturns, UnwindJoin,
              UnwindFree, JoinWorker, JoinAsserts, Free, unchangedByJoin, StopKnown, EmptyWhenStopped
<1>4. CASE CreateWorker
  <2>1. cursor \in Slots /\ wstate' = [wstate EXCEPT ![cursor] = "starting"]
          /\ UNCHANGED should_stop /\ owner = "allocating" /\ owner' = owner
    BY <1>4 DEF CreateWorker, TypeOK, Slots
  <2>2. GoneOnlyStopped' /\ SpawnReliable' /\ FirstWorker'
    BY <1>4, <2>1 DEF CreateWorker, GoneOnlyStopped, SpawnReliable, FirstWorker, TypeOK
  <2> QED BY <1>2, <1>3, <2>2
<1>5. CASE CreateFails
  <2>1. should_stop' /\ owner' = "unwinding" /\ CreateMayFail
    BY <1>5 DEF CreateFails
  <2> QED BY <1>2, <1>3, <2>1 DEF GoneOnlyStopped, SpawnReliable, FirstWorker
<1>6. CASE AllocReturns \/ AllocFails
  BY <1>2, <1>3, <1>6
     DEF AllocReturns, AllocFails, GoneOnlyStopped, SpawnReliable, FirstWorker, TypeOK
<1>7. CASE UnwindJoin \/ UnwindFree \/ JoinWorker \/ JoinAsserts \/ Free
  <2>1. should_stop' /\ owner' \notin {"allocating", "ready"}
    BY <1>3, <1>7 DEF UnwindJoin, UnwindFree, JoinWorker, JoinAsserts, Free, unchangedByJoin,
                      StopKnown
  <2>2. \A i \in Slots : wstate'[i] \in {wstate[i], "joined"}
    BY <1>7 DEF UnwindJoin, UnwindFree, JoinWorker, JoinAsserts, Free, TypeOK, unchangedByJoin
  <2> QED BY <1>2, <1>3, <2>1, <2>2 DEF GoneOnlyStopped, SpawnReliable, FirstWorker
<1> QED BY <1>4, <1>5, <1>6, <1>7 DEF OwnerStep

LEMMA WorkerStage == ASSUME NEW i \in Slots PROVE Typed /\ Stage /\ WorkerStep(i) => Stage'
<1> SUFFICES ASSUME Typed, Stage, WorkerStep(i) PROVE Stage'
  OBVIOUS
<1> USE SizeFacts DEF Typed, Stage
<1>1. /\ UNCHANGED <<should_stop, tail, owner, cursor>>
      /\ \/ head' = head
         \/ head # tail /\ ~MustExit /\ head' = Next1(head)
      /\ wstate[i] \notin {"free", "unborn"}
      /\ \E s \in {"gone", "busy", "asleep", "served"} :
            wstate' = [wstate EXCEPT ![i] = s] /\ (s = "gone" => should_stop)
  BY DEF WorkerStep, WorkerStarts, WorkerWakes, RunWork, WorkerFinishes, WaitForEvent,
         unchangedByWorkers, creator, MustExit
<1>2. RingBounded'
  BY <1>1, TakeFits DEF RingBounded
<1>3. StopKnown' /\ EmptyWhenStopped'
  BY <1>1 DEF StopKnown, EmptyWhenStopped
<1>4. GoneOnlyStopped' /\ SpawnReliable' /\ FirstWorker'
  BY <1>1 DEF GoneOnlyStopped, SpawnReliable, FirstWorker, TypeOK
<1> QED BY <1>2, <1>3, <1>4

\* What arm_worker may do to a thread.
LEMMA ArmMoves ==
    ASSUME TypeOK, arm_worker, NEW i \in Slots
    PROVE  \/ wstate'[i] = wstate[i]
           \/ wstate[i] = "asleep" /\ wstate'[i] = "signalled"
           \/ wstate[i] = "free" /\ wstate'[i] = "starting"
           \/ wstate[i] = "free" /\ wstate'[i] = "unborn" /\ CreateMayFail
<1>1. CASE wstate' \in CondSignal(wstate)
  BY <1>1, SignalWakes, SignalledIsState DEF TypeOK, Woken
<1>2. CASE arm_spawn_worker
  BY <1>2 DEF arm_spawn_worker, get_free_worker_slot, TypeOK
<1> QED BY <1>1, <1>2 DEF arm_worker

LEMMA QueueStage ==
    ASSUME Typed, Stage, NEW q, NEW w, NEW others, TryQueueWork(q, w, others),
           owner \notin {"allocating", "failed", "unwinding"}
    PROVE  Stage'
<1> USE SizeFacts DEF Typed, Stage
<1>1. UNCHANGED <<should_stop, head, owner, cursor>>
  BY DEF TryQueueWork, creator
<1>2. CASE Accepted(q, w)
  <2>1. ~should_stop /\ ~Full /\ tail' = Next1(tail) /\ arm_worker
    BY <1>2 DEF Accepted
  <2>2. RingBounded'
    BY <1>1, <2>1, AcceptFits
  <2>3. StopKnown' /\ EmptyWhenStopped'
    BY <1>1, <2>1 DEF StopKnown, EmptyWhenStopped
  <2>4. GoneOnlyStopped' /\ SpawnReliable' /\ FirstWorker'
    BY <1>1, <2>1, ArmMoves DEF GoneOnlyStopped, SpawnReliable, FirstWorker
  <2> QED BY <2>2, <2>3, <2>4
<1>3. CASE Refused(q) \/ PutToSleep(q, w)
  BY <1>1, <1>3 DEF Refused, PutToSleep, RingBounded, StopKnown, EmptyWhenStopped,
                    GoneOnlyStopped, SpawnReliable, FirstWorker
<1> QED BY <1>2, <1>3 DEF TryQueueWork

LEMMA DestroyStage == Typed /\ Stage /\ Destroy => Stage'
<1> SUFFICES ASSUME Typed, Stage, Destroy PROVE Stage'
  OBVIOUS
<1> USE SizeFacts DEF Typed, Stage
<1>1. should_stop' /\ head' = tail /\ tail' = tail /\ owner' = "joining"
  BY DEF Destroy
<1>2. Woken(wstate, wstate')
  BY SleepersWake, SignalledIsState DEF Destroy, wake_up_all_workers, TypeOK
<1>3. RingBounded' /\ StopKnown' /\ EmptyWhenStopped'
  BY <1>1 DEF RingBounded, StopKnown, EmptyWhenStopped, TypeOK
<1>4. GoneOnlyStopped' /\ SpawnReliable' /\ FirstWorker'
  BY <1>1, <1>2 DEF GoneOnlyStopped, SpawnReliable, FirstWorker, Woken, TypeOK
<1> QED BY <1>3, <1>4

LEMMA QuietStage ==
    ASSUME TypeOK, Stage, Woken(wstate, wstate'),
           UNCHANGED <<should_stop, head, tail, owner, cursor>>
    PROVE  Stage'
  BY SizeFacts DEF Stage, RingBounded, StopKnown, EmptyWhenStopped, GoneOnlyStopped,
                   FirstWorker, SpawnReliable, Woken, TypeOK

LEMMA NextStage == Typed /\ Stage /\ [Next]_vars => Stage'
<1> SUFFICES ASSUME Typed, Stage, [Next]_vars PROVE Stage'
  OBVIOUS
<1>1. CASE OwnerStep
  BY <1>1, OwnerStage
<1>2. CASE Destroy
  BY <1>2, DestroyStage
<1>3. ASSUME NEW i \in Slots, WorkerStep(i) PROVE Stage'
  BY <1>3, WorkerStage
<1>4. ASSUME NEW q \in Queuers, NEW w \in Works, QueueWork(q, w) PROVE Stage'
  BY <1>4, QueueStage DEF QueueWork, Usable
<1>5. ASSUME NEW q \in Queuers, ResumeQueueWork(q) PROVE Stage'
  <2>1. PICK others : TryQueueWork(q, qwork[q], others)
    BY <1>5 DEF ResumeQueueWork
  <2>2. owner \notin {"allocating", "failed", "unwinding"}
    BY <1>5 DEF ResumeQueueWork, Typed, NotYetShared
  <2> QED BY <2>1, <2>2, QueueStage
<1>6. ASSUME NEW a \in Waiters, WaitAll(a) \/ ResumeWaitAll(a) PROVE Stage'
  BY <1>6, QuietStage DEF WaitAll, ResumeWaitAll, unchangedByWaiters, queue, creator,
                          Woken, Typed
<1>7. CASE SpuriousWakeup
  <2>1. Woken(wstate, wstate')
    BY <1>7 DEF SpuriousWakeup, Woken, In, Typed, TypeOK
  <2> QED BY <1>7, <2>1, QuietStage DEF SpuriousWakeup, queue, creator, Typed
<1>8. CASE UNCHANGED vars
  BY <1>8, QuietStage DEF vars, queue, creator, Woken, Typed
<1> QED BY <1>1, <1>2, <1>3, <1>4, <1>5, <1>6, <1>7, <1>8 DEF Next

----------------------------------------------------------------------------
(* wait_all_work_done is not forgotten.                                      *)

\* If none sleeps in st, none sleeps after a wake-up or a return.
LEMMA NobodyAsleep ==
    ASSUME NEW st
    PROVE  In(CondBroadcast(st), {"asleep"}) = {}
  BY DEF In, CondBroadcast

LEMMA ZeroRunning == TypeOK => (NotDone <=> head # tail \/ nr_running_workers > 0)
  BY DEF NotDone, count_pending_works, TypeOK

LEMMA WorkerWatched ==
    ASSUME NEW i \in Slots
    PROVE  Typed /\ Stage /\ WaiterWatched /\ WorkerStep(i) => WaiterWatched'
<1> SUFFICES ASSUME Typed, Stage, WaiterWatched, WorkerStep(i) PROVE WaiterWatched'
  OBVIOUS
<1>1. UNCHANGED <<should_stop, wait_all_is_waiting, tail>>
  BY DEF WorkerStep, WorkerStarts, WorkerWakes, RunWork, WorkerFinishes,
         unchangedByWorkers
<1>2. CASE RunWork(i)
  BY <1>1, <1>2 DEF RunWork, WaiterWatched
<1>3. ASSUME NEW sleeping, NEW online, NEW running,
             running \in Nat, WaitForEvent(i, sleeping, online, running)
      PROVE  WaiterWatched'
  <2>1. CASE MustExit
    BY <1>1, <1>3, <2>1 DEF WaitForEvent, MustExit, WaiterWatched
  <2>2. CASE ~MustExit /\ head # tail
    BY <1>1, <1>3, <2>2 DEF WaitForEvent, WaiterWatched
  <2>3. CASE ~MustExit /\ head = tail
    <3>1. CASE wait_all_is_waiting
      BY <1>3, <2>3, <3>1, NobodyAsleep DEF WaitForEvent, WakeWaitersIf, WaiterWatched
    <3>2. CASE ~wait_all_is_waiting
      BY <1>1, <1>3, <2>3, <3>2 DEF WaitForEvent, WakeWaitersIf, WaiterWatched
    <3> QED BY <3>1, <3>2
  <2> QED BY <2>1, <2>2, <2>3
<1>4. nr_running_workers \in Nat
  BY DEF Typed, TypeOK
<1>5. CASE WorkerStarts(i) \/ WorkerWakes(i)
  BY <1>3, <1>4, <1>5 DEF WorkerStarts, WorkerWakes
<1>6. CASE WorkerFinishes(i)
  <2>1. PICK running : /\ running = nr_running_workers - 1
                       /\ WaitForEvent(i, nr_sleeping_workers, nr_online_workers, running)
    BY <1>6 DEF WorkerFinishes
  <2>2. Cardinality(In(wstate, Running)) # 0
    <3>1. i \in In(wstate, Running)
      BY <1>6 DEF WorkerFinishes, In, Running, Typed, TypeOK
    <3>2. IsFiniteSet(In(wstate, Running))
      BY InFinite, SlotsFinite DEF Typed, TypeOK
    <3> QED BY <3>1, <3>2, FS_EmptySet
  <2>3. running \in Nat
    BY <1>4, <2>1, <2>2 DEF Typed, CountersMatch
  <2> QED BY <1>3, <2>1, <2>3
<1> QED BY <1>2, <1>5, <1>6 DEF WorkerStep

LEMMA QueueWatched ==
    ASSUME Typed, Stage, WaiterWatched, NEW q, NEW w, NEW others,
           TryQueueWork(q, w, others)
    PROVE  WaiterWatched'
<1>1. UNCHANGED <<should_stop, wait_all_is_waiting, nr_running_workers, head, astate>>
  BY DEF TryQueueWork
<1>2. UNCHANGED tail \/ head' # tail'
  BY <1>1, AcceptFits
     DEF TryQueueWork, Refused, Accepted, PutToSleep, Typed, Stage
<1> QED BY <1>1, <1>2 DEF WaiterWatched

LEMMA WaiterStepWatched ==
    ASSUME Typed, WaiterWatched, NEW a \in Waiters, WaitAll(a) \/ ResumeWaitAll(a)
    PROVE  WaiterWatched'
<1>1. UNCHANGED <<should_stop, nr_running_workers, head, tail>>
  BY DEF WaitAll, ResumeWaitAll, unchangedByWaiters, counters, queue
<1>2. CASE WaitAllSleeps(a)
  BY <1>1, <1>2, ZeroRunning DEF WaitAllSleeps, WaiterWatched, Typed
<1>3. ASSUME NEW flag, WaitAllReturns(a, flag) PROVE WaiterWatched'
  <2>1. In(astate, {"asleep"}) = {}
    BY <1>3, ZeroRunning DEF WaitAllReturns, WaiterWatched, Typed
  <2>2. In(astate', {"asleep"}) = {}
    BY <1>3, <2>1 DEF WaitAllReturns, In, Typed, TypeOK
  <2> QED BY <2>2 DEF WaiterWatched
<1> QED BY <1>2, <1>3 DEF WaitAll, ResumeWaitAll

LEMMA NextWatched == Typed /\ Stage /\ WaiterWatched /\ [Next]_vars => WaiterWatched'
<1> SUFFICES ASSUME Typed, Stage, WaiterWatched, [Next]_vars PROVE WaiterWatched'
  OBVIOUS
<1>1. CASE OwnerStep
  <2>1. UNCHANGED <<wait_all_is_waiting, nr_running_workers, head, tail, astate>>
    BY <1>1 DEF OwnerStep, CreateWorker, CreateFails, AllocFails, AllocReturns, UnwindJoin,
                UnwindFree, JoinWorker, JoinAsserts, Free, unchangedByJoin, counters, queue, clients
  <2>2. CASE CreateFails
    BY <2>1, <2>2 DEF CreateFails, WaiterWatched, Typed, NotYetShared, In, TypeOK
  <2>3. CASE ~CreateFails
    <3>1. UNCHANGED should_stop
      BY <1>1, <2>3 DEF OwnerStep, CreateWorker, AllocFails, AllocReturns, UnwindJoin,
                        UnwindFree, JoinWorker, JoinAsserts, Free, unchangedByJoin
    <3> QED BY <2>1, <3>1 DEF WaiterWatched
  <2> QED BY <2>2, <2>3
<1>2. CASE Destroy
  <2>1. In(astate', {"asleep"}) = {}
    BY <1>2, NobodyAsleep DEF Destroy, wake_up_all_workers, WakeWaitersIf, WaiterWatched
  <2> QED BY <2>1 DEF WaiterWatched
<1>3. ASSUME NEW i \in Slots, WorkerStep(i) PROVE WaiterWatched'
  BY <1>3, WorkerWatched
<1>4. ASSUME NEW q \in Queuers, NEW w \in Works, QueueWork(q, w) PROVE WaiterWatched'
  BY <1>4, QueueWatched DEF QueueWork
<1>5. ASSUME NEW q \in Queuers, ResumeQueueWork(q) PROVE WaiterWatched'
  BY <1>5, QueueWatched DEF ResumeQueueWork
<1>6. ASSUME NEW a \in Waiters, WaitAll(a) \/ ResumeWaitAll(a) PROVE WaiterWatched'
  BY <1>6, WaiterStepWatched
<1>7. CASE SpuriousWakeup
  BY <1>7 DEF SpuriousWakeup, WaiterWatched, In, counters, queue, Typed, TypeOK
<1>8. CASE UNCHANGED vars
  BY <1>8 DEF vars, counters, queue, clients, WaiterWatched
<1> QED BY <1>1, <1>2, <1>3, <1>4, <1>5, <1>6, <1>7, <1>8 DEF Next

\* A caller that wakes keeps being counted inside until it returns.
LEMMA NextBlocked == Typed /\ BlockedHasWaiter /\ [Next]_vars => BlockedHasWaiter'
<1> SUFFICES ASSUME Typed, BlockedHasWaiter, [Next]_vars PROVE BlockedHasWaiter'
  OBVIOUS
<1>1. ASSUME UNCHANGED queue_is_blocked, Woken(astate, astate')
      PROVE  BlockedHasWaiter'
  BY <1>1, WokenIn DEF BlockedHasWaiter, Sleeping
<1>2. Woken(astate, CondBroadcast(astate)) /\ Woken(astate, astate)
  BY BroadcastWakes, SignalledIsState DEF Typed, TypeOK, Woken
<1>3. CASE OwnerStep
  <2>1. UNCHANGED <<queue_is_blocked, astate>>
    BY <1>3 DEF OwnerStep, CreateWorker, CreateFails, AllocFails, AllocReturns, UnwindJoin,
                UnwindFree, JoinWorker, JoinAsserts, Free, unchangedByJoin, clients
  <2> QED BY <1>1, <1>2, <2>1
<1>4. CASE Destroy
  BY <1>1, <1>2, <1>4 DEF Destroy, wake_up_all_workers, WakeWaitersIf
<1>5. ASSUME NEW i \in Slots, WorkerStep(i) PROVE BlockedHasWaiter'
  BY <1>1, <1>2, <1>5
     DEF WorkerStep, WorkerStarts, WorkerWakes, RunWork, WorkerFinishes, WaitForEvent,
         WakeWaitersIf, unchangedByWorkers
<1>6. ASSUME NEW q \in Queuers,
             ResumeQueueWork(q) \/ \E w \in Works : QueueWork(q, w)
      PROVE  BlockedHasWaiter'
  BY <1>1, <1>2, <1>6 DEF ResumeQueueWork, QueueWork, TryQueueWork
<1>7. ASSUME NEW a \in Waiters, WaitAll(a) \/ ResumeWaitAll(a) PROVE BlockedHasWaiter'
  <2>1. CASE WaitAllSleeps(a)
    <3>1. a \in In(astate', Sleeping)
      BY <2>1 DEF WaitAllSleeps, In, Sleeping, Typed, TypeOK
    <3> QED BY <3>1 DEF BlockedHasWaiter
  <2>2. ASSUME NEW flag, WaitAllReturns(a, flag) PROVE BlockedHasWaiter'
    BY <2>2 DEF WaitAllReturns, BlockedHasWaiter
  <2> QED BY <1>7, <2>1, <2>2 DEF WaitAll, ResumeWaitAll
<1>8. CASE SpuriousWakeup
  <2>1. Woken(astate, astate')
    BY <1>8, <1>2 DEF SpuriousWakeup, Woken, In, Typed, TypeOK
  <2> QED BY <1>1, <1>8, <2>1 DEF SpuriousWakeup
<1>9. CASE UNCHANGED vars
  BY <1>1, <1>2, <1>9 DEF vars, clients
<1> QED BY <1>3, <1>4, <1>5, <1>6, <1>7, <1>8, <1>9 DEF Next

----------------------------------------------------------------------------
(* A queued work always has a worker awake.                                  *)

LEMMA AwakeIs ==
    ASSUME NEW i \in Slots, wstate \in [Slots -> WorkerStates],
           wstate[i] \in {"starting", "signalled", "busy", "served"}
    PROVE  i \in Awake
  BY DEF Awake, In

\* A wake-up puts no worker to sleep.
LEMMA WokenAwake ==
    ASSUME Woken(wstate, wstate'), Awake # {}
    PROVE  Awake' # {}
  BY DEF Woken, Awake, In

\* arm_worker leaves a worker awake: the one it signalled or created, or one
\* that was awake already, which includes the first worker when every other
\* thread failed to start.
LEMMA ArmAwakes ==
    ASSUME Typed, Stage, arm_worker, owner = "ready",
           CreateMayFail => InitThreads > 0
    PROVE  Awake' # {}
<1> USE SizeFacts DEF Typed, Stage
<1>0. /\ wstate \in [Slots -> WorkerStates]
      /\ wstate' \in [Slots -> WorkerStates]
      /\ ~should_stop
  BY ArmTyped DEF TypeOK, StopKnown
<1>1. CASE nr_sleeping_workers = 0
  <2>1. In(wstate, Sleeping) = {}
    BY <1>1, InFinite, SlotsFinite, FS_EmptySet DEF CountersMatch, TypeOK
  <2>2. CASE \E i \in Slots : wstate[i] = "free" /\ wstate' = [wstate EXCEPT ![i] = "starting"]
    BY <1>0, <2>2 DEF Awake, In
  <2>3. CASE /\ In(wstate, {"free"}) = {} \/ CreateMayFail
             /\ \/ \E i \in Slots : /\ wstate[i] = "free"
                                   /\ wstate' = [wstate EXCEPT ![i] = "unborn"]
                \/ UNCHANGED wstate
    <3>1. wstate[0] \notin {"free", "unborn"}
      BY <2>3 DEF FirstWorker, SpawnReliable, In, TypeOK
    <3>2. wstate[0] \in {"starting", "busy", "served"}
      BY <1>0, <2>1, <3>1 DEF GoneOnlyStopped, In, Sleeping, WorkerStates
    <3>3. wstate'[0] = wstate[0]
      BY <1>0, <2>3, <3>1
    <3> QED BY <1>0, <3>2, <3>3 DEF Awake, In
  <2> QED BY <1>1, <2>2, <2>3 DEF arm_worker, arm_spawn_worker, get_free_worker_slot
<1>2. CASE nr_sleeping_workers # 0
  <2>1. In(wstate, Sleeping) # {}
    BY <1>2, FS_EmptySet DEF CountersMatch
  <2>2. wstate' \in CondSignal(wstate)
    BY <1>2 DEF arm_worker
  <2>3. CASE In(wstate, {"asleep"}) = {}
    BY <1>0, <2>1, <2>2, <2>3 DEF CondSignal, In, Sleeping, Awake
  <2>4. CASE In(wstate, {"asleep"}) # {}
    BY <1>0, <2>2, <2>4 DEF CondSignal, In, Awake
  <2> QED BY <2>3, <2>4
<1> QED BY <1>1, <1>2

LEMMA QueueServed ==
    ASSUME Typed, Stage, NoIdleBacklog, CreateMayFail => InitThreads > 0,
           NEW q, NEW w, NEW others, TryQueueWork(q, w, others),
           owner \notin {"allocating", "failed", "unwinding"}
    PROVE  NoIdleBacklog'
<1>1. CASE Accepted(q, w)
  <2>1. owner = "ready"
    BY <1>1 DEF Accepted, Stage, StopKnown, Typed, TypeOK, OwnerStates
  <2> QED BY <1>1, <2>1, ArmAwakes DEF Accepted, NoIdleBacklog
<1>2. CASE Refused(q) \/ PutToSleep(q, w)
  BY <1>2 DEF Refused, PutToSleep, TryQueueWork, NoIdleBacklog, Awake
<1> QED BY <1>1, <1>2 DEF TryQueueWork

LEMMA WorkerServed ==
    ASSUME NEW i \in Slots, Typed, Stage, NoIdleBacklog, WorkerStep(i)
    PROVE  NoIdleBacklog'
<1>1. UNCHANGED tail /\ wstate \in [Slots -> WorkerStates]
  BY DEF WorkerStep, WorkerStarts, WorkerWakes, RunWork, WorkerFinishes,
         unchangedByWorkers, Typed, TypeOK
<1>2. CASE RunWork(i)
  BY <1>1, <1>2 DEF RunWork, NoIdleBacklog, Awake, In
<1>3. ASSUME NEW sleeping, NEW online, NEW running,
             WaitForEvent(i, sleeping, online, running)
      PROVE  NoIdleBacklog'
  <2>1. CASE MustExit
    BY <1>1, <1>3, <2>1 DEF WaitForEvent, MustExit, NoIdleBacklog, Stage, EmptyWhenStopped
  <2>2. CASE ~MustExit /\ head # tail
    BY <1>1, <1>3, <2>2 DEF WaitForEvent, NoIdleBacklog, Awake, In
  <2>3. CASE ~MustExit /\ head = tail
    BY <1>1, <1>3, <2>3 DEF WaitForEvent, NoIdleBacklog
  <2> QED BY <2>1, <2>2, <2>3
<1> QED BY <1>2, <1>3 DEF WorkerStep, WorkerStarts, WorkerWakes, WorkerFinishes

LEMMA NextServed ==
    ASSUME CreateMayFail => InitThreads > 0
    PROVE  Typed /\ Stage /\ NoIdleBacklog /\ [Next]_vars => NoIdleBacklog'
<1> SUFFICES ASSUME Typed, Stage, NoIdleBacklog, [Next]_vars PROVE NoIdleBacklog'
  OBVIOUS
<1>0. Stage'
  BY NextStage
<1>1. ASSUME UNCHANGED <<head, tail>>, Woken(wstate, wstate')
      PROVE  NoIdleBacklog'
  BY <1>1, WokenAwake DEF NoIdleBacklog
<1>2. Woken(wstate, wstate)
  BY DEF Woken
<1>3. ASSUME should_stop' \/ owner' = "allocating" PROVE NoIdleBacklog'
  BY <1>0, <1>3 DEF Stage, EmptyWhenStopped, NoIdleBacklog
<1>4. CASE OwnerStep
  <2>1. CASE AllocReturns \/ AllocFails
    BY <1>1, <1>2, <2>1 DEF AllocReturns, AllocFails, queue
  <2>2. CASE ~AllocReturns /\ ~AllocFails
    <3>1. should_stop' \/ owner' = "allocating"
      BY <1>4, <2>2 DEF OwnerStep, CreateWorker, CreateFails, UnwindJoin, UnwindFree,
                        JoinWorker, JoinAsserts, Free, unchangedByJoin, Stage, StopKnown
    <3> QED BY <1>3, <3>1
  <2> QED BY <2>1, <2>2
<1>5. CASE Destroy
  BY <1>3, <1>5 DEF Destroy
<1>6. ASSUME NEW i \in Slots, WorkerStep(i) PROVE NoIdleBacklog'
  BY <1>6, WorkerServed
<1>7. ASSUME NEW q \in Queuers, NEW w \in Works, QueueWork(q, w) PROVE NoIdleBacklog'
  BY <1>7, QueueServed DEF QueueWork, Usable
<1>8. ASSUME NEW q \in Queuers, ResumeQueueWork(q) PROVE NoIdleBacklog'
  <2>1. owner \notin {"allocating", "failed", "unwinding"}
    BY <1>8 DEF ResumeQueueWork, Typed, NotYetShared
  <2> QED BY <1>8, <2>1, QueueServed DEF ResumeQueueWork
<1>9. ASSUME NEW a \in Waiters, WaitAll(a) \/ ResumeWaitAll(a) PROVE NoIdleBacklog'
  BY <1>1, <1>2, <1>9 DEF WaitAll, ResumeWaitAll, unchangedByWaiters, queue
<1>10. CASE SpuriousWakeup
  <2>1. Woken(wstate, wstate')
    BY <1>10 DEF SpuriousWakeup, Woken, In, Typed, TypeOK
  <2> QED BY <1>1, <1>10, <2>1 DEF SpuriousWakeup, queue
<1>11. CASE UNCHANGED vars
  BY <1>1, <1>2, <1>11 DEF vars, queue
<1> QED BY <1>4, <1>5, <1>6, <1>7, <1>8, <1>9, <1>10, <1>11 DEF Next

----------------------------------------------------------------------------
LEMMA AlwaysStage == Spec => [](Typed /\ Stage)
<1>1. Init => Typed /\ Stage
  BY InitTyped, InitStage
<1>2. Typed /\ Stage /\ [Next]_vars => Typed' /\ Stage'
  BY NextTyped, NextStage
<1> QED BY <1>1, <1>2, PTL DEF Spec

\* A work in the ring always has a worker that is awake and will look at the
\* ring again before it sleeps, provided that threads can be created or the
\* queue was given at least one worker to begin with (as gw_ring_init does).
THEOREM NoLostWakeup ==
    ASSUME CreateMayFail => InitThreads > 0
    PROVE  Spec => []NoIdleBacklog
<1>1. Init => NoIdleBacklog
  BY DEF Init, NoIdleBacklog
<1>2. Typed /\ Stage /\ NoIdleBacklog /\ [Next]_vars => NoIdleBacklog'
  BY NextServed
<1> QED BY <1>1, <1>2, AlwaysStage, PTL DEF Spec

\* Nobody sleeps in wait_all_work_done when there is nothing left to wait for,
\* when the queue is stopping, or while the flag that tells the workers about
\* it is down; with any number of callers that set and clear the same flag.
THEOREM WaitAllNotForgotten == Spec => []WaiterWatched
<1>1. Init => WaiterWatched
  BY DEF Init, WaiterWatched, In
<1>2. Typed /\ Stage /\ WaiterWatched /\ [Next]_vars => WaiterWatched'
  BY NextWatched
<1> QED BY <1>1, <1>2, AlwaysStage, PTL DEF Spec

\* queue_work is turned away only while a wait_all_work_done is inside.
THEOREM BlockedOnlyByWaiter == Spec => []BlockedHasWaiter
<1>1. Init => BlockedHasWaiter
  BY DEF Init, BlockedHasWaiter
<1>2. Typed /\ BlockedHasWaiter /\ [Next]_vars => BlockedHasWaiter'
  BY NextBlocked
<1> QED BY <1>1, <1>2, AlwaysTyped, PTL DEF Spec
=============================================================================

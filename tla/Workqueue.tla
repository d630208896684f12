----------------------------- MODULE Workqueue -----------------------------
(***************************************************************************)
(* The work queue of core/workqueue.c: a ring of pending works, a pool of  *)
(* worker threads that grows on demand, callers blocked on a full queue,   *)
(* callers waiting for the queue to drain, and its creation and            *)
(* destruction.                                                            *)
(*                                                                         *)
(* Every field below is protected by work_list_lock, and the code touches  *)
(* it only between mutex_lock (or a return from cond_wait) and the next    *)
(* mutex_unlock (or cond_wait).  One such critical section is one action.  *)
(* A thread in cond_wait is "asleep"; a signal, a broadcast or a spurious  *)
(* wake-up makes it "signalled", and it acts again once it has the lock    *)
(* back, after any other thread that got the lock first.                   *)
(***************************************************************************)
EXTENDS Integers, FiniteSets, Sequences

CONSTANTS
    MaxThreads,     \* attr.max_threads
    InitThreads,    \* threads made by alloc_workers: min_threads when lazy
    Cap,            \* attr.max_pending_works, a power of two in the code
    IdxMod,         \* the indexes head and tail wrap at IdxMod (2^32)
    Queuers,        \* threads that call queue_work
    Waiters,        \* threads that call wait_all_work_done
    Works,          \* works (func, arg, deleter)
    NoWork,         \* no work
    CreateMayFail   \* whether thread_create, or an allocation before it, may fail

ASSUME ThreadsAssumption ==
    /\ MaxThreads \in Nat \ {0}
    /\ InitThreads \in 0 .. MaxThreads
    /\ CreateMayFail \in BOOLEAN

ASSUME SizeAssumption ==
    /\ Cap \in Nat \ {0}
    /\ IdxMod \in Nat
    /\ 2 * Cap <= IdxMod
    /\ IdxMod % Cap = 0

ASSUME ClientAssumption ==
    /\ IsFiniteSet(Queuers) /\ IsFiniteSet(Waiters)
    /\ NoWork \notin Works

Slots == 0 .. MaxThreads - 1

VARIABLES
    should_stop,            \* the fields of struct workqueue_struct
    queue_is_blocked,
    wait_all_is_waiting,
    nr_sleeping_workers,
    nr_sleeping_queuers,
    nr_online_workers,
    nr_running_workers,
    head,
    tail,
    work_list,
    wstate,     \* where the thread of each worker slot is; see WorkerStates
    job,        \* the local `work` of each worker
    qstate,     \* where each caller of queue_work is
    qwork,      \* the work it brings
    astate,     \* where each caller of wait_all_work_done is
    owner,      \* where the thread that allocates and destroys the queue is
    cursor,     \* its loop index `i` in alloc_workers and join_all_workers
    live        \* works accepted whose func and deleter have not both run yet

counters == <<nr_sleeping_workers, nr_sleeping_queuers, nr_online_workers,
              nr_running_workers>>
queue    == <<head, tail, work_list>>
clients  == <<qstate, qwork, astate>>
creator  == <<owner, cursor>>
vars     == <<should_stop, queue_is_blocked, wait_all_is_waiting, counters,
              queue, wstate, job, clients, creator, live>>

(* "free": worker->wq is NULL; "unborn": worker->wq is set but thread_create *)
(* failed; "starting": created, first lock not taken yet; "busy": running    *)
(* func and deleter; "served": they returned, lock not taken back yet.       *)
WorkerStates == {"free", "unborn", "starting", "asleep", "signalled", "busy",
                 "served", "gone", "joined"}
CallerStates == {"out", "asleep", "signalled"}
OwnerStates  == {"allocating", "failed", "unwinding", "ready", "joining",
                 "freed", "aborted"}

Sleeping == {"asleep", "signalled"}     \* inside cond_wait
Running  == {"busy", "served"}          \* between taking a work and locking again
Online   == Sleeping \cup Running       \* inside the loop of worker_func

In(st, S) == {x \in DOMAIN st : st[x] \in S}

----------------------------------------------------------------------------
(* Condition variables: what a signal and a broadcast make of the states of  *)
(* the threads that may wait on the condition.                               *)

CondBroadcast(st) ==
    [x \in DOMAIN st |-> IF st[x] = "asleep" THEN "signalled" ELSE st[x]]

CondSignal(st) ==
    IF In(st, {"asleep"}) = {}
    THEN {st}
    ELSE {[st EXCEPT ![x] = "signalled"] : x \in In(st, {"asleep"})}

\* The pattern "signal one sleeper, broadcast to several".
WakeSleepers(n, st) ==
    IF n = 0 THEN {st} ELSE IF n = 1 THEN CondSignal(st)
                       ELSE {CondBroadcast(st)}

\* Mutant: the broadcast on wait_all_cond is left out.
WakeWaitersNever(cond) == astate' = astate

WakeWaitersIf(cond) ==
    astate' = IF cond THEN CondBroadcast(astate) ELSE astate

----------------------------------------------------------------------------
(* The ring of pending works.                                                *)

\* |tail - head| computed on the wrapped indexes, as the code does.
count_pending_works == IF tail >= head THEN tail - head ELSE head - tail

\* The number of works the ring really holds, and the slot of the k-th one.
Pending   == (tail - head) % IdxMod
SlotOf(k) == ((head + k) % IdxMod) % Cap
Backlog   == {work_list[SlotOf(k)] : k \in 0 .. Pending - 1}

\* Mutant: an index that does not wrap.
Next1Unwrapped(idx) == idx + 1

Next1(idx) == (idx + 1) % IdxMod

----------------------------------------------------------------------------
(* alloc_workqueue: the creating thread starts the first workers one by one; *)
(* when one cannot be created it stops and joins the others.                 *)

Init ==
    /\ should_stop = FALSE
    /\ queue_is_blocked = FALSE
    /\ wait_all_is_waiting = FALSE
    /\ nr_sleeping_workers = 0
    /\ nr_sleeping_queuers = 0
    /\ nr_online_workers = 0
    /\ nr_running_workers = 0
    /\ head = 0
    /\ tail = 0
    /\ work_list = [s \in 0 .. Cap - 1 |-> NoWork]
    /\ wstate = [i \in Slots |-> "free"]
    /\ job = [i \in Slots |-> NoWork]
    /\ qstate = [q \in Queuers |-> "out"]
    /\ qwork = [q \in Queuers |-> NoWork]
    /\ astate = [a \in Waiters |-> "out"]
    /\ owner = "allocating"
    /\ cursor = 0
    /\ live = {}

CreateWorker ==
    /\ owner = "allocating"
    /\ cursor < InitThreads
    /\ wstate' = [wstate EXCEPT ![cursor] = "starting"]
    /\ cursor' = cursor + 1
    /\ UNCHANGED <<should_stop, queue_is_blocked, wait_all_is_waiting, counters,
                   queue, job, clients, owner, live>>

CreateFails ==
    /\ owner = "allocating"
    /\ cursor < InitThreads
    /\ CreateMayFail
    /\ should_stop' = TRUE
    /\ wstate' = CondBroadcast([wstate EXCEPT ![cursor] = "unborn"])
    /\ owner' = "unwinding"
    /\ UNCHANGED <<queue_is_blocked, wait_all_is_waiting, counters, queue, job,
                   clients, cursor, live>>

AllocReturns ==
    /\ owner = "allocating"
    /\ cursor = InitThreads
    /\ owner' = "ready"
    /\ UNCHANGED <<should_stop, queue_is_blocked, wait_all_is_waiting, counters,
                   queue, wstate, job, clients, cursor, live>>

UnwindJoin ==
    /\ owner = "unwinding"
    /\ cursor > 0
    /\ wstate[cursor - 1] = "gone"
    /\ wstate' = [wstate EXCEPT ![cursor - 1] = "joined"]
    /\ cursor' = cursor - 1
    /\ UNCHANGED <<should_stop, queue_is_blocked, wait_all_is_waiting, counters,
                   queue, job, clients, owner, live>>

\* calloc, mutex_init or cond_init fails before any thread is made.
AllocFails ==
    /\ owner = "allocating"
    /\ cursor = 0
    /\ CreateMayFail
    /\ owner' = "failed"
    /\ UNCHANGED <<should_stop, queue_is_blocked, wait_all_is_waiting, counters,
                   queue, wstate, job, clients, cursor, live>>

UnwindFree ==
    /\ owner = "unwinding"
    /\ cursor = 0
    /\ owner' = "freed"
    /\ UNCHANGED <<should_stop, queue_is_blocked, wait_all_is_waiting, counters,
                   queue, wstate, job, clients, cursor, live>>

----------------------------------------------------------------------------
(* queue_work.  The queue may be used until it is freed; a call that outlives *)
(* destroy_workqueue has no defined behaviour and is excluded by Free.       *)

Usable == owner \in {"ready", "joining"}

get_free_worker_slot(i) ==
    /\ wstate[i] = "free"
    /\ \A j \in Slots : j < i => wstate[j] # "free"

arm_spawn_worker ==
    \/ \E i \in Slots :
          /\ get_free_worker_slot(i)
          /\ \/ wstate' = [wstate EXCEPT ![i] = "starting"]
             \/ CreateMayFail /\ wstate' = [wstate EXCEPT ![i] = "unborn"]
    \/ In(wstate, {"free"}) = {} /\ UNCHANGED wstate

\* Mutant: a sleeping worker is never signalled.
arm_worker_NoSignal == arm_spawn_worker

arm_worker ==
    IF nr_sleeping_workers = 0
    THEN arm_spawn_worker
    ELSE wstate' \in CondSignal(wstate)

\* Mutant: one work too many.
FullOffByOne == count_pending_works > Cap

Full == count_pending_works >= Cap

\* try_queue_work_locked says -EOWNERDEAD.
Refused(q) ==
    /\ should_stop
    /\ qstate' = [qstate EXCEPT ![q] = "out"]
    /\ qwork' = [qwork EXCEPT ![q] = NoWork]
    /\ UNCHANGED <<tail, work_list, wstate, live>>

\* It accepts the work and arms a worker, whose failure it ignores.
Accepted(q, w) ==
    /\ ~should_stop /\ ~queue_is_blocked /\ ~Full
    /\ work_list' = [work_list EXCEPT ![tail % Cap] = w]
    /\ tail' = Next1(tail)
    /\ live' = live \cup {w}
    /\ arm_worker
    /\ qstate' = [qstate EXCEPT ![q] = "out"]
    /\ qwork' = [qwork EXCEPT ![q] = NoWork]

\* It says -EAGAIN and the caller sleeps.
PutToSleep(q, w) ==
    /\ ~should_stop /\ (queue_is_blocked \/ Full)
    /\ qstate' = [qstate EXCEPT ![q] = "asleep"]
    /\ qwork' = [qwork EXCEPT ![q] = w]
    /\ UNCHANGED <<tail, work_list, wstate, live>>

\* One turn of the loop of queue_work, with `others` callers asleep beside q.
TryQueueWork(q, w, others) ==
    /\ \/ Refused(q) /\ nr_sleeping_queuers' = others
       \/ Accepted(q, w) /\ nr_sleeping_queuers' = others
       \/ PutToSleep(q, w) /\ nr_sleeping_queuers' = others + 1
    /\ UNCHANGED <<should_stop, queue_is_blocked, wait_all_is_waiting,
                   nr_sleeping_workers, nr_online_workers, nr_running_workers,
                   head, job, astate, creator>>

\* A work is a fresh allocation of its caller: one not in the queue's hands.
QueueWork(q, w) ==
    /\ Usable
    /\ qstate[q] = "out"
    /\ w \notin live
    /\ \A p \in Queuers : qwork[p] # w
    /\ TryQueueWork(q, w, nr_sleeping_queuers)

ResumeQueueWork(q) ==
    /\ qstate[q] = "signalled"
    /\ TryQueueWork(q, qwork[q], nr_sleeping_queuers - 1)

----------------------------------------------------------------------------
(* worker_func.                                                              *)

\* Mutant: the test of queue_is_blocked inverted.
MustExitWhenBlocked == should_stop /\ queue_is_blocked

MustExit == should_stop /\ ~queue_is_blocked

\* One turn of wait_for_event for worker i, and what worker_func does next,
\* from the given values of the counters.
WaitForEvent(i, sleeping, online, running) ==
    \/ /\ MustExit
       /\ wstate' = [wstate EXCEPT ![i] = "gone"]
       /\ nr_online_workers' = online - 1
       /\ nr_sleeping_workers' = sleeping
       /\ nr_running_workers' = running
       /\ UNCHANGED <<head, job, astate>>
    \/ /\ ~MustExit
       /\ head # tail
       /\ job' = [job EXCEPT ![i] = work_list[head % Cap]]
       /\ head' = Next1(head)
       /\ wstate' = [wstate EXCEPT ![i] = "busy"]
       /\ nr_running_workers' = running + 1
       /\ nr_online_workers' = online
       /\ nr_sleeping_workers' = sleeping
       /\ UNCHANGED astate
    \/ /\ ~MustExit
       /\ head = tail
       /\ WakeWaitersIf(wait_all_is_waiting)
       /\ wstate' = [wstate EXCEPT ![i] = "asleep"]
       /\ nr_sleeping_workers' = sleeping + 1
       /\ nr_online_workers' = online
       /\ nr_running_workers' = running
       /\ UNCHANGED <<head, job>>

unchangedByWorkers == <<should_stop, queue_is_blocked, wait_all_is_waiting,
                        nr_sleeping_queuers, tail, work_list, qwork, creator>>

WorkerStarts(i) ==
    /\ wstate[i] = "starting"
    /\ WaitForEvent(i, nr_sleeping_workers, nr_online_workers + 1,
                    nr_running_workers)
    /\ UNCHANGED <<unchangedByWorkers, qstate, live>>

\* Mutant: nr_sleeping_workers is not decremented after cond_wait.
WorkerWakesUncounted(i) ==
    /\ wstate[i] = "signalled"
    /\ WaitForEvent(i, nr_sleeping_workers, nr_online_workers,
                    nr_running_workers)
    /\ UNCHANGED <<unchangedByWorkers, qstate, live>>

WorkerWakes(i) ==
    /\ wstate[i] = "signalled"
    /\ WaitForEvent(i, nr_sleeping_workers - 1, nr_online_workers,
                    nr_running_workers)
    /\ UNCHANGED <<unchangedByWorkers, qstate, live>>

\* func and deleter run without the lock.
RunWork(i) ==
    /\ wstate[i] = "busy"
    /\ wstate' = [wstate EXCEPT ![i] = "served"]
    /\ job' = [job EXCEPT ![i] = NoWork]
    /\ live' = live \ {job[i]}
    /\ UNCHANGED <<unchangedByWorkers, nr_sleeping_workers, nr_online_workers,
                   nr_running_workers, head, qstate, astate>>

\* Mutant: the return is early when one other worker is running, too.
wake_up_queue_work_callers_rarely(running) ==
    qstate' \in WakeSleepers(IF running <= 1 THEN 0 ELSE nr_sleeping_queuers,
                             qstate)

\* Returns early when no other worker is running.
wake_up_all_queue_work_callers(running) ==
    qstate' \in WakeSleepers(IF running = 0 THEN 0 ELSE nr_sleeping_queuers,
                             qstate)

WorkerFinishes(i) ==
    /\ wstate[i] = "served"
    /\ wake_up_all_queue_work_callers(nr_running_workers - 1)
    /\ WaitForEvent(i, nr_sleeping_workers, nr_online_workers,
                    nr_running_workers - 1)
    /\ UNCHANGED <<unchangedByWorkers, live>>

----------------------------------------------------------------------------
(* wait_all_work_done.                                                       *)

\* Mutant: works being run are not waited for.
NotDoneQueued == count_pending_works > 0

NotDone == count_pending_works > 0 \/ nr_running_workers > 0

WaitAllSleeps(a) ==
    /\ NotDone /\ ~should_stop
    /\ astate' = [astate EXCEPT ![a] = "asleep"]
    /\ wait_all_is_waiting' = TRUE

\* Mutant: the queue stays blocked.
WaitAllReturnsBlocked(a, flag) ==
    /\ ~NotDone \/ should_stop
    /\ astate' = [astate EXCEPT ![a] = "out"]
    /\ wait_all_is_waiting' = flag
    /\ UNCHANGED queue_is_blocked

WaitAllReturns(a, flag) ==
    /\ ~NotDone \/ should_stop
    /\ astate' = [astate EXCEPT ![a] = "out"]
    /\ wait_all_is_waiting' = flag
    /\ queue_is_blocked' = FALSE

unchangedByWaiters == <<should_stop, counters, queue, wstate, job, qstate, qwork,
                        creator, live>>

WaitAll(a) ==
    /\ Usable
    /\ astate[a] = "out"
    /\ \/ WaitAllSleeps(a) /\ queue_is_blocked' = TRUE
       \/ WaitAllReturns(a, wait_all_is_waiting)
    /\ UNCHANGED unchangedByWaiters

ResumeWaitAll(a) ==
    /\ astate[a] = "signalled"
    /\ \/ WaitAllSleeps(a) /\ UNCHANGED queue_is_blocked
       \/ WaitAllReturns(a, FALSE)
    /\ UNCHANGED unchangedByWaiters

----------------------------------------------------------------------------
(* destroy_workqueue.                                                        *)

wake_up_all_workers ==
    /\ wstate' \in WakeSleepers(nr_sleeping_workers, wstate)
    /\ WakeWaitersIf(wait_all_is_waiting)

\* clear_pending_works runs the deleter of every work left in the ring.
Destroy ==
    /\ owner = "ready"
    /\ should_stop' = TRUE
    /\ live' = live \ Backlog
    /\ head' = tail
    /\ wake_up_all_workers
    /\ owner' = "joining"
    /\ cursor' = 0
    /\ UNCHANGED <<queue_is_blocked, wait_all_is_waiting, counters, tail,
                   work_list, job, qstate, qwork>>

unchangedByJoin == <<should_stop, queue_is_blocked, wait_all_is_waiting, counters,
                     queue, job, clients, live>>

\* Mutant: only the workers made by alloc_workers are joined.
JoinWorkerInitial ==
    /\ owner = "joining"
    /\ cursor < MaxThreads
    /\ \/ /\ wstate[cursor] = "free" \/ cursor >= InitThreads
          /\ UNCHANGED wstate
       \/ /\ wstate[cursor] = "gone"
          /\ wstate' = [wstate EXCEPT ![cursor] = "joined"]
    /\ cursor' = cursor + 1
    /\ UNCHANGED <<unchangedByJoin, owner>>

\* join_all_workers skips the slots that were never armed.
JoinWorker ==
    /\ owner = "joining"
    /\ cursor < MaxThreads
    /\ \/ wstate[cursor] = "free" /\ UNCHANGED wstate
       \/ /\ wstate[cursor] = "gone"
          /\ wstate' = [wstate EXCEPT ![cursor] = "joined"]
    /\ cursor' = cursor + 1
    /\ UNCHANGED <<unchangedByJoin, owner>>

\* Joining a thread that was never created does not return its worker:
\* assert(tmp_ret == worker) fails.
JoinAsserts ==
    /\ owner = "joining"
    /\ cursor < MaxThreads
    /\ wstate[cursor] = "unborn"
    /\ owner' = "aborted"
    /\ UNCHANGED <<unchangedByJoin, wstate, cursor>>

\* The condition variables may be destroyed, and the queue freed, only when no
\* caller is inside any more.
Free ==
    /\ owner = "joining"
    /\ cursor = MaxThreads
    /\ \A q \in Queuers : qstate[q] = "out"
    /\ \A a \in Waiters : astate[a] = "out"
    /\ owner' = "freed"
    /\ UNCHANGED <<unchangedByJoin, wstate, cursor>>

----------------------------------------------------------------------------
\* cond_wait may return without a signal.
SpuriousWakeup ==
    /\ \/ \E i \in In(wstate, {"asleep"}) :
             /\ wstate' = [wstate EXCEPT ![i] = "signalled"]
             /\ UNCHANGED <<qstate, astate>>
       \/ \E q \in In(qstate, {"asleep"}) :
             /\ qstate' = [qstate EXCEPT ![q] = "signalled"]
             /\ UNCHANGED <<wstate, astate>>
       \/ \E a \in In(astate, {"asleep"}) :
             /\ astate' = [astate EXCEPT ![a] = "signalled"]
             /\ UNCHANGED <<wstate, qstate>>
    /\ UNCHANGED <<should_stop, queue_is_blocked, wait_all_is_waiting, counters,
                   queue, job, qwork, creator, live>>

OwnerStep == CreateWorker \/ CreateFails \/ AllocFails \/ AllocReturns
                \/ UnwindJoin \/ UnwindFree \/ JoinWorker \/ JoinAsserts \/ Free

WorkerStep(i) == WorkerStarts(i) \/ WorkerWakes(i) \/ RunWork(i)
                    \/ WorkerFinishes(i)

Next ==
    \/ OwnerStep
    \/ Destroy
    \/ \E i \in Slots : WorkerStep(i)
    \/ \E q \in Queuers : ResumeQueueWork(q) \/ \E w \in Works : QueueWork(q, w)
    \/ \E a \in Waiters : WaitAll(a) \/ ResumeWaitAll(a)
    \/ SpuriousWakeup

Spec == Init /\ [][Next]_vars

(* A thread that can take the lock gets it eventually, works terminate, and   *)
(* nobody is obliged to call the queue or to destroy it.                      *)
Fairness ==
    /\ WF_vars(OwnerStep)
    /\ \A i \in Slots : WF_vars(WorkerStep(i))
    /\ \A q \in Queuers : WF_vars(ResumeQueueWork(q))
    /\ \A a \in Waiters : WF_vars(ResumeWaitAll(a))

FairSpec == Spec /\ Fairness

----------------------------------------------------------------------------
(* Safety.                                                                   *)

\* The fields have their types.
TypeOK ==
    /\ should_stop \in BOOLEAN
    /\ queue_is_blocked \in BOOLEAN
    /\ wait_all_is_waiting \in BOOLEAN
    /\ nr_sleeping_workers \in 0 .. MaxThreads
    /\ nr_online_workers \in 0 .. MaxThreads
    /\ nr_running_workers \in 0 .. MaxThreads
    /\ nr_sleeping_queuers \in 0 .. Cardinality(Queuers)
    /\ head \in 0 .. IdxMod - 1
    /\ tail \in 0 .. IdxMod - 1
    /\ work_list \in [0 .. Cap - 1 -> Works \cup {NoWork}]
    /\ wstate \in [Slots -> WorkerStates]
    /\ job \in [Slots -> Works \cup {NoWork}]
    /\ qstate \in [Queuers -> CallerStates]
    /\ qwork \in [Queuers -> Works \cup {NoWork}]
    /\ astate \in [Waiters -> CallerStates]
    /\ owner \in OwnerStates
    /\ cursor \in 0 .. MaxThreads
    /\ live \subseteq Works

\* The counters the code takes its decisions from agree with what the threads
\* are doing: how many are inside cond_wait, inside their loop, and between
\* taking a work and locking again after it.
CountersMatch ==
    /\ nr_sleeping_workers = Cardinality(In(wstate, Sleeping))
    /\ nr_online_workers = Cardinality(In(wstate, Online))
    /\ nr_running_workers = Cardinality(In(wstate, Running))
    /\ nr_sleeping_queuers = Cardinality(In(qstate, Sleeping))

\* No lost wake-up of the pool: a queued work always has a worker that is awake
\* and will look at the ring before it sleeps (arm_worker, wait_for_event).
Awake == In(wstate, {"starting", "signalled", "busy", "served"})
NoIdleBacklog == head # tail => Awake # {}

\* Every accepted work is in exactly one place, the ring or one worker, until
\* its deleter has run; the ring never holds more than Cap works, even when its
\* indexes have wrapped.
WorkConserved ==
    /\ Pending <= Cap
    /\ Cardinality(Backlog) = Pending
    /\ \A i, j \in In(wstate, {"busy"}) : job[i] = job[j] => i = j
    /\ Backlog \cap {job[i] : i \in In(wstate, {"busy"})} = {}
    /\ live = Backlog \cup {job[i] : i \in In(wstate, {"busy"})}

\* A thread asleep in wait_all_work_done has something to wait for and is known
\* to those who will wake it, although any caller that wakes clears the flag
\* they all share.
WaiterWatched ==
    In(astate, {"asleep"}) # {} =>
        /\ wait_all_is_waiting
        /\ ~should_stop
        /\ head # tail \/ nr_running_workers > 0

\* The queue is closed to queue_work only while a caller of wait_all_work_done
\* is inside.
BlockedHasWaiter ==
    queue_is_blocked => In(astate, Sleeping) # {}

\* When the queue is freed no thread of it is left and every work it accepted
\* has been run or deleted.
FreedLeavesNothing ==
    owner \in {"failed", "freed"} =>
        /\ live = {}
        /\ \A i \in Slots : wstate[i] \in {"free", "unborn", "joined"}
        /\ nr_online_workers = 0

\* join_all_workers, "assert(tmp_ret == worker)": each thread joined is the one
\* of the slot it is looked up in.
JoinReturnsWorker == owner # "aborted"

\* A wait_all_work_done that returns on a queue not being destroyed leaves no
\* work behind: everything accepted has been run and deleted.
DrainedOnReturn ==
    [][\A a \in Waiters :
          astate[a] # "out" /\ astate'[a] = "out" /\ ~should_stop => live = {}]_vars

----------------------------------------------------------------------------
(* The queue is a bounded FIFO pool.                                         *)

Pool == INSTANCE WorkPool WITH
            backlog  <- [k \in 1 .. Pending |-> work_list[SlotOf(k - 1)]],
            inflight <- {job[i] : i \in In(wstate, {"busy"})},
            closed   <- should_stop

\* Works are started in the order they were accepted, once each, by at most
\* MaxThreads threads, and the ring is never over-full.
ImplementsPool == Pool!Spec

\* The pool starts on every backlog it holds and completes what it started.
ServesPool == Pool!Fairness

----------------------------------------------------------------------------
(* Liveness, under Fairness.                                                 *)

\* Every accepted work has its deleter run, by a worker or by destroy_workqueue.
AcceptedIsReleased == \A w \in Works : w \in live ~> w \notin live

\* wait_all_work_done returns once its caller alone may block the queue.
WaitAllTerminates == \A a \in Waiters : astate[a] # "out" ~> astate[a] = "out"

\* alloc_workers gets out of a failed thread_create, and destroy_workqueue joins
\* every worker once none of them sleeps and no caller of wait_all_work_done
\* blocks the queue.  Its own broadcast establishes the former; a worker that
\* wakes while the queue is blocked may sleep again, and nobody wakes it when the
\* queue is unblocked (wait_for_event).
ShutdownJoinsAll ==
    /\ owner = "unwinding" ~> owner = "freed"
    /\ owner = "joining" /\ ~queue_is_blocked /\ In(wstate, {"asleep"}) = {}
          ~> cursor = MaxThreads \/ owner = "aborted"

\* A caller of queue_work that waits for room is woken as long as works keep
\* ending while others run.  (wake_up_all_queue_work_callers wakes nobody for the
\* one that ends last: the callers asleep then may sleep for ever.)
Overlap == \E i \in Slots : WorkerFinishes(i) /\ nr_running_workers > 1
OverlapWakes ==
    \A q \in Queuers : []<><<Overlap>>_vars => []<>(qstate[q] # "asleep")
=============================================================================

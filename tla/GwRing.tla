------------------------------- MODULE GwRing -------------------------------
(***************************************************************************)
(* The request ring of core/ring.c: a client fills submission entries,     *)
(* submits them, and reaps completion entries that the submission itself   *)
(* or the threads of the work queue post.                                  *)
(*                                                                         *)
(* sq_lock is held by gw_ring_submit from end to end, so a submission is   *)
(* the client state "submitting"; every post takes cq_lock for itself and  *)
(* is one step.  The work queue is the pool of module WorkPool, which      *)
(* module Workqueue implements: a bounded backlog, started in order by at  *)
(* most PoolThreads threads.  A submission that finds it full sleeps in    *)
(* queue_work, and is woken as core/workqueue.c wakes it: by a work that   *)
(* ends while another one is in hand.                                      *)
(***************************************************************************)
EXTENDS Integers, Sequences, FiniteSets

CONSTANTS
    Nops,           \* requests of opcode GW_RING_OP_NOP
    Calls,          \* requests of opcode GW_RING_OP_TG_API_CALL
    Handles,        \* requests of opcode GW_RING_OP_MODULE_HANDLE
    Unknown,        \* requests of any other opcode
    NoReq,          \* an entry that was never filled
    SqSize,         \* sq_mask + 1, a power of two
    IdxMod,         \* the indexes wrap at IdxMod (2^32)
    PoolCap,        \* max_pending_works of the work queue
    PoolThreads,    \* its max_threads
    PuntMayFail     \* whether malloc may return NULL in punt_to_io_wq

Reqs   == Nops \cup Calls \cup Handles \cup Unknown

\* Mutant: as many completion entries as submission entries.
CqSizeSingle == SqSize

CqSize == 2 * SqSize

ASSUME RingAssumption ==
    /\ SqSize \in Nat \ {0}
    /\ IdxMod \in Nat /\ IdxMod % CqSize = 0 /\ 2 * CqSize < IdxMod
    /\ PoolCap \in Nat \ {0} /\ PoolThreads \in Nat \ {0}
    /\ PuntMayFail \in BOOLEAN
    /\ NoReq \notin Reqs

\* The opcode of a request is one.
ASSUME OpcodeAssumption ==
    /\ Nops \cap (Calls \cup Handles \cup Unknown) = {}
    /\ Calls \cap (Handles \cup Unknown) = {}
    /\ Handles \cap Unknown = {}

VARIABLES
    should_stop,
    wait_cqe_cond_flag,
    sq_head, sq_tail, sqes,
    cq_head, cq_tail, cqes,
    client,     \* where the client thread is
    cursor,     \* the local sq_head of gw_ring_submit
    seen,       \* entries visited by gw_ring_for_each_cqe, not advanced yet
    backlog,    \* the work queue: punted requests no thread has taken yet,
    running,    \* those a thread executes,
    posted,     \* those that have posted and wait for their deleter,
    served,     \* how many threads are on their way back to its lock after that,
    queuer,     \* and where the client is when it waits in queue_work for room
    held,       \* module-handle requests whose update has not been freed
    destroyer   \* where the thread that destroys the ring is

sq    == <<sq_head, sq_tail, sqes>>
cq    == <<cq_head, cq_tail, cqes>>
pool  == <<backlog, running, posted, served, queuer>>
vars  == <<should_stop, wait_cqe_cond_flag, sq, cq, client, cursor, seen, pool,
           held, destroyer>>

ClientStates    == {"idle", "submitting", "asleep", "signalled"}
QueuerStates    == {"out", "asleep", "signalled"}
DestroyerStates == {"out", "called", "stopping", "joining", "freed"}

----------------------------------------------------------------------------
\* The distance between two indexes, as the code computes it, and as it is.
u32_diff(a, b) == IF a >= b THEN a - b ELSE b - a
Dist(a, b)     == (a - b) % IdxMod

\* Mutant: an index that does not wrap.
Next1Unwrapped(i) == i + 1

Next1(i) == (i + 1) % IdxMod

\* The conversion of gw_ring_wait_cqe's result to int.
AsInt(u) == IF 2 * u >= IdxMod THEN u - IdxMod ELSE u

\* The entries between two indexes, oldest first.
Entries(from, to, ring, size) ==
    [k \in 1 .. Dist(to, from) |-> ring[((from + k - 1) % IdxMod) % size]]

SqEntries == Entries(IF client = "submitting" THEN cursor ELSE sq_head, sq_tail,
                     sqes, SqSize)
CqEntries == Entries(cq_head, cq_tail, cqes, CqSize)
Elems(s)  == {s[k] : k \in DOMAIN s}

\* The requests not completed yet, or whose data is not freed yet.
InUse == Elems(SqEntries) \cup Elems(backlog) \cup running \cup posted

----------------------------------------------------------------------------
Init ==
    /\ should_stop = FALSE
    /\ wait_cqe_cond_flag = FALSE
    /\ sq_head = 0 /\ sq_tail = 0 /\ sqes = [s \in 0 .. SqSize - 1 |-> NoReq]
    /\ cq_head = 0 /\ cq_tail = 0 /\ cqes = [s \in 0 .. CqSize - 1 |-> NoReq]
    /\ client = "idle"
    /\ cursor = 0
    /\ seen = 0
    /\ backlog = <<>>
    /\ running = {}
    /\ posted = {}
    /\ served = 0
    /\ queuer = "out"
    /\ held = {}
    /\ destroyer = "out"

\* Mutant: the completion ring is tested one entry too late.
CqFullOffByOne == u32_diff(cq_tail, cq_head) > CqSize

\* Mutant: the mask is taken for the size.
CqFullAtMask == u32_diff(cq_tail, cq_head) >= CqSize - 1

CqFull == u32_diff(cq_tail, cq_head) >= CqSize

\* Mutant: the waiter is not woken.
WakeClientNever == client

\* The state of the client after a broadcast on wait_cqe_cond, if one is due.
WakeClient ==
    IF wait_cqe_cond_flag /\ client = "asleep" THEN "signalled" ELSE client

\* post_cqe, which drops the completion when the ring is full; `woken` is the
\* client state it leaves otherwise.
PostCqe(r, woken) ==
    \/ CqFull /\ UNCHANGED <<cq, client>>
    \/ /\ ~CqFull
       /\ cqes' = [cqes EXCEPT ![cq_tail % CqSize] = r]
       /\ cq_tail' = Next1(cq_tail)
       /\ client' = woken
       /\ UNCHANGED cq_head

----------------------------------------------------------------------------
(* The client: gw_ring_get_sqe with the preparation that follows it, which   *)
(* for a module-handle request hands the ring a reference to the update.     *)

SqFull == u32_diff(sq_head, sq_tail) >= SqSize

GetSqe(r) ==
    /\ client = "idle"
    /\ r \notin InUse
    /\ ~SqFull
    /\ sqes' = [sqes EXCEPT ![sq_tail % SqSize] = r]
    /\ sq_tail' = Next1(sq_tail)
    /\ held' = held \cup ({r} \cap Handles)
    /\ UNCHANGED <<should_stop, wait_cqe_cond_flag, sq_head, cq, client, cursor,
                   seen, pool, destroyer>>

(* gw_ring_submit.                                                           *)

unchangedBySubmit == <<should_stop, wait_cqe_cond_flag, seen, running, posted,
                       served, destroyer, sq_tail, sqes>>

SubmitBegin ==
    /\ client = "idle"
    /\ ~should_stop
    /\ client' = "submitting"
    /\ cursor' = sq_head
    /\ UNCHANGED <<unchangedBySubmit, sq_head, cq, backlog, queuer, held>>

Current == sqes[cursor % SqSize]

SubmitNop ==
    /\ client = "submitting" /\ cursor # sq_tail
    /\ Current \in Nops
    /\ PostCqe(Current, client)
    /\ cursor' = Next1(cursor)
    /\ UNCHANGED <<unchangedBySubmit, sq_head, backlog, queuer, held>>

\* Mutant: one place is never used, so that a queue of one takes nothing.
PoolHasRoomShort == Len(backlog) + 1 < PoolCap

PoolHasRoom == Len(backlog) < PoolCap

\* punt_to_io_wq, once malloc has succeeded: a turn of the loop of queue_work, on
\* the call or after a wake-up, takes the work
SubmitPunt ==
    /\ client = "submitting" /\ cursor # sq_tail
    /\ queuer # "asleep"
    /\ Current \in Calls \cup Handles
    /\ PoolHasRoom
    /\ backlog' = Append(backlog, Current)
    /\ queuer' = "out"
    /\ cursor' = Next1(cursor)
    /\ UNCHANGED <<unchangedBySubmit, sq_head, cq, client, held>>

\* or sleeps, with sq_lock held.
SubmitSleeps ==
    /\ client = "submitting" /\ cursor # sq_tail
    /\ queuer # "asleep"
    /\ Current \in Calls \cup Handles
    /\ ~PoolHasRoom
    /\ queuer' = "asleep"
    /\ UNCHANGED <<unchangedBySubmit, sq_head, cq, client, cursor, backlog, held>>

\* Mutant: the update is kept.
DropUpdateNever(r) == held

\* tgapi_free_update on the update of r, if it has one.
DropUpdate(r) == held \ {r}

\* A request that cannot be punted, or whose opcode is unknown, is forgotten;
\* issue_op_module_handle frees the update it carries.
SubmitFails ==
    /\ client = "submitting" /\ cursor # sq_tail
    /\ queuer = "out"
    /\ Current \in Unknown \/ (PuntMayFail /\ Current \in Calls \cup Handles)
    /\ held' = DropUpdate(Current)
    /\ cursor' = Next1(cursor)
    /\ UNCHANGED <<unchangedBySubmit, sq_head, cq, client, backlog, queuer>>

\* Mutant: the new head is not stored.
HeadAfterSubmitOld == sq_head

HeadAfterSubmit == cursor

SubmitEnd ==
    /\ client = "submitting" /\ cursor = sq_tail
    /\ client' = "idle"
    /\ sq_head' = HeadAfterSubmit
    /\ UNCHANGED <<unchangedBySubmit, cq, cursor, backlog, queuer, held>>

(* gw_ring_wait_cqe.  Its first check either returns at once, which changes   *)
(* nothing, or puts the client to sleep.                                     *)

NothingToReap == AsInt(u32_diff(cq_tail, cq_head)) <= 0

unchangedByWait == <<should_stop, sq, cq, cursor, seen, pool, held,
                     destroyer>>

\* Mutant: the flag is raised only by the first turn of the loop.
WaitSleepsUnflagged ==
    /\ ~should_stop /\ NothingToReap
    /\ client' = "asleep"
    /\ wait_cqe_cond_flag' = (client = "idle")

WaitSleeps ==
    /\ ~should_stop /\ NothingToReap
    /\ client' = "asleep"
    /\ wait_cqe_cond_flag' = TRUE

WaitCqe ==
    /\ client = "idle"
    /\ WaitSleeps
    /\ UNCHANGED unchangedByWait

\* What it does on a ring that has been freed meanwhile is not defined.
ResumeWaitCqe ==
    /\ client = "signalled" /\ destroyer # "freed"
    /\ \/ WaitSleeps
       \/ /\ should_stop \/ ~NothingToReap
          /\ client' = "idle"
          /\ wait_cqe_cond_flag' = FALSE
    /\ UNCHANGED unchangedByWait

(* gw_ring_for_each_cqe and gw_ring_cq_advance.                              *)

unchangedByReap == <<should_stop, wait_cqe_cond_flag, sq, cq_tail, cqes, client,
                     cursor, pool, held, destroyer>>

LoadHeadCqe ==
    /\ client = "idle"
    /\ (cq_head + seen) % IdxMod # cq_tail
    /\ seen' = seen + 1
    /\ UNCHANGED <<unchangedByReap, cq_head>>

CqAdvance ==
    /\ client = "idle"
    /\ seen > 0
    /\ cq_head' = (cq_head + seen) % IdxMod
    /\ seen' = 0
    /\ UNCHANGED unchangedByReap

----------------------------------------------------------------------------
(* The threads of the work queue: gw_ring_wq_sqe_exec, then                  *)
(* gw_ring_wq_sqe_delete, then the way back to its lock in worker_func.      *)

unchangedByPool == <<should_stop, wait_cqe_cond_flag, sq, cursor, seen, destroyer>>

nr_running_workers == Cardinality(running \cup posted) + served

TakesHead ==
    /\ backlog # <<>>
    /\ running' = running \cup {Head(backlog)}
    /\ backlog' = Tail(backlog)

\* A thread without a work takes the oldest.
StartWork ==
    /\ nr_running_workers < PoolThreads
    /\ TakesHead
    /\ UNCHANGED <<unchangedByPool, cq, client, posted, served, queuer, held>>

Exec(r) ==
    /\ r \in running
    /\ PostCqe(r, WakeClient)
    /\ running' = running \ {r}
    /\ posted' = posted \cup {r}
    /\ UNCHANGED <<unchangedByPool, backlog, served, queuer, held>>

Delete(r) ==
    /\ r \in posted
    /\ posted' = posted \ {r}
    /\ held' = DropUpdate(r)
    /\ served' = served + 1
    /\ UNCHANGED <<unchangedByPool, cq, client, backlog, running, queuer>>

\* Mutant: the return is early when one other work is in hand, too.
WakeQueuerRarely == IF queuer = "asleep" /\ nr_running_workers > 2 THEN "signalled" ELSE queuer

\* wake_up_all_queue_work_callers returns early when no other work is in hand.
WakeQueuer == IF queuer = "asleep" /\ nr_running_workers > 1 THEN "signalled" ELSE queuer

\* Mutant: a thread without a work does not see that the queue is being destroyed.
RestsUnlessStopped ==
    backlog = <<>> /\ destroyer # "joining" /\ UNCHANGED <<backlog, running>>

Rests == backlog = <<>> /\ UNCHANGED <<backlog, running>>

\* The thread wakes the caller that waits for room, and in the same critical
\* section takes the next work, or finds none and sleeps, or exits.
Finish ==
    /\ served > 0
    /\ served' = served - 1
    /\ queuer' = WakeQueuer
    /\ TakesHead \/ Rests
    /\ UNCHANGED <<unchangedByPool, cq, client, posted, held>>

----------------------------------------------------------------------------
(* gw_ring_destroy, by a thread that may not be the client.                  *)

DestroyCall ==
    /\ destroyer = "out"
    /\ destroyer' = "called"
    /\ UNCHANGED <<should_stop, wait_cqe_cond_flag, sq, cq, client, cursor, seen,
                   pool, held>>

\* It takes sq_lock, so it waits for a submission to end.
DestroyStop ==
    /\ destroyer = "called"
    /\ client # "submitting"
    /\ should_stop' = TRUE
    /\ client' = WakeClient
    /\ destroyer' = "stopping"
    /\ UNCHANGED <<wait_cqe_cond_flag, sq, cq, cursor, seen, pool, held>>

\* destroy_workqueue deletes the works left in its ring,
DestroyQueue ==
    /\ destroyer = "stopping"
    /\ backlog' = <<>>
    /\ held' = held \ Elems(backlog)
    /\ destroyer' = "joining"
    /\ UNCHANGED <<should_stop, wait_cqe_cond_flag, sq, cq, client, cursor, seen,
                   running, posted, served, queuer>>

\* and joins its threads.  Nobody waits for a client woken in gw_ring_wait_cqe.
DestroyFree ==
    /\ destroyer = "joining"
    /\ running \cup posted = {} /\ served = 0
    /\ destroyer' = "freed"
    /\ UNCHANGED <<should_stop, wait_cqe_cond_flag, sq, cq, client, cursor, seen,
                   pool, held>>

----------------------------------------------------------------------------
SpuriousWakeup ==
    /\ client = "asleep"
    /\ client' = "signalled"
    /\ UNCHANGED <<unchangedByWait, wait_cqe_cond_flag>>

SpuriousRetry ==
    /\ queuer = "asleep"
    /\ queuer' = "signalled"
    /\ UNCHANGED <<unchangedBySubmit, sq_head, cq, client, cursor, backlog, held>>

SubmitStep == SubmitNop \/ SubmitPunt \/ SubmitSleeps \/ SubmitFails \/ SubmitEnd

PoolStep(r) == Exec(r) \/ Delete(r)

\* No call is made on a ring that has been freed.
ClientStep ==
    /\ destroyer # "freed"
    /\ \/ \E r \in Reqs : GetSqe(r)
       \/ SubmitBegin
       \/ WaitCqe
       \/ LoadHeadCqe
       \/ CqAdvance

Next ==
    \/ ClientStep
    \/ SubmitStep
    \/ ResumeWaitCqe
    \/ StartWork
    \/ \E r \in Reqs : PoolStep(r)
    \/ Finish
    \/ DestroyCall
    \/ DestroyStop
    \/ DestroyQueue
    \/ DestroyFree
    \/ SpuriousWakeup
    \/ SpuriousRetry

Spec == Init /\ [][Next]_vars

(* Locks are granted eventually, also sq_lock to a destroyer that finds it   *)
(* free again and again; works terminate, and a destruction that has begun   *)
(* is carried on; the client need not call anything.                         *)
Fairness ==
    /\ WF_vars(SubmitStep)
    /\ WF_vars(ResumeWaitCqe)
    /\ WF_vars(StartWork)
    /\ \A r \in Reqs : WF_vars(PoolStep(r))
    /\ WF_vars(Finish)
    /\ SF_vars(DestroyStop)
    /\ WF_vars(DestroyQueue)
    /\ WF_vars(DestroyFree)

FairSpec == Spec /\ Fairness

----------------------------------------------------------------------------
(* Properties.                                                               *)

\* The fields have their types.
TypeOK ==
    /\ should_stop \in BOOLEAN /\ wait_cqe_cond_flag \in BOOLEAN
    /\ {sq_head, sq_tail, cq_head, cq_tail, cursor} \subseteq 0 .. IdxMod - 1
    /\ sqes \in [0 .. SqSize - 1 -> Reqs \cup {NoReq}]
    /\ cqes \in [0 .. CqSize - 1 -> Reqs \cup {NoReq}]
    /\ client \in ClientStates /\ destroyer \in DestroyerStates
    /\ seen \in 0 .. CqSize
    /\ backlog \in Seq(Calls \cup Handles)
    /\ running \subseteq Calls \cup Handles /\ posted \subseteq Calls \cup Handles
    /\ served \in Nat /\ queuer \in QueuerStates
    /\ held \subseteq Handles

\* A request is never in two places, nor twice in one: it is submitted once and
\* executed once; neither ring holds more than its size, and the work queue no more
\* than it has room and threads for.
OnePlace ==
    LET places == <<Elems(SqEntries), Elems(backlog), running, posted>>
    IN  /\ \A i, j \in DOMAIN places : i # j => places[i] \cap places[j] = {}
        /\ Cardinality(Elems(SqEntries)) = Len(SqEntries) /\ Len(SqEntries) <= SqSize
        /\ Cardinality(Elems(backlog)) = Len(backlog)
        /\ Len(CqEntries) <= CqSize
        /\ Len(backlog) <= PoolCap /\ nr_running_workers <= PoolThreads

\* Completions are reaped in the order they were posted, and one that has been
\* posted is neither overwritten nor skipped before the client advances past it.
CompletionsFifo ==
    [][\/ \E n \in 0 .. Len(CqEntries) :
             CqEntries' = SubSeq(CqEntries, n + 1, Len(CqEntries))
       \/ \E r \in Reqs : CqEntries' = Append(CqEntries, r)]_vars

\* What the ring and its threads do to the requests punted are steps of module
\* WorkPool, the specification that Workqueue implements for the works of any
\* callers: the ring relies on no more than that, and on the wake-ups of Finish.
PunterPool == INSTANCE WorkPool WITH
                  Works      <- Calls \cup Handles,
                  Cap        <- PoolCap,
                  MaxThreads <- PoolThreads,
                  inflight   <- running \cup posted,
                  closed     <- destroyer \in {"joining", "freed"}
UsesWorkPool == PunterPool!Spec

\* The update of a module-handle request is freed exactly once, whichever way
\* the request leaves: executed, refused, or deleted with the work queue.
\* Entries not submitted when the ring is destroyed are the exception: nobody
\* frees theirs.
UpdateHeldWhileNeeded ==
    held = Handles \cap (Elems(SqEntries) \cup Elems(backlog) \cup running \cup posted)

\* The client never sleeps through a completion or through the end of the ring,
\* as long as the completion indexes lie on the same side of a wrap.
ClientWatched ==
    client = "asleep" =>
        wait_cqe_cond_flag /\ ~should_stop /\ (cq_tail >= cq_head => cq_tail = cq_head)

\* tests/core/ring.c, "the number of usable CQEs is at least twice the number of
\* SQEs": a completion is dropped only when so many are waiting to be reaped.
Dropped ==
    /\ cq_tail' = cq_tail
    /\ \/ running' # running /\ backlog' = backlog
       \/ client = "submitting" /\ cursor' # cursor /\ Current \in Nops
UsableCqes == [][Dropped => Len(CqEntries) >= 2 * SqSize]_vars

\* A client asleep while a request is on its way is woken.
ClientIsWoken ==
    client = "asleep" /\ (backlog # <<>> \/ running # {}) /\ cq_tail = cq_head
        ~> client # "asleep"

\* A submission that sleeps in queue_work while two works are in hand is woken: the
\* one that ends first ends beside the other.
RoomIsSignalled == queuer = "asleep" /\ nr_running_workers > 1 ~> queuer # "asleep"

\* A submission asleep for room in a work queue that has nothing left to do.
Stranded == queuer = "asleep" /\ nr_running_workers = 0 /\ backlog = <<>>

\* gw_ring_destroy gets to the end, whatever the client, the works and the entries
\* are doing when it is called, unless a submission is stranded for ever with the
\* sq_lock it needs.
DestroyEnds == destroyer = "called" ~> (destroyer = "freed" \/ []Stranded)
=============================================================================

-------------------------------- MODULE Bot --------------------------------
(***************************************************************************)
(* The main loop of core/main.c on top of the ring of module GwRing: one   *)
(* thread keeps one GET_UPDATES request in the ring, turns every update it *)
(* brings into a MODULE_HANDLE request, and re-arms GET_UPDATES.           *)
(*                                                                         *)
(* A MODULE_HANDLE request is named by the id of its update.  The server   *)
(* is external: it keeps the updates that the offset of a poll has not     *)
(* confirmed, and answers a poll with some of them, in order.  Every       *)
(* update of an answer parses.  The loop never stops: nothing sets         *)
(* should_stop before it ends, and process_cqe always returns 0.           *)
(***************************************************************************)
EXTENDS GwRing

CONSTANTS
    MaxUpdates,     \* bound: how many updates the server ever has
    BatchMax,       \* how many updates one answer may bring
    MaxIdlePolls    \* bound: how many polls fail or bring nothing

ASSUME BotAssumption ==
    /\ Cardinality(Calls) > PoolThreads /\ Handles = 1 .. MaxUpdates
    /\ Nops = {} /\ Unknown = {}
    /\ MaxUpdates \in Nat /\ BatchMax \in Nat \ {0} /\ MaxIdlePolls \in Nat

VARIABLES
    pc,             \* where the main thread is between its calls of the ring
    updates,        \* ctx->updates: the ids of the last answer
    failed,         \* whether the result of the last poll was an error
    todo,           \* updates of process_tg_api_updates not handed over yet
    offset,         \* the offset prepared in the GET_UPDATES request
    max_update_id,
    published,      \* the server has had the updates 1 .. published
    confirmed,      \* and has forgotten 1 .. confirmed
    idle_polls,     \* polls that failed or brought nothing, up to the bound
    executed        \* updates that gw_module_handle was called with

main    == <<pc, todo, max_update_id, offset>>
server  == <<published, confirmed, idle_polls>>
botVars == <<vars, main, server, updates, failed, executed>>

BotInit ==
    /\ Init
    /\ pc = "arm"
    /\ updates = <<>>
    /\ failed = FALSE
    /\ todo = <<>>
    /\ offset = 0
    /\ max_update_id = 0
    /\ published = 0
    /\ confirmed = 0
    /\ idle_polls = 0
    /\ executed = {}

----------------------------------------------------------------------------
(* The main thread.                                                          *)

\* A name for the next GET_UPDATES request: its data is its own, and earlier
\* ones may still wait for their deleter.
FreshPoll == CHOOSE p \in Calls : p \notin InUse

\* Mutant: the offset skips an update.
NextOffsetSkips == max_update_id + 2

NextOffset == max_update_id + 1

\* arm_update_sqe: the first time from run_tg_bot, then from the reaping loop.
ArmUpdateSqe ==
    /\ pc = "arm"
    /\ GetSqe(FreshPoll)
    /\ updates' = <<>>
    /\ offset' = NextOffset
    /\ pc' = IF seen = 0 THEN "submit" ELSE "reap"
    /\ UNCHANGED <<todo, max_update_id, server, failed, executed>>

\* Mutant: the id of the update is not recorded.
MaxIdForgets(u) == max_update_id

MaxId(u) == IF u > max_update_id THEN u ELSE max_update_id

\* One turn of the loop of process_tg_api_updates.
PrepUpdateHandle ==
    /\ pc = "process"
    /\ todo # <<>>
    /\ GetSqe(Head(todo))
    /\ todo' = Tail(todo)
    /\ max_update_id' = MaxId(Head(todo))
    /\ UNCHANGED <<pc, offset, server, updates, failed, executed>>

\* Mutant: GET_UPDATES is not armed again after an error.
AfterProcessGivesUp == IF failed THEN "reap" ELSE "arm"

AfterProcess == "arm"

ProcessDone ==
    /\ pc = "process"
    /\ todo = <<>>
    /\ pc' = AfterProcess
    /\ UNCHANGED <<vars, todo, max_update_id, offset, server, updates, failed, executed>>

\* gw_ring_submit, from run_tg_bot_loop or because there is no free entry.
MainSubmits ==
    /\ \/ pc = "submit"
       \/ pc = "arm" /\ SqFull
       \/ pc = "process" /\ todo # <<>> /\ SqFull
    /\ SubmitBegin
    /\ UNCHANGED <<main, server, updates, failed, executed>>

MainInSubmit ==
    /\ \/ SubmitPunt /\ UNCHANGED pc
       \/ SubmitSleeps /\ UNCHANGED pc
       \/ SubmitFails /\ UNCHANGED pc
       \/ SubmitEnd /\ pc' = IF pc = "submit" THEN "wait" ELSE pc
    /\ UNCHANGED <<todo, max_update_id, offset, server, updates, failed, executed>>

MainWaits ==
    /\ pc = "wait"
    /\ \/ WaitCqe /\ UNCHANGED pc
       \/ ResumeWaitCqe /\ pc' = IF client' = "idle" THEN "reap" ELSE pc
       \/ /\ client = "idle" /\ ~NothingToReap
          /\ pc' = "reap"
          /\ UNCHANGED vars
    /\ UNCHANGED <<todo, max_update_id, offset, server, updates, failed, executed>>

\* Mutant: every completion is taken for one of GET_UPDATES.
IsPollAny(r) == TRUE

IsPoll(r) == r \in Calls

\* process_cqe on the next completion; one of a module handle needs no more.
MainReaps ==
    /\ pc = "reap"
    /\ LoadHeadCqe
    /\ IF IsPoll(cqes[(cq_head + seen) % CqSize])
       THEN /\ pc' = "process"
            /\ todo' = IF failed THEN <<>> ELSE updates
       ELSE UNCHANGED <<pc, todo>>
    /\ UNCHANGED <<max_update_id, offset, server, updates, failed, executed>>

MainAdvances ==
    /\ pc = "reap"
    /\ (cq_head + seen) % IdxMod = cq_tail
    /\ CqAdvance
    /\ pc' = "submit"
    /\ UNCHANGED <<todo, max_update_id, offset, server, updates, failed, executed>>

MainStep ==
    \/ ArmUpdateSqe
    \/ PrepUpdateHandle
    \/ ProcessDone
    \/ MainSubmits
    \/ MainInSubmit
    \/ MainWaits
    \/ MainReaps
    \/ MainAdvances

----------------------------------------------------------------------------
(* The threads of the work queue, and the server.                            *)

PoolTakes ==
    /\ StartWork
    /\ UNCHANGED <<main, server, updates, failed, executed>>

PoolFinishes ==
    /\ Finish
    /\ UNCHANGED <<main, server, updates, failed, executed>>

PoolDeletes(r) ==
    /\ Delete(r)
    /\ UNCHANGED <<main, server, updates, failed, executed>>

MainWokenUp ==
    /\ SpuriousWakeup \/ SpuriousRetry
    /\ UNCHANGED <<main, server, updates, failed, executed>>

\* gw_module_handle is called with the update; its result is not looked at.
HandleUpdate(u) ==
    /\ u \in Handles
    /\ Exec(u)
    /\ executed' = executed \cup {u}
    /\ UNCHANGED <<main, server, updates, failed>>

\* The ids from lo to hi, in order.
Ids(lo, hi) == [k \in 1 .. hi - lo + 1 |-> lo + k - 1]

\* tgapi_call_get_updates stores what the server answers, then the request
\* completes.  Asking from `offset` on confirms what is below.
PollAnswered(p) ==
    /\ p \in Calls
    /\ Exec(p)
    /\ offset <= published
    /\ \E hi \in offset .. published :
          /\ hi - offset < BatchMax
          /\ updates' = Ids(offset, hi)
    /\ confirmed' = offset - 1
    /\ failed' = FALSE
    /\ UNCHANGED <<main, published, idle_polls, executed>>

\* The long poll times out with an empty answer, or the call fails, before or
\* after it reached the server.
PollIdle(p) ==
    /\ p \in Calls
    /\ Exec(p)
    /\ idle_polls < MaxIdlePolls
    /\ idle_polls' = idle_polls + 1
    /\ \/ failed' = FALSE /\ updates' = <<>> /\ confirmed' = offset - 1
       \/ failed' = TRUE /\ UNCHANGED updates /\ confirmed' \in {confirmed, offset - 1}
    /\ UNCHANGED <<main, published, executed>>

Publish ==
    /\ published < MaxUpdates
    /\ published' = published + 1
    /\ UNCHANGED <<vars, main, confirmed, idle_polls, updates, failed, executed>>

PoolThreadStep(r) == PoolDeletes(r) \/ HandleUpdate(r)

BotNext ==
    \/ MainStep
    \/ PoolTakes
    \/ PoolFinishes
    \/ \E r \in Reqs : PoolThreadStep(r) \/ PollAnswered(r) \/ PollIdle(r)
    \/ MainWokenUp
    \/ Publish

BotSpec == BotInit /\ [][BotNext]_botVars

(* The main thread and the threads of the work queue run on.  A poll that     *)
(* some update answers ends: only MaxIdlePolls of them end without it.       *)
BotFairness ==
    /\ WF_botVars(MainStep)
    /\ WF_botVars(PoolTakes)
    /\ WF_botVars(PoolFinishes)
    /\ \A r \in Reqs : WF_botVars(PoolThreadStep(r)) /\ WF_botVars(PollAnswered(r))

BotFairSpec == BotSpec /\ BotFairness

----------------------------------------------------------------------------
(* Properties.                                                               *)

\* The sizes of the program: an answer fits into the submission ring, before the
\* next poll, and into the work queue; and what the work queue runs when the poll
\* ends, which is taken last, leaves room for it in the completion ring.  (100
\* updates, rings of 8192 and 16384, 1024 threads, 4096 works pending.)
RoomForABatch == BatchMax < SqSize /\ PoolThreads + BatchMax <= CqSize
RoomInQueue   == BatchMax < PoolCap

\* The indexes of the completion ring never wrap: a run has no more completions
\* than one for each update and for each poll.
FewCompletions == 2 * MaxUpdates + MaxIdlePolls < IdxMod

\* The variables have their types.
BotTypeOK ==
    /\ TypeOK
    /\ pc \in {"arm", "submit", "wait", "reap", "process"}
    /\ {updates, todo} \subseteq Seq(Handles)
    /\ failed \in BOOLEAN
    /\ {offset, max_update_id, published, confirmed} \subseteq 0 .. MaxUpdates + 1
    /\ idle_polls \in 0 .. MaxIdlePolls
    /\ executed \subseteq Handles

\* Completions the reaping loop has not visited yet.
Unseen == {CqEntries[k] : k \in seen + 1 .. Len(CqEntries)}

\* The GET_UPDATES requests under way, and the completion not visited yet.
Polls == Calls \cap (Elems(SqEntries) \cup Elems(backlog) \cup running \cup Unseen)

\* There are never two polls: no thread writes ctx->updates while the main
\* thread hands over the updates in it, or sets it to NULL.
PolledOneAtATime ==
    Cardinality(Polls) <= (IF pc \in {"arm", "process"} THEN 0 ELSE 1)

\* The bot polls for ever: whenever the main thread is not about to arm
\* GET_UPDATES, it is under way.  (malloc must not fail in punt_to_io_wq: the
\* main loop does not notice when a submission leaves a request out.)
PollingForever == pc \notin {"arm", "process"} => Polls # {}

\* No completion is ever dropped, although a batch, the works under way and the
\* poll may be more than the completion ring takes: the poll is the last work of
\* its submission, so what is left when it ends is what other threads run.
NothingDropped == [][RoomForABatch /\ FewCompletions => ~Dropped]_botVars

\* The main thread never sleeps in queue_work, which might leave it there: a batch
\* and the poll find room, as everything before them has been taken.
NeverBlocked == RoomInQueue => queuer = "out"

\* The offset never runs ahead of the hand-over: an update the server has been
\* told to forget has been given to the ring, or to gw_module_handle.
ConfirmedAreHandled ==
    1 .. confirmed
        \subseteq executed \cup Elems(SqEntries) \cup Elems(backlog) \cup running

\* No update is handled twice: the offset of a poll is above every update
\* handed over, also when polls fail or the batches come in pieces.
NeverHandledTwice == [][\A u \in executed : ~HandleUpdate(u)]_botVars

\* Every update the server has is handled by the modules eventually, if the main
\* thread is never left asleep in queue_work.
EveryUpdateHandled ==
    \A u \in 1 .. MaxUpdates : RoomInQueue /\ u <= published ~> u \in executed
=============================================================================

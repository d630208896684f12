# GNUWeebBot2 in TLA+

This directory models the concurrent core of GNUWeebBot2, checks it with TLC and
proves part of it with TLAPS. Paths like `core/ring.c:124` are relative to the
root of the sources.

## 1. The system

The bot polls the Telegram server for updates and hands each one to its modules.

    main thread ── submission ring ──> work queue ──> worker threads
         ^                                                 |
         └────────────── completion ring <─────────────────┘

| component | state | operations | used by |
|---|---|---|---|
| work queue, `core/workqueue.c` | a ring of pending works (`head`, `tail`, `work_list`), worker slots, four counters, the flags `should_stop`, `queue_is_blocked`, `wait_all_is_waiting`, one lock, three condition variables | `alloc_workqueue`, `queue_work`, `wait_all_work_done`, `destroy_workqueue`, `worker_func` | the request ring |
| request ring, `core/ring.c`, `include/gw/ring.h` | a submission ring under `sq_lock`, a completion ring under `cq_lock`, `should_stop`, `wait_cqe_cond_flag` | `get_sqe`, `submit`, `wait_cqe`, `for_each_cqe`, `cq_advance`, `destroy` | the main loop |
| main loop, `core/main.c` | `ctx->updates`, `ctx->max_update_id` | `arm_update_sqe`, `process_tg_api_updates`, `run_tg_bot_loop` | |
| Telegram API, `lib/tgapi.c` | the array of updates of an answer, the blocks and the JSON objects they point into; the body of an answer | parse, take a reference, free, `get_updates`, `send_message` | worker threads |
| curl handles, `lib/curl.c` | a table of handles under a lock | `gw_curl_thread_init`, `gw_curl_global_cleanup` | Telegram API |
| modules, `modules/` | a fixed table | `gw_module_handle` | worker threads |
| threads, `core/thread.cc` | the mutex and, in the C++ build, a `unique_lock` it shares with the condition | pthread wrappers, or a C++ back end | everything |
| logging, `core/print.c` | a lock | `pr_info` and others | |

Calls go down this list; the only calls up are the works themselves, run by
worker threads, and the only other traffic is the completion ring and the
memory that a request points to (`ctx->updates`, and each update).

### What is hard about it

* *Work queue.* Three kinds of threads sleep on three condition variables and
  are woken on the strength of counters and of one flag that all waiters share.
  A signalled thread still counts as sleeping until it has the lock again.
  Workers are made on demand and thread creation may fail. Destruction runs
  against workers, queuers and waiters in any state. The ring's fill is computed
  from wrapped 32-bit indexes.
* *Request ring.* Completions are posted by the submitting thread and by
  workers; `queue_work` may block while `sq_lock` is held; failures drop a
  request half way through a batch; an update must be freed once on each of the
  ways a request can leave; the same index arithmetic.
* *Main loop.* The offset of the next poll must follow exactly what has been
  handed over; `ctx->updates` is shared without a lock; a batch may not fit into
  the submission ring while the completions of the loop's own batch are still
  held.
* *Telegram API.* An answer holds elements of any shape, and any allocation may
  fail half way through one; its array is filled in place and handed over whole;
  strings are pointers into JSON objects whose references several parts take and
  drop. A body arrives in chunks of any size.
* *Curl handles.* Every call makes a handle; the table grows under the lock.
* *Threads.* In the C++ build one field of the mutex carries the lock of whoever
  waited last, and whoever unlocks next deletes it.

### What makes each component correct

* Work queue: it is a bounded FIFO pool. Nothing accepted is lost, run twice or
  left behind; no sleeping thread is forgotten by the thread that should wake
  it; the queue is closed only on behalf of somebody; creation and destruction
  leave no thread behind.
* Request ring: each request is in one place; completions arrive in order and
  none is lost; the client is woken; a submission that waits for room is woken
  while works overlap; updates are freed once; destruction ends.
* Main loop: one poll at a time and never none; no update lost, none handled
  twice; it never waits for room in the work queue.
* Telegram API: every update that parses is handled once, whatever its
  neighbours are; one that does not parse does not hold the others up; a handler
  reads only what is alive; nothing is leaked or freed twice; a body is parsed
  whole or not at all.
* Curl handles: each one has one owner until it is closed; no two threads use one.
* Threads: one holder at a time, and a wait that has the mutex when it returns.

## 2. The modules

| module | models |
|---|---|
| `WorkPool` | the abstract promise of the work queue: a bounded FIFO pool |
| `Workqueue` | `core/workqueue.c`, complete but for argument checks |
| `GwRing` | `core/ring.c` with its inline functions, over a pool like `WorkPool` |
| `Bot` | `core/main.c` on top of `GwRing`, and the server |
| `TgUpdate` | one element of an answer to a `struct tg_update`: operators, no state |
| `TgUpdates` | `tgapi_parse_updates_len_max`, and the slots of its array up to their handlers |
| `UpdateRef` | the counted update: parse, `tgapi_inc_ref_update`, `tgapi_free_update` |
| `ApiCalls` | the two calls of `lib/tgapi.c`, `tgapi_curl_write`, and the table of `lib/curl.c` |
| `CondMutex` | the abstract promise of `include/gw/thread.h`: a mutex and a condition |
| `CxxMutex` | both in the C++ build of `core/thread.cc` |
| `MCWorkqueue`, `MCGwRing`, `MCBot` | instances for TLC: symmetry and views |
| `RingIndexProofs` | lemmas: indexes that wrap, and a ring between two of them as a sequence |
| `WorkqueueProofs`, `WorkqueuePoolProofs` | theorems about `Workqueue`: counters and wake-ups; works and the pool |
| `GwRingProofs`, `BotProofs` | theorems about `GwRing`, and about `Bot` on top of them |
| `TgUpdatesProofs` | theorems about `TgUpdates` |
| `CxxMutexProofs`, `ApiCallsProofs` | theorems about `CxxMutex` and `ApiCalls` |

How they stand on one another:

    Bot ──extends──> GwRing ──UsesWorkPool──> WorkPool <──ImplementsPool── Workqueue
                                                                              │ is written on
    TgUpdates, UpdateRef ──extend──> TgUpdate         CondMutex <─────────────┘
    ApiCalls                                              ^──ImplementsMutex── CxxMutex

`GwRing` has the pool (append, start, complete) in place of the detailed queue, with
what else of it a submission can feel: a caller that finds no room sleeps, and is
woken only by a work that ends while another is in hand. `UsesWorkPool` says that
the steps on the requests are those of `WorkPool`, the specification that
`Workqueue` is shown to implement; it is a theorem, not a run.
`Bot` has the order of polls, hand-overs and handlers with updates that all
parse; `TgUpdates` has what an answer may hold, with that order reduced to a
poll after a hand-over.

### Workqueue

Every field of `struct workqueue_struct` is a variable of the same name. The code
touches them only under `work_list_lock`, so one critical section, from
`mutex_lock` or a return from `cond_wait` to the next `mutex_unlock` or
`cond_wait`, is one action. A thread inside `cond_wait` is `"asleep"`; a signal,
a broadcast or a spurious wake-up makes it `"signalled"`, and it acts again when
it gets the lock, in competition with all the others. That is where the
interleavings come from. `cond_signal` picks any sleeping thread.

| code | actions |
|---|---|
| `alloc_workqueue`, `alloc_workers` and its error path | `AllocFails` (before any thread exists), `CreateWorker`, `CreateFails`, `AllocReturns`, `UnwindJoin`, `UnwindFree` |
| `queue_work`, `try_queue_work_locked`, `arm_worker`, `arm_spawn_worker` | `QueueWork` (the first turn of its loop), `ResumeQueueWork` (the later ones) |
| `worker_func`, `wait_for_event` | `WorkerStarts`, `WorkerWakes`, `RunWork`, `WorkerFinishes` |
| `wait_all_work_done` | `WaitAll`, `ResumeWaitAll` |
| `destroy_workqueue`, `join_all_workers` | `Destroy`, `JoinWorker`, `JoinAsserts`, `Free` |

`live` is a history variable: the works accepted and not yet deleted. A caller
brings a work that the queue does not hold already, because each is a fresh
allocation. Nobody calls the queue before `alloc_workqueue` returned or after it
is freed. `Free` waits for every caller to be out: the code destroys the
condition variables regardless, and doing so while a thread waits on one has no
defined outcome.

### GwRing

The client thread is `idle`, `submitting` (it holds `sq_lock` for the whole of
`gw_ring_submit`, one entry per step), `asleep` or `signalled`; each post takes
`cq_lock` for itself and is one step. `queuer` is where the same thread is in
`queue_work`: `SubmitPunt` is a turn of its loop that takes the work,
`SubmitSleeps` one that does not, with `sq_lock` still held. A thread of the work
queue takes a work (`StartWork`), posts (`Exec`), deletes (`Delete`), and on its way
back (`served`) decrements the running works, wakes the caller if that leaves
any, and looks for the next work (`Finish`). `GetSqe` includes the preparation of the
entry that follows it in every caller, which for a module-handle request gives
the ring a reference to an update; `held` is the set of updates so referenced:
each call of `tgapi_inc_ref_update` and `tgapi_free_update` on the way of a
request. (For the updates the bot really hands over these calls do nothing,
because the field `json` of the slots of an answer is never set; `TgUpdates` has
what that means for memory, `UpdateRef` what the calls do when it is set.)
Requests are names: they are in use again once they have left. The destroying
thread may be any thread; `DestroyFree` waits for the threads of the queue and for
nobody else, as the code does, and no call is made on a ring that is freed. The ring has one client, as in the program; with more,
`gw_ring_get_sqe` would publish an entry before it is filled.

### Bot

`pc` is where the main thread is between its calls of the ring: `arm`, `submit`,
`wait`, `reap`, `process`. `process_cqe` is `MainReaps` followed, for the
completion of a poll, by one `PrepUpdateHandle` per update and by
`ArmUpdateSqe`. `MainSubmits` in the states `arm` and `process` is the
submission made there when the submission ring is full. A poll or an update that
finds no room in the work queue leaves the main thread in `submitting`, asleep. A module-handle request
is named by its update. Updates are the numbers from 1 up. The server is external
and modelled from the way the code uses it: a poll with an offset confirms every
update below it and is answered with some of the following ones, in order; it
may also time out with nothing or fail, before or after it reached the server.
Every update parses here; what happens to those that do not is in `TgUpdates`.

### TgUpdate, TgUpdates, UpdateRef

An element of an answer is its update id and its *shape*: how far the parse gets
before it finds something missing. `tgj_get_update`, `tgj_get_message`,
`tgj_arrange_message_variant` and the labels `err_free_chat` and
`err_free_from` are operators on a pair of the structure being filled and the
heap. A user, a chat and an array of entities are heap blocks; a string is a
pointer into the JSON object of its element.

In `TgUpdates`, `updates` is the array of an answer (its length is the field
`len`), `i` and `j` are the parser's two indexes, `refs` counts the references
to each JSON object, and `old` is what earlier arrays held: `arm_update_sqe`
forgets the pointer and nothing frees it. `Answer`, `CallFails`, `ParseElement`,
`ParseNull` and `ParseEnds` are `tgapi_call_get_updates` with the parser;
`HandOver` and `Rearm` are the main thread; `Handle` is a worker thread in
`gw_module_handle`. After a null element the code frees the array and returns it
as a success: the model stops there (`pc = "undefined"`), and the properties
speak of the answers without it.

In `UpdateRef` a caller parses one update into memory that is not zeroed, as
`tests/lib/tgapi/supergroup.c` does, and the holders take and drop references.

### ApiCalls

`at` is where each thread is in its call: `escape` and `init` are its calls of
`gw_curl_thread_init`, `transfer` is inside `curl_easy_perform`, `failing` is a
transfer that a callback has refused, `parse` is after it. `EasyInit`, `StoreHandle`, `GrowFails` and
`CloseHandle` are the steps of `gw_curl_thread_init`: the handle is made before the
lock is taken, and closed after it is given up when the table cannot grow, so
meanwhile it is in the thread's hands (`mine`). Handles are numbered as they are
made. `Write` and
`WriteFails` are `tgapi_curl_write`. `allocated` and `room` differ because
`gw_curl_realloc_handles` passes a number of entries to `realloc` as a number of
bytes: a handle stored behind the end of the block has no defined effect, and
the model stops (`phase = "undefined"`). So it does when an empty body, a NULL
pointer, is given to json-c.

### CondMutex, CxxMutex

`CondMutex` is what the other modules assume of the thread functions: the
pthread build gives it directly. In `CxxMutex`, `ulock` is the field of
`struct mutex_struct`, `alive` and `owns` are the `unique_lock`s that are
allocated and those whose flag says that they own the mutex. `UnlockLock` and
`DeleteLock` are the two halves of a `mutex_unlock` that finds a `unique_lock`,
with other threads in between. A wait of libstdc++ reads the `unique_lock` as it
begins and not as it ends; the C++ standard promises less, and by its text a
thread whose lock is deleted while it sleeps has no defined behaviour.

## 3. What is checked

The bounds are in the `.cfg` files.

| run | instance | what it shows |
|---|---|---|
| `wq_safety` | 3 slots, 2 created early, ring of 2 with indexes modulo 4, 2 queuers, 2 waiters, 4 works; allocations and `thread_create` may fail at every call | counters, no idle backlog, conservation of works, waiters watched, drained on return, nothing left behind, refinement of `WorkPool` |
| `wq_liveness` | 3 slots, 2 created early, ring of 1, 2 queuers, 1 waiter, 3 works; the same failures | the pool's fairness, every accepted work released, `wait_all_work_done` returns, a failed allocation and a destruction join their workers, callers that wait for room are woken while works overlap |
| `wq_join_assert` | 2 slots, 1 created early, no waiter; `thread_create` may fail | **violated**: `assert(tmp_ret == worker)` |
| `ring_safety` | ring of 2 (4 completions), indexes modulo 12, 1 NOP and 1 module-handle request, one pending work, 2 worker threads, punts may fail, destruction at any time | one place per request, order of completions, updates freed once, the client never sleeps through a completion |
| `ring_liveness` | ring of 1 (2 completions), indexes modulo 6, 2 module-handle requests, one pending work, 2 worker threads | the client is woken, a submission asleep for room is woken while two works are in hand, destruction ends unless such a submission is left asleep for ever |
| `ring_wrap` | as `ring_safety` | **violated**: a completion is dropped although the ring has room |
| `bot_safety` | 4 updates one at a time, submission ring of 2 (4 completions), one pending work, 3 worker threads, punts may fail, 1 idle poll | one poll at a time, no completion dropped |
| `bot_liveness` | 3 updates in batches up to 3, submission ring of 2, 4 pending works, 2 worker threads, punts do not fail, 1 idle poll | the bot never stops polling, confirms only what it has taken charge of, hands nothing over twice, never sleeps in `queue_work`, handles every update |
| `tg_updates` | 3 updates of any of 9 shapes, answers of up to 3, 2 failures, 2 handlers waiting, 2 threads | no handler reads what is gone, every block has an owner, an update that parses is handled once, one that does not is passed by |
| `update_ref` | 1 update of any shape, 2 holders | **violated**: what an update owns is there while it is held and gone afterwards |
| `cxx_mutex` | 3 threads, 4 `unique_lock`s at a time | `mutex_unlock` touches only a lock that exists and owns; refinement of `CondMutex` |
| `api_calls` | 2 threads, 4 calls, a table of 3 entries of 8 bytes, a buffer of 3 bytes, chunks up to 4, bodies up to 9 | bodies stay in their buffer and are parsed whole, every handle has one owner until it is closed |

*Why the bounds are enough.* Three slots with two early workers give the pool a
worker that sleeps, one that is signalled and one made on demand at the same
time, and an allocation that fails after one thread is there; two queuers and two waiters give both branches of the "signal one,
broadcast to several" pattern and let one waiter clear the flag under the other.
A ring of two whose indexes wrap at four passes every index, wrapped or not,
empty and full. A pool of one pending work, or a submission ring of one entry,
which the rounding in the code excludes, only makes the full cases come sooner:
no test distinguishes it from two. `IdxMod` must be at least twice the size, so that the distance
of two indexes is unambiguous; 2^32 and the real sizes satisfy this. The
request ring needs twice that, because `AsInt` splits the range in two and the
distance across a wrap must come out negative (`2 * CqSize < IdxMod`), and a
multiple of the size: 12 for completion rings of 4, 6 for 2.
`OverlapWakes` needs two queuers: with one, no work is left to overlap with while
it sleeps. `RoomIsSignalled` needs two threads, since the wake-up it is about comes from a work that ends beside
another; the two, one pending work and the submission on its way have all the overlaps and all
the gaps between them, the one that strands the caller included.
In `bot_liveness` a batch of three on a submission ring of two forces the submissions in the middle
of the loop; the work queue has room for a batch and the poll, four, and for no more,
which is the least `RoomInQueue` allows. In `bot_safety` the sizes are the tightest that
`RoomForABatch` allows, a batch of one below a submission ring of two and three
threads that make four with it, the length of the completion ring; four updates, one in each
of four answers, keep all threads busy while the next poll and its batch come. With one thread more TLC finds a
completion dropped, so the condition decides and is not just met. The indexes of `Bot` do not wrap: what a wrap does is the subject
of `ring_wrap`. Three updates give every element a neighbour on each side in one
answer, and answers that follow one another; two failures allow one in the call
and one in an allocation, or two elements of one answer. Three threads are what
it takes for one to sleep on a `unique_lock` that a second replaces and a third
deletes. A buffer of 3 bytes and bodies of 9 pass through the first allocation,
both sides of every growth and a second growth; three handles fill the table, and
two threads reach the fourth, which it cannot hold or for which it cannot grow.

*Symmetry and views.* Queuers, waiters and works are symmetric in
`wq_safety`; no liveness run uses symmetry. `LiveView` and `BotView`
leave out ring entries that have been consumed, which no action reads before it
overwrites them.

*Deadlock* is not checked: a queue that is freed, a ring that is destroyed, a
bot without further updates and threads that have made all their calls stop,
rightly, and the runs with fairness state what must not stop. In `CxxMutex`
threads that all sleep stop only for want of a `unique_lock` below the bound.

### Fairness

* A thread that can take a lock gets it eventually (weak fairness per worker,
  queuer and waiter). The mutexes are not fair in theory; a thread starved for
  ever by others that take the same lock is not what these properties are about.
* A destroyer that asks for `sq_lock` gets it although submissions take it again
  and again: strong fairness of `DestroyStop`, the only strong fairness there is. It
  waits while one holds it, however long.
* A submission asleep in `queue_work` is woken by nothing but the code's own wake-up
  (`WakeQueuer`): no fairness is given to its going on.
* A work runs to its end: `RunWork`, `Exec`, `Delete` and `Finish` are fair. Works are HTTP requests
  and module handlers; a request that never returns would occupy its thread, and
  curl is given no timeout.
* A destruction that has begun goes on; nobody is obliged to begin one, to call
  the queue, or to call the ring.
* The main thread keeps running. A poll that some update answers is answered
  eventually, and only `MaxIdlePolls` polls fail or bring nothing; the real
  condition is that the network works again and again.
* In `TgUpdates`, the same for the poll and the main thread, taken together, and
  for the handlers.

## 4. What is proved

TLAPS proves these for all values of the constants that satisfy the named
assumptions of the modules:

* `Workqueue` (`ThreadsAssumption`, `SizeAssumption`, `ClientAssumption`): any
  number of threads and callers, any set of works, any ring size;
* `GwRing` (`RingAssumption`, `OpcodeAssumption`): any set of requests, any sizes
  of the rings and of the pool, any range of the indexes, whatever may fail.
  `OpcodeAssumption` says that a request has one opcode, which `struct gw_ring_sqe`
  gives it;
* `Bot` (`BotAssumption`, and those of `GwRing`): any number of updates, idle polls
  and updates in an answer, any rings and pool. There are more names for polls than
  the pool has threads, as every poll has memory of its own; the main loop
  uses no other kind of request than polls and module handles;
* `TgUpdates` (`UpdatesAssumption`, `NullAssumption`): any number of updates of
  any shapes, answers of any length, any number of failures and handlers.
  `NullAssumption` says that `NULL` is neither an id nor the address of a block;
* `CxxMutex` (`ThreadsAssumption`, `LocksAssumption`): any threads and any number
  of locks;
* `ApiCalls` (`CallsAssumption`): any sizes of table, buffer, chunks and bodies.

| module | theorem | statement |
|---|---|---|
| `Workqueue` | `TypeCorrect` | `Spec => []TypeOK` |
| | `CountersCorrect` | `Spec => []CountersMatch` |
| | `NoLostWakeup` | `Spec => []NoIdleBacklog`, if `thread_create` cannot fail or one worker is made at the start |
| | `WaitAllNotForgotten` | `Spec => []WaiterWatched` |
| | `BlockedOnlyByWaiter` | `Spec => []BlockedHasWaiter` |
| | `WorksConserved` | `Spec => []WorkConserved` |
| | `ReturnsDrained` | `Spec => DrainedOnReturn` |
| | `NothingLeft` | `Spec => []FreedLeavesNothing` |
| | `Refinement` | `Spec => ImplementsPool` |
| `GwRing` | `RingTyped` | `Spec => []TypeOK` |
| | `SleeperIsWatched` | `Spec => []ClientWatched` |
| | `CompletionsInOrder` | `Spec => CompletionsFifo` |
| | `RequestsOnce` | `Spec => []OnePlace` |
| | `UpdatesHeld` | `Spec => []UpdateHeldWhileNeeded` |
| | `RingUsesPool` | `Spec => UsesWorkPool` |
| `Bot` | `BotTyped` | `BotSpec => []BotTypeOK` |
| | `OnePollAtATime` | `BotSpec => []PolledOneAtATime` |
| | `HandledAtMostOnce` | `BotSpec => NeverHandledTwice` |
| | `OffsetBehindHandOver` | `BotSpec => []ConfirmedAreHandled`, if `punt_to_io_wq` does not fail |
| | `BotUsesRing` | `BotSpec => Spec`, the specification of `GwRing` |
| | `NoUpdateLost` | `BotSpec => []Accounted`, if `punt_to_io_wq` does not fail |
| | `MainNeverBlocked` | `BotSpec => []NeverBlocked` |
| | `RoomForAll` | `BotSpec => NothingDropped`, if `RoomForTwoBatches` and `FewCompletions` |
| | `RoomBetweenWraps` | no completion is dropped while `cq_head <= cq_tail`, if `RoomForTwoBatches` |
| | `PollsForEver` | `BotSpec => []PollingForever`, if `RoomForTwoBatches` and `FewCompletions`, and `punt_to_io_wq` does not fail |
| | `MainNeverOversleeps` | `BotSpec => [](AwakeWhenDue /\ ClientWatched)`, if `FewCompletions` |
| `TgUpdates` | `UpdatesTyped` | `Spec => []TypeOK` |
| | `NoBlockLost` | `Spec => []BlocksOwned` |
| | `TextsAlive` | `Spec => []HandlerReadsAlive` |
| | `UpdatesOnce` | `Spec => []HandledOnce` |
| `CxxMutex` | `UnlockIsSafe` | `Spec => []UnlockSafe` |
| | `Refinement` | `Spec => ImplementsMutex` |
| `ApiCalls` | `BodyAlwaysFits` | `Spec => []BodyFits` |
| | `NeverParsedCut` | `Spec => []ParsedWhole` |
| | `HandlesAlwaysOwned` | `Spec => []HandlesOwned` |

*The argument for the work queue.* `TypeOK` is not inductive: that a counter stays in its range
holds because it counts threads. The invariant `Typed` (in `WorkqueueProofs`)
therefore joins it with `CountersMatch` and three facts: a caller inside
`queue_work` holds a work (`CallersHold`), `alloc_workers` fills the slots in
order (`CreatedInOrder`), and nobody is inside before the queue is shared
(`NotYetShared`). The lemmas about cardinalities (`CountMove` and those after
it) say what one thread moving from state to state does to a count. There is
one lemma per group of actions, and `NextTyped` combines them.

For the wake-ups, `WorkqueueProofs` adds `Stage`, which ties the owner's progress to the rest:
the ring never holds more than `Cap` works however the indexes wrapped
(`RingBounded`); when `should_stop` is set the ring is empty, and workers end
only then; the first worker, or reliable thread creation, is there.
`RingBounded` rests on the one thing that is right about `count_pending_works`
after a wrap: it can be too large but not too small, `AcceptFits`. The wake-up
theorems then follow from `Typed /\ Stage`, each as its own inductive step:
when a work is queued and `nr_sleeping_workers` is positive, either some worker
is really asleep, and the signal wakes it, or one that is counted has been
signalled and is awake (`ArmAwakes`); a waiter that sleeps has set the flag, and
another one that wakes and clears it either sleeps again, which sets it, or finds
the queue drained or stopping, and then the broadcast that came with that has
woken every waiter.

*The argument for the pool.* Both rings of the program, that of the queue and
those of `core/ring.c`, are entries between two indexes that run modulo 2^32, each
entry found modulo the size of the ring. `RingIndexProofs` turns that into
sequences once for all: `RingSeq` is the sequence of the entries between two
indexes, an append at the tail is `Append` (`RingSeqAppend`) and an advance of the
head drops from the front (`RingSeqDrop`), whatever has wrapped, as long as the
distance of the indexes stays within the ring and the size divides the range.
`WorkqueuePoolProofs` first reduces every action to one of five moves of the
works, `Puts`, `Takes`, `Ends`, `Closes` and `Keeps` (`MoveSummary`): the wake-ups
and counters are irrelevant to what follows. The invariant is then that the works
alive are those in the ring and those in hand, each in one place (`OnePlace`), and
that a caller's work is new (`Fresh`): without the second a work could enter the
ring twice. `WorksConserved` is read off. Each move is a step of the pool or a
stutter (`StepServes`); that the pool never has more than its threads in flight is
that distinct busy workers hold distinct works (`RoomForOne`). `NothingLeft` needs
`JoinedSoFar`, how far the joins have come, and `Stage`; `ReturnsDrained` that a
waiter leaves only on `DrainedIsEmpty`.

*The argument for the request ring.* `TypeOK` is not inductive here either: the
fields are typed only if the indexes are never further apart than the ring is
long, `Bounded`, also while a submission has advanced its cursor and not yet the
head. `u32_diff`, the absolute difference of two wrapped indexes that the code
takes for the fill, decides whether an entry is written. `RoomIsRoom` says in which
direction it may be wrong: it can call a ring full that has room, never the other
way round. That is why `ring_wrap` finds a dropped completion, and why no
completion is ever overwritten all the same. `SleeperIsWatched` adds `Stopping`, how
far the destruction has come. `Placed` has the requests: in one place, once, with
the update of exactly these held; nine moves (`Gets` to `Stays`) are all that
happens to them (`Moves`). `RingUsesPool` maps each step to one of `WorkPool`.

*The argument for the main loop.* Every step of `Bot` but those of the server is a step
of `GwRing` that nobody destroys (`BotRings`), so that `Typed` and `Placed` hold
of it too, and what happens to the requests is one of the nine moves. The invariant
`Inv` of `BotProofs` adds three things. `OnePoll`: of the requests not executed
(`Underway`) and the completions not visited (`Unread`) at most one belongs to a poll, and
none while the main thread is arming or handing over. That a poll posts at
most one completion (`ExecUnread`), and that the loop goes from visiting it to `arm`
before it can visit another, keeps this. `InOrder`: the batch of the last answer, and what
is left of it, are the ids just behind `max_update_id`, in order (`Follows`); the
offset of a poll under way is `max_update_id + 1`; and whatever is executed or
under way is at or below `max_update_id`, and not both. So a hand-over is of an
id above all those before it. `Crew`, which `GwRingProofs` has of the ring: the works in hand are at most `PoolThreads`,
so that `FreshPoll` is a poll (`FreshIsFree`). `OffsetBehindHandOver` needs that
nothing at or below `max_update_id` gets lost either (`NoneForgotten`), which holds
only if `malloc` does not fail in `punt_to_io_wq`: that is its hypothesis, and
that of the run.

*The argument that the main loop does not block.* A submission that finds the work
queue full might sleep for ever, with `sq_lock` held, behind the last work. `InLine` says that this does not
happen to a bot whose queue has room for a batch and a poll: of the requests that are
in the submission ring or the work queue, in the order in which they will be taken, the poll is the
last (`TailLast`). So when a thread executes it, the requests before it have been taken, and
nothing is in line but the requests of one batch and the next poll until that
is executed in turn: `BatchMax + 1` at most. `NeverBlockedKept` is then that
`queue_work` finds room at once. The bot's sizes are 4096 pending works and
batches of 100.

*The argument for the sizes.* Whether the completion ring has room for every completion
depends on the sizes. `RoomForTwoBatches` says that the works in hand and two batches
are less than the completion ring has: `PoolThreads + 2 * BatchMax < CqSize`. The bot's are
1024 and 16384, twice the submission ring (`core/ring.c:27` and 44, `core/main.c:190`), which leaves 15359 for two batches; its
URL has no limit, and the server then sends 100 updates at most, which is a fact about
Telegram and not about this code. `Load` counts the entries, works and
executions that are going to post, and the completions not given back. A thread executes a poll
after everything before it has been taken (`InLine`), so then only what other threads have in
hand is to come, whatever the length of the submission ring and of the work queue. Between
two answers the load is therefore at most `Most`, the works in hand, one batch and the poll,
since the loop gives back the completions before it
waits again; while a batch is handed over it is at most `Most + BatchMax`
(`Counted`). This rests on there being one poll at a time: a second batch could
come before the completions of the first were given back. An empty ring at
`arm` (`seen = 0`) is the first poll. With `RoomForTwoBatches`, `Most + BatchMax` does not
exceed the completion ring, and the completion to be posted is counted in it
(`RoomLeft`).

`RoomForABatch`, under which TLC checks `NothingDropped`, asks for less: a batch
shorter than the submission ring, and `PoolThreads + BatchMax <= CqSize`. When the batch fits, the loop submits it only
after it has given back the completions it visited, and only one batch counts. The
theorem asks for the second one because `gw_ring_get_sqe` measures the submission ring with `u32_diff` as well: on two
sides of a wrap it takes the ring for full, and the loop submits in the
middle of a batch although there is room. The proof does not count those indexes
and allows for that at any time.

That is for indexes on one side of a wrap (`RoomBetweenWraps`). On two sides,
`u32_diff` can drop a completion whatever the sizes, as `ring_wrap` shows.
`FewCompletions` says that the indexes do not get there: `2 * MaxUpdates +
MaxIdlePolls < IdxMod`. `Numbered` is the count that makes this enough: `cq_tail`, a count of completions,
is at most the updates executed, the polls that brought nothing, and the updates brought by the
polls that brought some. With 2^32 values that is a bot that has had two thousand
million updates, or has polled in vain four thousand million times. `RoomForAll` is both
together, `PollsForEver` follows as no step but a drop or a failed punt loses
a poll (`Asked`), and `MainNeverOversleeps` is `ClientWatched` where its exception does
not occur; the theorem about the ring is taken over by `BotUsesRing`.

*The argument for the updates.* `GetUpdate` says what the parse of one element
does to a slot and to the heap, from one lemma for each store, allocation and free
on the way: what fails leaves no block, and what was kept owns its blocks and
points into its own object. `Inv` has three parts besides the types. `Window`: the
answer begins just behind the offset. `Memory`: every slot there ever was is
`Sound`, its blocks are those of the element it names; the slots behind `j`, which
elements to come overwrite, own nothing (`Clean`); and no slot names an element
that has not been looked at, so that a block is never allocated twice. `Counted`:
the references to an element are the answer's, while it is parsed, and one for
the slot that keeps it. `NoBlockLost` and `TextsAlive` follow. `UpdatesOnce`
needs `Ordered` in addition: the ids in the slots rise, except that those of the
elements that failed at the end are followed by zeroes; every good element that
has been looked at has its slot; and the offset stands at the last id handed over.
So the id of a slot handed over is new, and no good one is passed (`HandIsNew`,
`HandPasses`). `WaitingAppended` and `WaitingRemoved` count the handlers in the
queue.

*The argument for the C++ mutex.* `UnlockSafe` says what must be true of the
field `ulock` and of the locks that threads are deleting; it becomes inductive
(`IInv`, in `CxxMutexProofs`) with two facts about the threads: one is between
`mutex_lock` and `mutex_unlock` exactly when the `std::mutex` is its own
(`HolderIsIn`), and a thread that deletes nothing has no lock in its local
variable (`LocalClear`). Only the holder touches `ulock`, and it takes the lock
out of the field before it gives the mutex up: so no two threads find the same
one. The refinement follows step by step: `UnlockLock` and `UnlockMutex` are
both `Unlock`, and `DeleteLock` is a stutter.

*The argument for the calls.* `Inv` (in `ApiCallsProofs`) joins `BodyFits` with
two facts. A body has taken what the server has sent until a chunk is refused,
and from then on the call is on a way that does not lead to the parser
(`WholeSoFar`). `HandlesOwned` becomes inductive with
`NamedInTurn`: a handle that is made is not one that is open. It has a lemma for
each step that gets, stores or closes one, and `HandlesRest` for the others. `GrownIsEnough` is the arithmetic of the growth, first
allocation and later ones.

*Only model-checked:* liveness, which is outside the prover: the fairness of the
pool (`ServesPool`), `AcceptedIsReleased`, `OverlapWakes`, `EveryUpdateSettled` and
the others of the `_liveness` runs and of `tg_updates`. Every invariant and
every action property of a passing run has a theorem. Two of them, `NothingDropped` and
`PollingForever`, do not hold for every value of the constants. The theorems about them have the
hypotheses above; that `NothingDropped` holds already under the weaker
`RoomForABatch`, while the indexes do not wrap, is only model-checked. A bot
with a completion ring shorter than its threads and a batch could lose polls.

## 5. What the models show about the code

Three runs end in a violation, of a statement made in the repository.

* `wq_join_assert`. `arm_spawn_worker` marks the slot before `thread_create` and
  leaves the mark when it fails (`core/workqueue.c:249`). `join_all_workers`
  then joins a thread that does not exist; its assertion (341) does not hold.
* `ring_wrap`. `u32_diff` is the absolute difference of two wrapped indexes. With
  `cq_tail` wrapped and `cq_head` not, `post_cqe` takes the ring for full
  (`core/ring.c:124`) and drops the completion, against the comment at
  `tests/core/ring.c:46`.
* `update_ref`. `tgapi_free_update` returns early when `json_object_put` says
  that it has freed the object, and frees the blocks of the update when it has
  not (`lib/tgapi.c:460`). The last holder leaks them; a holder before the last
  frees them under the others. `include/gw/lib/tgapi.h:194` has the object
  released with the update. The bot does not meet this, because the field `json`
  of the updates of an answer is never set.

Further behaviour that contradicts no statement of the code, but that a reader of
the models should know, because the properties are stated around it:

* `wake_up_all_queue_work_callers` does nothing when the last running worker
  finishes (`core/workqueue.c:389`), so a caller of `queue_work` that waits for
  room can sleep until two works overlap again (`OverlapWakes`). Callers turned away because the
  queue is blocked are not woken when it is unblocked (221), nor at destruction
  (346-352). No property says that `queue_work` returns.
* A submission to the ring sleeps in `queue_work` with `sq_lock` held. If the last work
  ends alone, it sleeps on although the queue is empty, and whoever needs `sq_lock`, as
  `gw_ring_destroy` does, waits behind it: the exception `Stranded` of `DestroyEnds`.
  The bot does not get there (`NeverBlocked`).
* `gw_ring_destroy` wakes a client asleep in `gw_ring_wait_cqe`, and then destroys the
  locks and frees the rings without waiting for it to leave (`core/ring.c:96-103`). The
  model lets the client be woken and not go on when that comes first, because what it would do is undefined. In the program
  the thread that destroys the ring is the client.
* A worker woken by `destroy_workqueue` while the queue is blocked sleeps again
  (369) and is not woken when it is unblocked. `ShutdownJoinsAll` has
  the condition under which the join ends.
* Two callers of `wait_all_work_done`: the first to return unblocks the queue
  for both. `WaitAllTerminates` is checked with one caller; with two, the second
  may wait for ever behind new works.
* With `min_threads = 0`, a work accepted when no thread can be created has
  nobody to run it: the condition of `NoLostWakeup`. The bot creates 32.
* Across a wrap of the completion indexes `gw_ring_wait_cqe` gets a negative
  count and sleeps although completions are there (`core/ring.c:241`):
  `ClientWatched` excepts that case.
* If `malloc` fails in `punt_to_io_wq`, the request is forgotten. For the poll
  this ends all polling, as the main loop does not look at the number of
  submitted entries. `PollingForever` is checked without such failures.
* Entries not submitted when the ring is destroyed leak their update.
* `gw_ring_get_sqe` publishes an entry before its caller has filled it
  (`core/ring.c:220`). The program has one client; a second one that submitted
  in between would hand over an entry of zeroes.
* The length of an answer's array is that of the answer, so slots of elements
  that did not parse are handed over too, half filled or zeroed. The properties
  of `TgUpdates` hold with that; cutting the array to what was filled would stop
  the offset from passing an element at the end that does not parse
  (`ResultTrimmed` is that change), and the server would send it for ever. An
  element without an id has that effect in the code as it is.
* A null element among the updates (`lib/tgapi.c:520`): `ParseNull`, above.
* When the entities of a text cannot be allocated (232), the slot says text
  although it has no chat and its text is in an object that is not kept;
  `HandlerReadsAlive` excepts it.
* The array of an answer and the blocks of its updates are never freed, as
  `json` is never set and nothing calls `tgapi_free_updates`. The buffer of a
  transfer that fails after some chunks is lost (637), and an empty body is a
  NULL pointer for json-c (640).
* Every call of the API makes a new curl handle, `sendMessage` two, since nothing
  sets `current_thread_curl_handle`. The table grows at the 1025th, and then
  `realloc` is given a number of entries as a number of bytes (`lib/curl.c:80`).
* In the C++ build `cond_wait` returns at once when it cannot allocate
  (`core/thread.cc:203`), and its callers, which loop on a condition, spin with
  the mutex held. A wait overwrites the `unique_lock` of the one before it (206),
  which is then leaked.
* `gw_shutdown_modules` skips the modules that have a shutdown function and calls
  that of the others (`modules/module.c:46`); the loop of the bot never ends, so
  it is not reached.

## 6. Not modelled, and why

* `validate_and_adjust_workqueue_attr` and the rounding in `gw_ring_init`: their
  result is the constants `Cap` and `SqSize`. The unwinding of `gw_ring_init` and
  `gw_curl_global_init`, before any thread exists: straight lines.
* In the C++ build: `thread_create`, `thread_join` and `thread_detach`, and the
  failure of `cond_wait` to allocate. The models that use threads have their
  creation and join as steps of their own.
* What fields of an update hold beyond its id, its type and the pointers; the
  URLs, and which module answers what. `tgapi_free_updates`, which nothing calls.
* Start-up and exit of `core/main.c`, `gw_init_modules` and
  `gw_shutdown_modules`: the environment, and code that is not reached.
* `core/print.c` (lines written under one lock), the build files, and the tests,
  which are read as statements about the code.
* What follows undefined behaviour: a freed array that is handed over, a store
  behind the end of the table, a NULL body.

## 7. Plan

In order of importance:

1. done: `WorkPool`, `Workqueue`, with the runs and the theorems above.
2. done: `GwRing` and `Bot`, with their runs; `GwRing` uses `WorkPool`.
3. done: `TgUpdate`, `TgUpdates`, `UpdateRef`, with their runs.
4. done: `ApiCalls` and `CxxMutex`, with their theorems.
5. done: the works of `Workqueue` (`WorkConserved`, `FreedLeavesNothing`,
   `DrainedOnReturn`, `ImplementsPool`), `GwRing` and `TgUpdates` proved.
6. done: `Bot` proved: `BotTypeOK`, `PolledOneAtATime`, `NeverHandledTwice` and,
   without failing punts, `ConfirmedAreHandled`; and the conditions on the
   sizes and on the range of the indexes under which `NothingDropped` and
   `PollingForever` hold for all updates; that the main loop never waits for room
   in the work queue (`NeverBlocked`).
7. `QueueSizing`: the rounding up to powers of two and the masks, with 32-bit
   overflow, against a reference definition.
8. `thread_create` and `thread_join` of the C++ build.

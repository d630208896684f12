------------------------------ MODULE TgUpdates ------------------------------
(***************************************************************************)
(* The updates of the bot from a getUpdates answer to their handlers:      *)
(* tgapi_parse_updates_len_max fills the array of an answer from whatever  *)
(* elements the answer holds, the main thread hands its slots over and     *)
(* moves the offset on, and the threads of the work queue read the slots.  *)
(*                                                                         *)
(* Module Bot has the order of polls, hand-over and handlers; here it is   *)
(* only that a poll follows a hand-over.  Two facts of the code decide     *)
(* what memory is alive: the json field of a slot is never set, so that    *)
(* tgapi_inc_ref_update and tgapi_free_update do nothing; and no array is  *)
(* ever freed.                                                             *)
(***************************************************************************)
EXTENDS TgUpdate, Sequences, FiniteSets

CONSTANTS
    MaxUpdates,     \* bound: the updates the server has
    Kinds,          \* the shapes they may have; "null" is no object at all
    BatchMax,       \* how many an answer may bring
    MaxFailures,    \* bound: how many calls and allocations fail
    Backlog,        \* how many handlers may wait before the main thread does
    Threads         \* how many handlers run at a time

ASSUME UpdatesAssumption ==
    /\ MaxFailures \in Nat
    /\ {MaxUpdates, BatchMax, Backlog, Threads} \subseteq Nat \ {0}
    /\ Kinds \subseteq Shapes \cup {"null"}

Updates == 1 .. MaxUpdates

VARIABLES
    shape,          \* the elements the server sends
    pc,             \* "poll", "parse", "hand", or "undefined" behaviour
    first,          \* the id of the first element of the answer
    updates,        \* updates->updates[]; its length is updates->len
    i, j,           \* elements read, and slots filled; then i: slots handed over
    max_update_id,
    tasks,          \* slots handed over whose handler has not run
    heap,           \* blocks allocated and not freed
    refs,           \* references to the JSON object of each element
    old,            \* the slots of earlier arrays, which nobody frees
    failures,       \* calls and allocations that have failed, up to the bound
    lost,           \* elements that would parse and met a failed allocation
    served          \* how often a handler has run on the whole update, up to 2

parser == <<first, updates, i, j, heap, refs>>
client == <<max_update_id, tasks, old, served>>
vars   == <<shape, pc, parser, client, failures, lost>>

Slots(s) == {s[k] : k \in DOMAIN s}

Init ==
    /\ shape \in [Updates -> Kinds]
    /\ pc = "poll"
    /\ first = 1 /\ updates = <<>> /\ i = 0 /\ j = 0
    /\ max_update_id = 0
    /\ tasks = <<>>
    /\ heap = {}
    /\ refs = [u \in Updates |-> 0]
    /\ old = {}
    /\ failures = 0
    /\ lost = {}
    /\ served = [u \in Updates |-> 0]

----------------------------------------------------------------------------
(* The thread that executes GET_UPDATES.                                     *)

\* The server answers with some of the updates from the offset on; the answer is
\* parsed, with one reference to every element, and the array is all zeroes.
Answer ==
    /\ pc = "poll"
    /\ \E len \in 1 .. BatchMax :
          /\ max_update_id + len <= MaxUpdates
          /\ updates' = [k \in 1 .. len |-> Zeroed]
          /\ refs' = [u \in Updates |->
                         IF u \in max_update_id + 1 .. max_update_id + len THEN 1 ELSE refs[u]]
    /\ first' = max_update_id + 1
    /\ i' = 0 /\ j' = 0
    /\ pc' = "parse"
    /\ UNCHANGED <<shape, client, heap, failures, lost>>

\* The call fails, its body is no JSON or has no result, or calloc fails.
CallFails ==
    /\ pc = "poll"
    /\ failures < MaxFailures
    /\ failures' = failures + 1
    /\ UNCHANGED <<shape, pc, parser, client, lost>>

\* Mutants: the element is not kept, or kept twice.
KeepNothing(u) == refs
KeepTwice(u)   == [refs EXCEPT ![u] = @ + 2]

\* json_object_get, on behalf of the strings of the slot.
Keep(u) == [refs EXCEPT ![u] = @ + 1]

\* Mutant: the slot of an update is used again for the next one.
NextSlotSame(u, fault) == j

\* An element that does not parse leaves what it filled in its slot, for the next
\* one to overwrite.
NextSlot(u, fault) == IF Succeeds(shape[u], fault) THEN j + 1 ELSE j

ParseElement ==
    LET u == first + i
    IN  /\ pc = "parse"
        /\ i < Len(updates)
        /\ shape[u] # "null"
        /\ \E fault \in Faults :
              LET s == tgj_get_update([up |-> updates[j + 1], heap |-> heap],
                                      u, shape[u], fault)
                  spoils == Succeeds(shape[u], "none") /\ ~Succeeds(shape[u], fault)
              IN  /\ fault = "none" \/ (spoils /\ failures < MaxFailures)
                  /\ updates' = [updates EXCEPT ![j + 1] = s.up]
                  /\ heap' = s.heap
                  /\ j' = NextSlot(u, fault)
                  /\ refs' = IF Succeeds(shape[u], fault) THEN Keep(u) ELSE refs
                  /\ failures' = IF spoils THEN failures + 1 ELSE failures
                  /\ lost' = IF spoils THEN lost \cup {u} ELSE lost
        /\ i' = i + 1
        /\ UNCHANGED <<shape, pc, first, client>>

\* An element that is null: the array is freed, its blocks are not, and the
\* result is a success that stores the pointer to the freed array.
ParseNull ==
    /\ pc = "parse"
    /\ i < Len(updates)
    /\ shape[first + i] = "null"
    /\ pc' = "undefined"
    /\ UNCHANGED <<shape, parser, client, failures, lost>>

\* Mutant: the length is cut to the number of slots filled.
ResultTrimmed == SubSeq(updates, 1, j)

\* The array as it is handed to the main thread: its length is that of the answer.
Result == updates

\* json_object_put on the whole answer drops its references to the elements.
ParseEnds ==
    /\ pc = "parse"
    /\ i = Len(updates)
    /\ refs' = [u \in Updates |->
                   IF u \in first .. first + i - 1 THEN refs[u] - 1 ELSE refs[u]]
    /\ updates' = Result
    /\ i' = 0
    /\ pc' = "hand"
    /\ UNCHANGED <<shape, first, j, heap, client, failures, lost>>

----------------------------------------------------------------------------
(* The main thread: process_tg_api_updates.                                  *)

HandOver ==
    /\ pc = "hand"
    /\ i < Len(updates)
    /\ Len(tasks) < Backlog
    /\ LET up == updates[i + 1]
       IN  /\ max_update_id' = IF up.update_id > max_update_id THEN up.update_id ELSE max_update_id
           /\ tasks' = Append(tasks, up)
    /\ i' = i + 1
    /\ UNCHANGED <<shape, pc, first, updates, j, heap, refs, old, served, failures, lost>>

\* arm_update_sqe forgets the array.
Rearm ==
    /\ pc = "hand"
    /\ i = Len(updates)
    /\ old' = old \cup Slots(updates)
    /\ updates' = <<>>
    /\ i' = 0 /\ j' = 0
    /\ pc' = "poll"
    /\ UNCHANGED <<shape, first, max_update_id, tasks, heap, refs, served, failures, lost>>

----------------------------------------------------------------------------
(* The threads of the work queue: gw_module_handle, then the deleter.        *)

\* A slot that the parser has filled to the end.
Whole(up) ==
    up.update_id \in Updates \ lost /\ shape[up.update_id] \in Parsable

Handle ==
    \E n \in 1 .. Threads :
        /\ n \in DOMAIN tasks
        /\ tasks' = SubSeq(tasks, 1, n - 1) \o SubSeq(tasks, n + 1, Len(tasks))
        /\ served' = IF Whole(tasks[n]) /\ served[tasks[n].update_id] < 2
                     THEN [served EXCEPT ![tasks[n].update_id] = @ + 1]
                     ELSE served
        /\ UNCHANGED <<shape, pc, parser, max_update_id, old, failures, lost>>

\* gw_module_handle calls ping_handle for a message, which reads the text of a
\* text, and then the chat if the text is its command.
ReadsText(up) == up.type = "message" /\ up.mtype = "text"

MainStep == Answer \/ ParseElement \/ ParseNull \/ ParseEnds \/ HandOver \/ Rearm

Next == MainStep \/ CallFails \/ Handle

(* The call of GET_UPDATES ends, the main thread runs on, handlers are run.  *)
Spec == Init /\ [][Next]_vars /\ WF_vars(MainStep) /\ WF_vars(Handle)

----------------------------------------------------------------------------
(* Properties.                                                               *)

Pointers == {NULL} \cup (Updates \X {"from", "chat", "entities"})
SlotType ==
    [update_id : 0 .. MaxUpdates, type : {"unknown", "message"},
     mtype : {"none", "text", "other"}, from : Pointers, chat : Pointers,
     text : {NULL} \cup Updates, entities : Pointers]

\* The variables have their types.
TypeOK ==
    /\ shape \in [Updates -> Kinds]
    /\ pc \in {"poll", "parse", "hand", "undefined"}
    /\ first \in 1 .. MaxUpdates
    /\ i \in 0 .. BatchMax /\ j \in 0 .. Len(updates)
    /\ max_update_id \in 0 .. MaxUpdates
    /\ Slots(updates) \cup Slots(tasks) \cup old \subseteq SlotType
    /\ heap \subseteq Pointers
    /\ refs \in [Updates -> 0 .. 2]
    /\ failures \in 0 .. MaxFailures /\ lost \subseteq Updates
    /\ served \in [Updates -> 0 .. 2]

\* A handler never reads a string of a JSON object that is gone, nor a chat that
\* is not there, whatever the answer was: the array hands over the slots of the
\* elements that failed too.  The exception is an element whose entities could
\* not be allocated: its slot says text, with no chat and no JSON object.
HandlerReadsAlive ==
    \A up \in Slots(tasks) :
        ReadsText(up) /\ up.text \notin lost => refs[up.text] > 0 /\ up.chat \in heap

\* The blocks allocated are those some slot points to: a parse that fails half
\* way frees what it has allocated, and no slot points to what it freed, although
\* the next element fills the same slot again.
BlocksOwned ==
    pc # "undefined" =>
        heap = UNION {BlocksOf(up) : up \in Slots(updates) \cup old}

\* An update that parses is handed to exactly one handler once the offset has
\* passed it, and to none before, whatever its neighbours in the answer are; the
\* offset never passes one that was not handed over.
HandledOnce ==
    \A u \in Updates :
        shape[u] \in Parsable /\ u \notin lost =>
            Cardinality({n \in DOMAIN tasks : tasks[n].update_id = u}) + served[u] =
                (IF u <= max_update_id THEN 1 ELSE 0)

\* An update that never parses does not hold the others up: the offset passes
\* every update, and what parses is handled.  The array keeps the length of the
\* answer and an id is stored before the rest is looked at, so that even the last
\* element moves the offset.  (An element without an id would be sent for ever.)
Settled(u) ==
    u <= max_update_id /\ (shape[u] \in Parsable => u \in lost \/ served[u] > 0)
EveryUpdateSettled ==
    (\A u \in Updates : shape[u] \notin {"no_id", "null"}) =>
        \A u \in Updates : <>Settled(u)
=============================================================================

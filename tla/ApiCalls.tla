------------------------------ MODULE ApiCalls ------------------------------
(***************************************************************************)
(* The calls of the Telegram Bot API that the threads of the work queue    *)
(* make: the table of curl handles of lib/curl.c, which they share under a *)
(* mutex, and the body of an answer that tgapi_curl_write of lib/tgapi.c   *)
(* collects chunk by chunk.                                                *)
(*                                                                         *)
(* Nothing sets current_thread_curl_handle, so every call of               *)
(* gw_curl_thread_init makes a new handle.  libcurl is external: it hands  *)
(* the chunks over, and fails a transfer whose chunk was refused.          *)
(***************************************************************************)
EXTENDS Integers, Sequences

CONSTANTS
    Threads,        \* threads of the work queue
    MaxCalls,       \* bound: how many calls they make
    TableSize,      \* entries the table has at first (1024)
    EntrySize,      \* bytes of an entry
    BufferSize,     \* bytes the buffer of a body has at first (4096)
    ChunkMax,       \* bound: the longest chunk,
    BodyMax         \* and the longest body

ASSUME CallsAssumption ==
    {TableSize, EntrySize, BufferSize, ChunkMax, BodyMax, MaxCalls} \subseteq Nat \ {0}

VARIABLES
    phase,          \* of the program: "up", "cleaned" or "undefined"
    handles,        \* the nr_handles first entries of the table
    allocated,      \* the entries the code believes it to have,
    room,           \* and those the block has
    made,           \* how many handles curl_easy_init has returned: 1 .. made
    open,           \* those of them not cleaned up
    mine,           \* the handle that each thread has in its local variable
    kind,           \* what each thread calls: "getUpdates" or "sendMessage"
    at,             \* where it is in its call
    body,           \* its struct curl_data, and how much the server has sent
    calls           \* calls made, up to the bound

table == <<handles, allocated, room, made, open, mine>>
vars  == <<phase, table, kind, at, body, calls>>

\* data.allocated is set only when data.data is; 0 stands for a NULL data.data.
NoBody == [len |-> 0, allocated |-> 0, sent |-> 0]

Init ==
    /\ phase = "up"
    /\ handles = <<>>
    /\ allocated = TableSize
    /\ room = TableSize
    /\ made = 0
    /\ open = {}
    /\ mine = [t \in Threads |-> 0]
    /\ kind = [t \in Threads |-> "getUpdates"]
    /\ at = [t \in Threads |-> "out"]
    /\ body = [t \in Threads |-> NoBody]
    /\ calls = 0

Goto(t, place) == at' = [at EXCEPT ![t] = place]

\* sendMessage escapes its text with a handle of its own first.
Call(t, k) ==
    /\ phase = "up" /\ at[t] = "out"
    /\ calls < MaxCalls
    /\ calls' = calls + 1
    /\ kind' = [kind EXCEPT ![t] = k]
    /\ Goto(t, IF k = "getUpdates" THEN "init" ELSE "escape")
    /\ body' = [body EXCEPT ![t] = NoBody]
    /\ UNCHANGED <<phase, table>>

----------------------------------------------------------------------------
(* gw_curl_thread_init.                                                      *)

\* curl_easy_init, before the mutex of the table is taken.
EasyInit(t) ==
    /\ phase = "up"
    /\ \/ at[t] = "escape" /\ Goto(t, "escape_store")
       \/ at[t] = "init" /\ Goto(t, "init_store")
    /\ made' = made + 1
    /\ open' = open \cup {made'}
    /\ mine' = [mine EXCEPT ![t] = made']
    /\ UNCHANGED <<phase, handles, allocated, room, kind, body, calls>>

EasyInitFails(t) ==
    /\ phase = "up" /\ at[t] \in {"escape", "init"}
    /\ Goto(t, "out")
    /\ UNCHANGED <<phase, table, kind, body, calls>>

TableFull == Len(handles) >= allocated

\* gw_curl_realloc_handles counts entries and asks for as many bytes.  A handle
\* stored behind the end of the block has no defined effect.
Grow ==
    IF TableFull
    THEN allocated' = allocated * 2 /\ room' = (allocated * 2) \div EntrySize
    ELSE UNCHANGED <<allocated, room>>

\* The escape of a text may fail after its handle has been stored.
StoreHandle(t) ==
    /\ phase = "up"
    /\ \/ at[t] = "escape_store" /\ at' \in {[at EXCEPT ![t] = p] : p \in {"init", "out"}}
       \/ at[t] = "init_store" /\ Goto(t, "transfer")
    /\ Grow
    /\ handles' = Append(handles, mine[t])
    /\ phase' = IF Len(handles) < room' THEN phase ELSE "undefined"
    /\ UNCHANGED <<made, open, mine, kind, body, calls>>

\* Mutant: the handle that finds no place is forgotten.
AfterGrowFailsOut == "out"

AfterGrowFails == "close"

\* realloc fails: the mutex is given up first, then the handle is cleaned up.
GrowFails(t) ==
    /\ phase = "up" /\ at[t] \in {"escape_store", "init_store"}
    /\ TableFull
    /\ Goto(t, AfterGrowFails)
    /\ UNCHANGED <<phase, table, kind, body, calls>>

CloseHandle(t) ==
    /\ phase = "up" /\ at[t] = "close"
    /\ open' = open \ {mine[t]}
    /\ Goto(t, "out")
    /\ UNCHANGED <<phase, handles, allocated, room, made, mine, kind, body, calls>>

----------------------------------------------------------------------------
(* curl_http_get, and tgapi_curl_write for each chunk.                       *)

\* Mutant: no place for the byte that ends the string.
NeededUnterminated(b, n) == b.len + n

Needed(b, n) == b.len + n + 1

\* The size of the buffer once n more bytes are to go into it.
Grown(b, n) ==
    LET size == IF b.allocated = 0 THEN BufferSize ELSE b.allocated
    IN  IF size < Needed(b, n) THEN size * 2 + Needed(b, n) ELSE size

Transferring(t) == phase = "up" /\ at[t] = "transfer"

Write(t, n) ==
    /\ Transferring(t)
    /\ body[t].sent + n <= BodyMax
    /\ body' = [body EXCEPT ![t] =
                   [len |-> @.len + n, allocated |-> Grown(@, n), sent |-> @.sent + n]]
    /\ UNCHANGED <<phase, table, kind, at, calls>>

\* Mutant: the chunk is dropped and the callback says it was taken.
AfterRefusalGoesOn == "transfer"

\* The callback returns 0, which ends the transfer.
AfterRefusal == "failing"

\* malloc or realloc fails: the buffer, if there is one, is freed.
WriteFails(t, n) ==
    /\ Transferring(t)
    /\ body[t].sent + n <= BodyMax
    /\ Grown(body[t], n) # body[t].allocated
    /\ body' = [body EXCEPT ![t] = [len |-> @.len, allocated |-> 0, sent |-> @.sent + n]]
    /\ Goto(t, AfterRefusal)
    /\ UNCHANGED <<phase, table, kind, calls>>

\* The body goes to tgapi_parse_updates_len; sendMessage frees it unread.  A body
\* that never had a chunk is a NULL pointer, which json-c would read.
TransferEnds(t) ==
    /\ Transferring(t)
    /\ \/ kind[t] = "sendMessage" /\ Goto(t, "out") /\ UNCHANGED phase
       \/ /\ kind[t] = "getUpdates"
          /\ Goto(t, "parse")
          /\ phase' = IF body[t].allocated = 0 THEN "undefined" ELSE phase
    /\ UNCHANGED <<table, kind, body, calls>>

\* curl_easy_perform fails; the buffer, if there is one, is lost.
TransferFails(t) ==
    /\ phase = "up" /\ at[t] \in {"transfer", "failing"}
    /\ Goto(t, "out")
    /\ UNCHANGED <<phase, table, kind, body, calls>>

CallReturns(t) ==
    /\ phase = "up" /\ at[t] = "parse"
    /\ Goto(t, "out")
    /\ UNCHANGED <<phase, table, kind, body, calls>>

Stored == {handles[k] : k \in DOMAIN handles}

\* gw_curl_global_cleanup, after the threads of the ring have been joined.
GlobalCleanup ==
    /\ phase = "up"
    /\ \A t \in Threads : at[t] = "out"
    /\ open' = open \ Stored
    /\ phase' = "cleaned"
    /\ UNCHANGED <<handles, allocated, room, made, mine, kind, at, body, calls>>

Next ==
    \/ \E t \in Threads :
          \/ \E k \in {"getUpdates", "sendMessage"} : Call(t, k)
          \/ EasyInit(t) \/ EasyInitFails(t)
          \/ StoreHandle(t) \/ GrowFails(t) \/ CloseHandle(t)
          \/ \E n \in 1 .. ChunkMax : Write(t, n) \/ WriteFails(t, n)
          \/ TransferEnds(t) \/ TransferFails(t) \/ CallReturns(t)
    \/ GlobalCleanup

Spec == Init /\ [][Next]_vars

----------------------------------------------------------------------------
(* Properties.                                                               *)

\* The chunks a body has taken and the byte that ends it lie inside the buffer,
\* whatever their sizes are.
BodyFits ==
    \A t \in Threads : body[t].allocated > 0 => body[t].len < body[t].allocated

\* A body that is parsed is all the server sent: a chunk that found no memory
\* fails the call, so that no answer is cut short.
ParsedWhole ==
    \A t \in Threads : at[t] = "parse" => body[t].len = body[t].sent

\* The threads that have made a handle and not stored it, nor given it up.
Holders == {t \in Threads : at[t] \in {"escape_store", "init_store", "close"}}

\* Those in curl_easy_perform.
Users == {t \in Threads : at[t] \in {"transfer", "failing"}}

\* Every handle that is open is the entry of one place of the table, or in the hands
\* of one thread that is about to store it or to close it, whichever calls fail on
\* the way; no two threads perform with the same handle, nor with one that is closed;
\* and the clean-up closes them all.
HandlesOwned ==
    /\ phase = "up" =>
          /\ open = Stored \cup {mine[t] : t \in Holders}
          /\ \A i, j \in DOMAIN handles : handles[i] = handles[j] => i = j
          /\ \A t \in Holders : mine[t] \notin Stored
          /\ \A t \in Users : mine[t] \in Stored
          /\ \A t, u \in Holders \cup Users : mine[t] = mine[u] => t = u
    /\ phase = "cleaned" => open = {}
=============================================================================

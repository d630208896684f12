--------------------------- MODULE ApiCallsProofs ---------------------------
(***************************************************************************)
(* Proofs that the body of an answer stays inside its buffer, that no      *)
(* answer is parsed cut short, and that every curl handle that is open has *)
(* one owner: for any number of threads and calls, any chunks and sizes.   *)
(***************************************************************************)
EXTENDS ApiCalls, TLAPS

Bodies == [len : Nat, allocated : Nat, sent : Nat]
Places == {"out", "escape", "escape_store", "init", "init_store", "close", "transfer",
           "failing", "parse"}

Typed ==
    /\ body \in [Threads -> Bodies]
    /\ at \in [Threads -> Places]
    /\ mine \in [Threads -> Nat]
    /\ handles \in Seq(Nat) /\ made \in Nat

\* Until a chunk fails, what a body has taken is what the server has sent.
WholeSoFar ==
    \A t \in Threads :
        at[t] \in {"escape", "escape_store", "init", "init_store", "transfer", "parse"}
            => body[t].len = body[t].sent

\* The next handle has a name of its own.
NamedInTurn == phase = "up" => open \subseteq 1 .. made

Inv == Typed /\ BodyFits /\ WholeSoFar /\ NamedInTurn /\ HandlesOwned

----------------------------------------------------------------------------
\* A buffer that has grown for n more bytes has room for them and for the end.
LEMMA GrownIsEnough ==
    ASSUME NEW b \in Bodies, NEW n \in Nat
    PROVE  /\ Grown(b, n) \in Nat
           /\ b.len + n < Grown(b, n)
<1>1. BufferSize \in Nat
  BY CallsAssumption
<1> QED BY <1>1 DEF Bodies, Grown, Needed

LEMMA InitInv == Init => Inv
<1> SUFFICES ASSUME Init PROVE Inv
  OBVIOUS
<1>1. Typed /\ BodyFits /\ WholeSoFar
  BY DEF Init, Typed, Bodies, Places, NoBody, BodyFits, WholeSoFar
<1>2. Holders = {} /\ Users = {} /\ Stored = {} /\ open = {} /\ phase = "up"
  BY DEF Init, Holders, Users, Stored
<1>3. DOMAIN handles = {}
  BY DEF Init
<1>4. HandlesOwned
  BY <1>2, <1>3 DEF HandlesOwned
<1> QED BY <1>1, <1>2, <1>4 DEF Inv, NamedInTurn

\* The entries of a table with one more.
LEMMA OneMore ==
    ASSUME NEW s \in Seq(Nat), NEW h \in Nat, NEW q, q = Append(s, h)
    PROVE  /\ q \in Seq(Nat)
           /\ DOMAIN q = DOMAIN s \cup {Len(s) + 1} /\ Len(s) + 1 \notin DOMAIN s
           /\ q[Len(s) + 1] = h
           /\ \A i \in DOMAIN s : q[i] = s[i]
<1>1. DOMAIN s = 1 .. Len(s) /\ DOMAIN q = 1 .. Len(s) + 1 /\ Len(s) \in Nat
  OBVIOUS
<1> QED BY <1>1

\* What the handles do when no thread gets, stores or closes one.
LEMMA HandlesRest ==
    ASSUME Inv, phase = "up", UNCHANGED table, Holders' = Holders, Users' \subseteq Users,
           phase' \in {"up", "undefined"}
    PROVE  NamedInTurn' /\ HandlesOwned'
<1>1. NamedInTurn'
  BY DEF Inv, NamedInTurn, table
<1>2. Stored' = Stored
  BY DEF Stored, table
<1>3. phase' # "cleaned"
  OBVIOUS
<1>4. HandlesOwned'
  BY <1>2, <1>3 DEF Inv, HandlesOwned, table
<1> QED BY <1>1, <1>4

LEMMA EasyInitHandles ==
    ASSUME NEW t \in Threads, Inv, EasyInit(t)
    PROVE  NamedInTurn' /\ HandlesOwned'
<1>1. /\ phase = "up" /\ phase' = "up" /\ handles' = handles /\ made' = made + 1
      /\ open' = open \cup {made + 1} /\ mine' = [mine EXCEPT ![t] = made + 1]
      /\ at[t] \in {"escape", "init"} /\ made \in Nat /\ open \subseteq 1 .. made
  BY DEF EasyInit, Inv, Typed, NamedInTurn
<1>2. Holders' = Holders \cup {t} /\ Users' = Users /\ t \notin Holders \cup Users
  BY <1>1 DEF EasyInit, Goto, Holders, Users, Inv, Typed
<1>3. Stored' = Stored
  BY <1>1 DEF Stored
<1>4. made + 1 \notin open
  BY <1>1
<1>5. Stored \subseteq open /\ \A u \in Holders \cup Users : mine[u] \in open
  BY <1>1 DEF Inv, HandlesOwned
<1>6. mine'[t] = made + 1 /\ \A u \in Threads : u # t => mine'[u] = mine[u]
  BY <1>1 DEF Inv, Typed
<1>7. \A u \in Holders \cup Users : u # t /\ u \in Threads
  BY <1>2 DEF Holders, Users
<1>8. open' = Stored' \cup {mine'[u] : u \in Holders'}
  BY <1>1, <1>2, <1>3, <1>6, <1>7 DEF Inv, HandlesOwned
<1>9. /\ \A u \in Holders' : mine'[u] \notin Stored'
      /\ \A u \in Users' : mine'[u] \in Stored'
  BY <1>1, <1>2, <1>3, <1>4, <1>5, <1>6, <1>7 DEF Inv, HandlesOwned
<1>10. \A u, v \in Holders' \cup Users' : mine'[u] = mine'[v] => u = v
  BY <1>1, <1>2, <1>4, <1>5, <1>6, <1>7 DEF Inv, HandlesOwned
<1>11. HandlesOwned'
  BY <1>1, <1>8, <1>9, <1>10 DEF Inv, HandlesOwned
<1>12. NamedInTurn'
  BY <1>1 DEF NamedInTurn
<1> QED BY <1>11, <1>12

LEMMA StoreHandles ==
    ASSUME NEW t \in Threads, Inv, StoreHandle(t)
    PROVE  NamedInTurn' /\ HandlesOwned'
<1>1. /\ phase = "up" /\ handles' = Append(handles, mine[t])
      /\ UNCHANGED <<open, mine, made>>
      /\ at[t] \in {"escape_store", "init_store"} /\ t \in Holders
      /\ handles \in Seq(Nat) /\ mine[t] \in Nat /\ phase' \in {"up", "undefined"}
  BY DEF StoreHandle, Inv, Typed, Holders
<1>2. /\ Holders' = Holders \ {t} /\ Users \subseteq Users' /\ Users' \subseteq Users \cup {t}
  BY <1>1 DEF StoreHandle, Goto, Holders, Users, Inv, Typed
<1>3. /\ DOMAIN handles' = DOMAIN handles \cup {Len(handles) + 1}
      /\ Len(handles) + 1 \notin DOMAIN handles
      /\ handles'[Len(handles) + 1] = mine[t]
      /\ \A i \in DOMAIN handles : handles'[i] = handles[i]
  BY <1>1, OneMore
<1>4. Stored' = Stored \cup {mine[t]}
  BY <1>3 DEF Stored
<1>5. mine[t] \notin Stored
  BY <1>1 DEF Inv, HandlesOwned
<1>6. \A i, j \in DOMAIN handles' : handles'[i] = handles'[j] => i = j
  <2>1. \A i \in DOMAIN handles : handles[i] # mine[t]
    BY <1>5 DEF Stored
  <2>2. \A i, j \in DOMAIN handles : handles[i] = handles[j] => i = j
    BY <1>1 DEF Inv, HandlesOwned
  <2> QED BY <1>3, <2>1, <2>2
<1>7. open' = Stored' \cup {mine'[u] : u \in Holders'}
  BY <1>1, <1>2, <1>4 DEF Inv, HandlesOwned
<1>8. \A u \in Holders' : mine'[u] \notin Stored'
  BY <1>1, <1>2, <1>4 DEF Inv, HandlesOwned
<1>9. \A u \in Users' : mine'[u] \in Stored'
  BY <1>1, <1>2, <1>4 DEF Inv, HandlesOwned
<1>10. \A u, v \in Holders' \cup Users' : mine'[u] = mine'[v] => u = v
  BY <1>1, <1>2 DEF Inv, HandlesOwned
<1>11. phase' # "cleaned"
  BY <1>1
<1>12. HandlesOwned'
  BY <1>6, <1>7, <1>8, <1>9, <1>10, <1>11 DEF HandlesOwned
<1>13. NamedInTurn'
  BY <1>1 DEF Inv, NamedInTurn
<1> QED BY <1>12, <1>13

LEMMA CloseHandles ==
    ASSUME NEW t \in Threads, Inv, CloseHandle(t)
    PROVE  NamedInTurn' /\ HandlesOwned'
<1>1. /\ phase = "up" /\ phase' = "up" /\ UNCHANGED <<handles, mine, made>>
      /\ open' = open \ {mine[t]} /\ t \in Holders
  BY DEF CloseHandle, Holders
<1>2. Holders' = Holders \ {t} /\ Users' = Users
  BY <1>1 DEF CloseHandle, Goto, Holders, Users, Inv, Typed
<1>3. Stored' = Stored
  BY <1>1 DEF Stored
<1>4. open' = Stored' \cup {mine'[u] : u \in Holders'}
  BY <1>1, <1>2, <1>3 DEF Inv, HandlesOwned
<1>5. HandlesOwned'
  BY <1>1, <1>2, <1>3, <1>4 DEF Inv, HandlesOwned
<1>6. NamedInTurn'
  BY <1>1 DEF Inv, NamedInTurn
<1> QED BY <1>5, <1>6

\* gw_curl_thread_init changes the table and the place of the caller.
LEMMA HandleInv ==
    ASSUME NEW t \in Threads, Inv,
           \/ EasyInit(t) \/ EasyInitFails(t)
           \/ StoreHandle(t) \/ GrowFails(t) \/ CloseHandle(t)
    PROVE  Inv'
<1>1. PICK p \in {"out", "escape_store", "init", "init_store", "close", "transfer"} :
         /\ at' = [at EXCEPT ![t] = p]
         /\ p \in {"escape_store", "init", "init_store", "transfer"}
                => at[t] \in {"escape", "escape_store", "init", "init_store"}
         /\ UNCHANGED body
  BY DEF EasyInit, EasyInitFails, StoreHandle, GrowFails, CloseHandle, AfterGrowFails, Goto
<1>2. mine' \in [Threads -> Nat] /\ handles' \in Seq(Nat) /\ made' \in Nat
  <2>1. mine \in [Threads -> Nat] /\ handles \in Seq(Nat) /\ made \in Nat /\ mine[t] \in Nat
    BY DEF Inv, Typed
  <2>2. ASSUME StoreHandle(t)
        PROVE  handles' \in Seq(Nat) /\ UNCHANGED <<mine, made>>
    BY <2>1, <2>2, OneMore DEF StoreHandle
  <2>3. ASSUME EasyInit(t)
        PROVE  /\ made' \in Nat /\ UNCHANGED handles
               /\ mine' = [mine EXCEPT ![t] = made']
    BY <2>1, <2>3 DEF EasyInit
  <2>4. ASSUME EasyInitFails(t) \/ GrowFails(t) \/ CloseHandle(t)
        PROVE  UNCHANGED <<handles, mine, made>>
    BY <2>4 DEF EasyInitFails, GrowFails, CloseHandle, table
  <2> QED BY <2>1, <2>2, <2>3, <2>4
<1>3. Typed'
  BY <1>1, <1>2 DEF Inv, Typed, Places
<1>4. BodyFits' /\ WholeSoFar'
  BY <1>1 DEF Inv, BodyFits, WholeSoFar, Typed
<1>5. NamedInTurn' /\ HandlesOwned'
  <2>1. ASSUME EasyInitFails(t) \/ GrowFails(t)
        PROVE  /\ phase = "up" /\ phase' = "up" /\ UNCHANGED table
               /\ Holders' = Holders /\ Users' \subseteq Users
    BY <2>1 DEF EasyInitFails, GrowFails, AfterGrowFails, Goto, Holders, Users, Inv, Typed
  <2> QED BY <2>1, HandlesRest, EasyInitHandles, StoreHandles, CloseHandles
<1> QED BY <1>3, <1>4, <1>5 DEF Inv

\* A chunk changes the body of its thread, and no other.
LEMMA WriteInv ==
    ASSUME NEW t \in Threads, NEW n \in 1 .. ChunkMax, Inv, Write(t, n) \/ WriteFails(t, n)
    PROVE  Inv'
<1>1. n \in Nat
  BY CallsAssumption
<1>2. /\ UNCHANGED <<phase, table>> /\ phase = "up" /\ phase' = "up"
      /\ UNCHANGED <<handles, made, mine>>
  BY DEF Write, WriteFails, Transferring, table
<1>3. body[t] \in Bodies
  BY DEF Inv, Typed
<1>4. CASE Write(t, n)
  <2> DEFINE b == [len |-> body[t].len + n, allocated |-> Grown(body[t], n),
                   sent |-> body[t].sent + n]
  <2>1. body' = [body EXCEPT ![t] = b] /\ at' = at /\ at[t] = "transfer"
    BY <1>4 DEF Write, Transferring
  <2>2. /\ Grown(body[t], n) \in Nat
        /\ body[t].len + n < Grown(body[t], n)
    BY <1>1, <1>3, GrownIsEnough
  <2>3. b \in Bodies /\ b.len < b.allocated /\ (body[t].len = body[t].sent => b.len = b.sent)
    BY <1>1, <1>3, <2>2 DEF Bodies
  <2> HIDE DEF b
  <2>4. Typed' /\ BodyFits' /\ WholeSoFar'
    BY <1>2, <2>1, <2>3 DEF Inv, Typed, BodyFits, WholeSoFar
  <2>5. Holders' = Holders /\ Users' = Users
    BY <2>1 DEF Holders, Users
  <2> QED BY <1>2, <2>4, <2>5, HandlesRest DEF Inv
<1>5. CASE WriteFails(t, n)
  <2> DEFINE b == [len |-> body[t].len, allocated |-> 0, sent |-> body[t].sent + n]
  <2>1. at' = [at EXCEPT ![t] = "failing"] /\ at[t] = "transfer"
    BY <1>5 DEF WriteFails, AfterRefusal, Goto, Transferring
  <2>2. body' = [body EXCEPT ![t] = b]
    BY <1>5 DEF WriteFails
  <2>3. b \in Bodies /\ b.allocated = 0
    BY <1>1, <1>3 DEF Bodies
  <2> HIDE DEF b
  <2>4. Typed' /\ BodyFits' /\ WholeSoFar'
    BY <1>2, <2>1, <2>2, <2>3 DEF Inv, Typed, Places, BodyFits, WholeSoFar
  <2>5. Holders' = Holders /\ Users' = Users
    BY <2>1 DEF Holders, Users, Inv, Typed
  <2> QED BY <1>2, <2>4, <2>5, HandlesRest DEF Inv
<1> QED BY <1>4, <1>5

LEMMA NextInv == Inv /\ [Next]_vars => Inv'
<1> SUFFICES ASSUME Inv, [Next]_vars PROVE Inv'
  OBVIOUS
<1>1. ASSUME NEW t \in Threads, NEW k, Call(t, k) PROVE Inv'
  <2>1. /\ phase = "up" /\ phase' = "up" /\ UNCHANGED table
        /\ Holders' = Holders /\ Users' = Users
    BY <1>1 DEF Call, Goto, Holders, Users, Inv, Typed
  <2>2. Typed' /\ BodyFits' /\ WholeSoFar'
    BY <1>1 DEF Call, Goto, Inv, Typed, Places, Bodies, NoBody, BodyFits, WholeSoFar, table
  <2> QED BY <2>1, <2>2, HandlesRest DEF Inv
<1>2. ASSUME NEW t \in Threads,
             \/ EasyInit(t) \/ EasyInitFails(t)
             \/ StoreHandle(t) \/ GrowFails(t) \/ CloseHandle(t)
      PROVE  Inv'
  BY <1>2, HandleInv
<1>3. ASSUME NEW t \in Threads, NEW n \in 1 .. ChunkMax, Write(t, n) \/ WriteFails(t, n)
      PROVE  Inv'
  BY <1>3, WriteInv
<1>4. ASSUME NEW t \in Threads, TransferEnds(t) \/ TransferFails(t) \/ CallReturns(t)
      PROVE  Inv'
  <2>1. /\ \/ at' = [at EXCEPT ![t] = "out"]
           \/ at' = [at EXCEPT ![t] = "parse"] /\ at[t] = "transfer"
        /\ UNCHANGED <<table, body>>
        /\ phase = "up" /\ phase' \in {"up", "undefined"}
        /\ at[t] \in {"transfer", "failing", "parse"}
    BY <1>4 DEF TransferEnds, TransferFails, CallReturns, Transferring, Goto
  <2>2. Typed' /\ BodyFits' /\ WholeSoFar'
    BY <2>1 DEF Inv, Typed, Places, BodyFits, WholeSoFar, table
  <2>3. Holders' = Holders /\ Users' \subseteq Users
    BY <2>1 DEF Holders, Users, Inv, Typed
  <2> QED BY <2>1, <2>2, <2>3, HandlesRest DEF Inv
<1>5. CASE GlobalCleanup
  <2>1. Typed' /\ BodyFits' /\ WholeSoFar' /\ NamedInTurn'
    BY <1>5 DEF GlobalCleanup, Inv, Typed, BodyFits, WholeSoFar, NamedInTurn
  <2>2. Holders = {} /\ phase = "up"
    BY <1>5 DEF GlobalCleanup, Holders
  <2>3. open' = {} /\ phase' = "cleaned"
    BY <1>5, <2>2 DEF GlobalCleanup, Inv, HandlesOwned
  <2> QED BY <2>1, <2>3 DEF Inv, HandlesOwned
<1>6. CASE UNCHANGED vars
  BY <1>6 DEF vars, table, Inv, Typed, BodyFits, WholeSoFar, NamedInTurn, HandlesOwned,
              Holders, Users, Stored
<1> QED BY <1>1, <1>2, <1>3, <1>4, <1>5, <1>6 DEF Next

LEMMA Invariance == Spec => []Inv
  BY InitInv, NextInv, PTL DEF Spec

----------------------------------------------------------------------------
\* tgapi_curl_write: the bytes of an answer and the one that ends them never
\* leave the buffer, whatever the sizes of the buffer and of the chunks are.
THEOREM BodyAlwaysFits == Spec => []BodyFits
  BY Invariance, PTL DEF Inv

\* tgapi_call_get_updates: an answer is parsed only if every chunk of it has been
\* taken, whichever allocations fail.
THEOREM NeverParsedCut == Spec => []ParsedWhole
<1>1. Inv => ParsedWhole
  BY DEF Inv, WholeSoFar, ParsedWhole
<1> QED BY <1>1, Invariance, PTL

\* gw_curl_thread_init: whichever of its calls fail, in whichever threads, a handle
\* that is open has one owner, the table or a thread on the way to it or to
\* curl_easy_cleanup; no two threads perform with one handle; and
\* gw_curl_global_cleanup leaves none open.
THEOREM HandlesAlwaysOwned == Spec => []HandlesOwned
  BY Invariance, PTL DEF Inv
=============================================================================

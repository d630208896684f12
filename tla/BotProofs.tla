----------------------------- MODULE BotProofs -----------------------------
(***************************************************************************)
(* Proofs about the main loop, for every number of updates, every size of  *)
(* a batch, and every size of the rings and of the work queue: there is    *)
(* one poll at a time, an update that was handed over is not handed over   *)
(* again, and none is lost; and, for sizes like those of the bot, no       *)
(* completion is dropped and the polling goes on.  The loop is followed    *)
(* through the request ring with the moves of module GwRingProofs.         *)
(***************************************************************************)
EXTENDS Bot, GwRingProofs

\* The requests that are not executed yet, polls and updates.
Underway == Sent \cup Punted \cup running
Open     == Calls \cap Underway
Handed   == Handles \cap Underway

\* The completions of polls the reaping loop has not visited.
Unread == {k \in seen + 1 .. Len(Ready) : Ready[k] \in Calls}

\* The main thread is between the completion of a poll and the next one.
HandsOver == pc \in {"arm", "process"}

\* A poll is under way, or completed and not visited, or being handed over.
OnePoll ==
    /\ \A p, q \in Open : p = q
    /\ \A k, l \in Unread : k = l
    /\ Open # {} => Unread = {}
    /\ HandsOver => Open = {} /\ Unread = {}

\* The updates of s are those behind the last one handed over, in order.
Follows(s) ==
    /\ s \in Seq(Handles)
    /\ max_update_id + Len(s) <= published
    /\ \A k \in 1 .. Len(s) : s[k] = max_update_id + k

InOrder ==
    /\ published \in 0 .. MaxUpdates /\ max_update_id \in 0 .. published
    /\ confirmed \in 0 .. max_update_id
    /\ Follows(todo) /\ (pc # "process" => todo = <<>>)
    /\ ~HandsOver => offset = max_update_id + 1 /\ Follows(updates)
    /\ executed \cup Handed \subseteq 1 .. max_update_id
    /\ executed \cap Handed = {}

MainTyped ==
    /\ pc \in {"arm", "submit", "wait", "reap", "process"}
    /\ updates \in Seq(Handles) /\ failed \in BOOLEAN
    /\ offset \in 0 .. MaxUpdates + 1 /\ idle_polls \in 0 .. MaxIdlePolls

Base == Typed /\ Placed /\ Crew /\ destroyer = "out"

Inv == Base /\ MainTyped /\ OnePoll /\ InOrder

\* When no punt fails, nothing that was handed over is forgotten.
NoneForgotten == 1 .. max_update_id \subseteq executed \cup Handed

----------------------------------------------------------------------------
(* The requests.                                                             *)

LEMMA BotFacts ==
    /\ MaxUpdates \in Nat /\ Handles = 1 .. MaxUpdates /\ BatchMax \in Nat \ {0}
    /\ MaxIdlePolls \in Nat /\ PoolThreads \in Nat \ {0}
    /\ Nops = {} /\ Unknown = {} /\ Reqs = Calls \cup Handles
    /\ Calls \cap Handles = {}
  BY BotAssumption, OpcodeAssumption, RingAssumption DEF Reqs

\* What a step of the ring does to the requests that are not executed.
LEMMA GetUnderway ==
    ASSUME Base, NEW r \in Reqs, Gets(r)
    PROVE  Underway' = Underway \cup {r} /\ r \notin Underway
<1>1. Sent' = Sent \cup {r}
  BY GetAdds DEF Base
<1>2. Punted' = Punted /\ running' = running
  BY DEF Gets, Punted
<1> QED BY <1>1, <1>2 DEF Underway, Gets, Occupied

LEMMA ExecUnderway ==
    ASSUME Base, NEW r \in Reqs, Executes(r)
    PROVE  Underway' = Underway \ {r} /\ r \in Underway
<1>1. Sent' = Sent /\ Punted' = Punted
  BY SentKept DEF Executes, Punted
<1>2. r \in running /\ running' = running \ {r} /\ r \notin Sent /\ r \notin Punted
  BY DEF Executes, Base, Placed
<1> QED BY <1>1, <1>2 DEF Underway

Passes == Stays \/ Answers \/ Forgets \/ Punts \/ Takes \/ \E r \in Reqs : Deletes(r)

LEMMA PassUnderway ==
    ASSUME Base, Passes
    PROVE  Underway' \subseteq Underway /\ (~PuntMayFail => Underway' = Underway)
<1>1. CASE Stays \/ \E r \in Reqs : Deletes(r)
  <2>1. Unsent' = Unsent /\ backlog' = backlog /\ running' = running
    BY <1>1 DEF Stays, Deletes
  <2> QED BY <2>1, SentKept DEF Underway, Punted
<1>2. CASE Answers
  BY <1>2, BotFacts DEF Answers
<1>3. CASE Forgets
  <2>1. PuntMayFail
    BY <1>3, BotFacts DEF Forgets
  <2>2. Sent' = Sent \ {Head(Unsent)}
    BY <1>3, SentLeaves DEF Base, Forgets
  <2>3. Punted' = Punted /\ running' = running
    BY <1>3 DEF Forgets, Punted
  <2> QED BY <2>1, <2>2, <2>3 DEF Underway
<1>4. CASE Punts
  <2>1. Head(Unsent) \in Sent /\ Sent' = Sent \ {Head(Unsent)}
    BY <1>4, SentLeaves DEF Base, Punts
  <2>2. Punted' = Punted \cup {Head(Unsent)} /\ running' = running
    BY <1>4, PuntAdds DEF Base, Punts
  <2> QED BY <2>1, <2>2 DEF Underway
<1>5. CASE Takes
  <2>1. Head(backlog) \in Punted /\ Punted' = Punted \ {Head(backlog)}
    BY <1>5, TakeRemoves DEF Base
  <2>2. Sent' = Sent /\ running' = running \cup {Head(backlog)}
    BY <1>5, SentKept DEF Takes
  <2> QED BY <2>1, <2>2 DEF Underway
<1> QED BY <1>1, <1>2, <1>3, <1>4, <1>5 DEF Passes

\* The threads of the work queue.
LEMMA CrewFits ==
    ASSUME Base
    PROVE  /\ IsFiniteSet(running \cup posted)
           /\ Cardinality(running \cup posted) \in 0 .. PoolThreads
<1>1. /\ IsFiniteSet(running \cup posted) /\ served \in Nat /\ PoolThreads \in Nat
      /\ Cardinality(running \cup posted) + served <= PoolThreads
  BY BotFacts DEF Base, Crew, nr_running_workers, Typed, TypeOK
<1>2. Cardinality(running \cup posted) \in Nat
  BY <1>1, FS_CardinalityType
<1> QED BY <1>1, <1>2

\* While no poll is under way there is a name for the next one: those of earlier
\* polls are kept by at most PoolThreads threads.
LEMMA FreshIsFree ==
    ASSUME Base, Open = {}
    PROVE  FreshPoll \in Calls
<1> DEFINE b == running \cup posted
<1>1. InUse = Sent \cup Punted \cup b
  BY UnsentIs, ElemsIs DEF InUse, Sent, Punted, Base, Typed
<1>2. \E p \in Calls : p \notin InUse
  <2> SUFFICES ASSUME Calls \subseteq InUse PROVE FALSE
    OBVIOUS
  <2>1. Calls \subseteq b
    BY <1>1 DEF Open, Underway
  <2>2. IsFiniteSet(b) /\ Cardinality(b) <= PoolThreads /\ Cardinality(b) \in Nat
    BY CrewFits, BotFacts
  <2> HIDE DEF b
  <2>3. Cardinality(Calls) <= Cardinality(b) /\ IsFiniteSet(Calls)
    BY <2>1, <2>2, FS_Subset
  <2>4. Cardinality(Calls) \in Nat /\ Cardinality(Calls) > PoolThreads
    BY <2>3, FS_CardinalityType, BotAssumption
  <2> QED BY <2>2, <2>3, <2>4, BotFacts
<1> QED BY <1>2 DEF FreshPoll

----------------------------------------------------------------------------
(* The completions.                                                          *)

LEMMA ReadyFacts ==
    ASSUME Typed
    PROVE  /\ Len(Ready) \in Nat /\ seen \in 0 .. Len(Ready)
           /\ Ready \in Seq(Reqs \cup {NoReq})
<1>1. Len(Ready) \in 0 .. IdxMod - 1
  <2>1. Len(Ready) = Gap(IdxMod, cq_tail, cq_head)
    BY ReadyIs DEF Typed
  <2>2. /\ IdxMod \in Nat \ {0}
        /\ cq_head \in 0 .. IdxMod - 1 /\ cq_tail \in 0 .. IdxMod - 1
    BY SizeFacts, IndexTyped DEF Typed
  <2>3. Gap(IdxMod, cq_tail, cq_head) \in 0 .. IdxMod - 1
    BY <2>2, GapIs
  <2> QED BY <2>1, <2>3
<1>2. Ready \in Seq(Reqs \cup {NoReq})
  BY ReadyIs DEF Typed
<1>3. seen \in Nat /\ seen <= Len(Ready)
  BY ReadyIs, IndexTyped, SizeFacts DEF Typed, Bounded
<1> QED BY <1>1, <1>2, <1>3, SizeFacts

\* An execution posts at most one completion, behind the others.
LEMMA ExecUnread ==
    ASSUME Typed, NEW r \in Reqs, Exec(r)
    PROVE  /\ Unread' \subseteq Unread \cup {Len(Ready) + 1}
           /\ r \notin Calls => Unread' = Unread
<1>1. seen' = seen
  BY DEF Exec, unchangedByPool
<1>2. Len(Ready) \in Nat /\ seen \in 0 .. Len(Ready) /\ Ready \in Seq(Reqs \cup {NoReq})
  BY ReadyFacts
<1>3. Ready' = Ready \/ Ready' = Append(Ready, r)
  <2>1. PICK k : k = WakeClient
    OBVIOUS
  <2>2. PostCqe(r, k)
    BY <2>1 DEF Exec, PostCqe
  <2> QED BY <2>2, PostAppends
<1>4. CASE Ready' = Ready
  BY <1>1, <1>4 DEF Unread
<1>5. CASE Ready' = Append(Ready, r)
  <2>1. PICK a : a = Append(Ready, r)
    OBVIOUS
  <2>2. /\ Len(a) = Len(Ready) + 1 /\ a[Len(Ready) + 1] = r
        /\ \A k \in 1 .. Len(Ready) : a[k] = Ready[k]
    <3> DEFINE S == Reqs \cup {NoReq}
               s == Ready
    <3>1. s \in Seq(S) /\ r \in S
      BY <1>2
    <3>2. a = Append(s, r)
      BY <2>1
    <3> HIDE DEF S, s
    <3>3. Len(a) = Len(s) + 1 /\ a[Len(s) + 1] = r /\ \A k \in 1 .. Len(s) : a[k] = s[k]
      BY <3>1, <3>2, AppendProperties
    <3> QED BY <3>3 DEF s
  <2>3. Unread' = {k \in seen + 1 .. Len(a) : a[k] \in Calls}
    BY <1>1, <1>5, <2>1 DEF Unread
  <2>4. ASSUME NEW k \in seen + 1 .. Len(a)
        PROVE  \/ k \in seen + 1 .. Len(Ready) /\ a[k] = Ready[k]
               \/ k = Len(Ready) + 1 /\ a[k] = r
    BY <1>2, <2>2
  <2>5. Unread' \subseteq Unread \cup {Len(Ready) + 1}
    BY <2>3, <2>4 DEF Unread
  <2>6. ASSUME NEW k \in seen + 1 .. Len(Ready) PROVE k \in seen + 1 .. Len(a) /\ a[k] = Ready[k]
    BY <1>2, <2>2
  <2>7. r \notin Calls => Unread' = Unread
    BY <2>3, <2>4, <2>6 DEF Unread
  <2> QED BY <2>5, <2>7
<1> QED BY <1>3, <1>4, <1>5

\* Visiting a completion, and giving back those that were visited.
LEMMA ReapUnread ==
    ASSUME Typed, LoadHeadCqe
    PROVE  /\ seen + 1 \in 1 .. Len(Ready)
           /\ Ready[seen + 1] = cqes[(cq_head + seen) % CqSize]
           /\ Unread' = Unread \ {seen + 1}
<1>1. /\ IdxMod \in Nat \ {0} /\ CqSize \in Nat \ {0} /\ seen \in Nat
      /\ cq_head \in 0 .. IdxMod - 1 /\ cq_tail \in 0 .. IdxMod - 1
      /\ seen \in 0 .. Gap(IdxMod, cq_tail, cq_head)
      /\ Gap(IdxMod, cq_tail, cq_head) = Len(Ready) /\ Len(Ready) \in Nat
      /\ RingOf(IdxMod, CqSize)
  BY SizeFacts, IndexTyped, ReadyFacts, ReadyIs DEF Typed
<1>2. /\ Step(IdxMod, cq_head, seen) \in 0 .. IdxMod - 1
      /\ Gap(IdxMod, cq_tail, Step(IdxMod, cq_head, seen))
            = Gap(IdxMod, cq_tail, cq_head) - seen
  BY <1>1, GapShrinks
<1>3. /\ Step(IdxMod, cq_head, seen) # cq_tail /\ seen' = seen + 1
      /\ UNCHANGED <<cq_head, cq_tail, cqes>>
  BY DEF LoadHeadCqe, Step, unchangedByReap
<1>4. Len(Ready) - seen # 0
  BY <1>1, <1>2, <1>3, GapZero
<1>5. seen + 1 \in 1 .. Len(Ready) /\ seen + 1 \in 1 .. Gap(IdxMod, cq_tail, cq_head)
  BY <1>1, <1>4
<1>6. Ready[seen + 1] = cqes[Entry(CqSize, cq_head + ((seen + 1) - 1))]
  <2> HIDE <1>3
  <2> QED BY <1>1, <1>5, RingSeqAt DEF Ready
<1>7. cq_head + ((seen + 1) - 1) = cq_head + seen
  BY <1>1
<1>8. Ready' = Ready
  BY <1>3 DEF Ready
<1>9. Unread' = Unread \ {seen + 1}
  <2>1. Unread' = {k \in (seen + 1) + 1 .. Len(Ready) : Ready[k] \in Calls}
    BY <1>3, <1>8 DEF Unread
  <2>2. (seen + 1) + 1 .. Len(Ready) = (seen + 1 .. Len(Ready)) \ {seen + 1}
    BY <1>1
  <2> QED BY <2>1, <2>2 DEF Unread
<1> QED BY <1>5, <1>6, <1>7, <1>9 DEF Entry

LEMMA ReadyEmpty == ASSUME Typed, cq_head = cq_tail PROVE Len(Ready) = 0
<1>1. Len(Ready) = Gap(IdxMod, cq_tail, cq_head)
  BY ReadyIs DEF Typed
<1>2. /\ IdxMod \in Nat \ {0}
      /\ cq_head \in 0 .. IdxMod - 1 /\ cq_tail \in 0 .. IdxMod - 1
  BY SizeFacts, IndexTyped DEF Typed
<1> QED BY <1>1, <1>2, GapZero

LEMMA AdvanceUnread ==
    ASSUME Typed, Typed', CqAdvance, (cq_head + seen) % IdxMod = cq_tail
    PROVE  Unread' = {} /\ Unread = {}
<1>1. cq_head' = cq_tail' /\ seen' = 0
  BY DEF CqAdvance, unchangedByReap
<1>2. Len(Ready)' = 0
  <2>1. (Typed /\ cq_head = cq_tail => Len(Ready) = 0)'
    BY ReadyEmpty, PTL
  <2> QED BY <1>1, <2>1
<1>3. seen' + 1 .. Len(Ready)' = {}
  BY <1>1, <1>2
<1>4. seen + 1 .. Len(Ready) = {}
  <2>1. /\ IdxMod \in Nat \ {0} /\ seen \in Nat
        /\ cq_head \in 0 .. IdxMod - 1 /\ cq_tail \in 0 .. IdxMod - 1
        /\ seen \in 0 .. Gap(IdxMod, cq_tail, cq_head)
        /\ Gap(IdxMod, cq_tail, cq_head) = Len(Ready) /\ Len(Ready) \in Nat
    BY SizeFacts, IndexTyped, ReadyFacts, ReadyIs DEF Typed
  <2>2. Step(IdxMod, cq_head, seen) = cq_tail
    BY DEF Step
  <2>3. Gap(IdxMod, cq_tail, Step(IdxMod, cq_head, seen))
            = Gap(IdxMod, cq_tail, cq_head) - seen
    BY <2>1, GapShrinks
  <2>4. Len(Ready) - seen = 0
    BY <2>1, <2>2, <2>3, GapZero
  <2> QED BY <2>1, <2>4
<1> QED BY <1>3, <1>4 DEF Unread

----------------------------------------------------------------------------
(* The loop takes steps of the ring, and nobody destroys it.                 *)

\* The steps that fill no entry, execute nothing and reap nothing.
Quiet ==
    \/ ProcessDone \/ MainSubmits \/ MainInSubmit \/ MainWaits \/ MainAdvances
    \/ PoolTakes \/ PoolFinishes \/ (\E r \in Reqs : PoolDeletes(r)) \/ MainWokenUp
    \/ Publish

LEMMA StepsAre ==
    ASSUME BotNext
    PROVE  \/ ArmUpdateSqe \/ PrepUpdateHandle \/ MainReaps \/ Quiet
           \/ \E r \in Reqs : HandleUpdate(r) \/ PollAnswered(r) \/ PollIdle(r)
  BY DEF BotNext, MainStep, PoolThreadStep, Quiet

LEMMA QuietRings ==
    ASSUME Quiet, destroyer = "out"
    PROVE  [Next]_vars /\ destroyer' = "out"
<1>1. CASE ProcessDone \/ Publish
  BY <1>1 DEF ProcessDone, Publish, vars
<1>2. CASE MainSubmits
  BY <1>2 DEF MainSubmits, SubmitBegin, unchangedBySubmit, Next, ClientStep
<1>3. CASE MainInSubmit
  BY <1>3 DEF MainInSubmit, SubmitPunt, SubmitSleeps, SubmitFails, SubmitEnd,
              unchangedBySubmit, Next, SubmitStep
<1>4. CASE MainWaits
  BY <1>4 DEF MainWaits, WaitCqe, ResumeWaitCqe, unchangedByWait, Next, ClientStep, vars
<1>5. CASE MainAdvances
  BY <1>5 DEF MainAdvances, CqAdvance, unchangedByReap, Next, ClientStep
<1>6. CASE PoolTakes \/ PoolFinishes
  BY <1>6 DEF PoolTakes, PoolFinishes, StartWork, Finish, unchangedByPool, Next
<1>7. ASSUME NEW r \in Reqs, PoolDeletes(r) PROVE [Next]_vars /\ destroyer' = "out"
  BY <1>7 DEF PoolDeletes, Delete, unchangedByPool, Next, PoolStep
<1>8. CASE MainWokenUp
  BY <1>8 DEF MainWokenUp, SpuriousWakeup, SpuriousRetry, unchangedByWait,
              unchangedBySubmit, Next
<1> QED BY <1>1, <1>2, <1>3, <1>4, <1>5, <1>6, <1>7, <1>8 DEF Quiet

LEMMA ExecRings ==
    ASSUME NEW r \in Reqs, Exec(r), destroyer = "out"
    PROVE  [Next]_vars /\ destroyer' = "out"
  BY DEF Exec, unchangedByPool, Next, PoolStep

LEMMA GetRings ==
    ASSUME NEW r \in Reqs, GetSqe(r), destroyer = "out"
    PROVE  [Next]_vars /\ destroyer' = "out"
  BY DEF GetSqe, Next, ClientStep

LEMMA BotRings ==
    ASSUME Inv, [BotNext]_botVars
    PROVE  [Next]_vars /\ destroyer' = "out"
<1>1. destroyer = "out"
  BY DEF Inv, Base
<1>2. CASE ArmUpdateSqe
  <2>1. PICK p \in Calls : p = FreshPoll
    BY <1>2, FreshIsFree DEF ArmUpdateSqe, Inv, OnePoll, HandsOver
  <2>2. GetSqe(p) /\ p \in Reqs
    BY <1>2, <2>1, BotFacts DEF ArmUpdateSqe, GetSqe
  <2> QED BY <1>1, <2>2, GetRings
<1>3. CASE PrepUpdateHandle
  <2>1. todo \in Seq(Handles) /\ todo # <<>>
    BY <1>3 DEF PrepUpdateHandle, Inv, InOrder, Follows
  <2>2. PICK u \in Handles : u = Head(todo)
    BY <2>1, HeadTailProperties
  <2>3. GetSqe(u) /\ u \in Reqs
    BY <1>3, <2>2, BotFacts DEF PrepUpdateHandle, GetSqe
  <2> QED BY <1>1, <2>3, GetRings
<1>4. CASE MainReaps
  BY <1>1, <1>4 DEF MainReaps, LoadHeadCqe, unchangedByReap, Next, ClientStep
<1>5. ASSUME NEW r \in Reqs, HandleUpdate(r) \/ PollAnswered(r) \/ PollIdle(r)
      PROVE  [Next]_vars /\ destroyer' = "out"
  BY <1>1, <1>5, ExecRings DEF HandleUpdate, PollAnswered, PollIdle
<1>6. CASE UNCHANGED botVars
  BY <1>1, <1>6 DEF botVars, vars
<1> QED BY <1>1, <1>2, <1>3, <1>4, <1>5, <1>6, StepsAre, QuietRings

LEMMA BaseKept == ASSUME Inv, [BotNext]_botVars PROVE Base'
<1>1. [Next]_vars /\ destroyer' = "out"
  BY BotRings
<1>2. Typed' /\ Placed' /\ Crew'
  BY <1>1, NextTyped, PlacedKept, CrewKept DEF Inv, Base
<1> QED BY <1>1, <1>2 DEF Base

----------------------------------------------------------------------------
(* The polls and the updates.                                                *)

LEMMA EmptyFollows ==
    ASSUME max_update_id \in Nat, max_update_id <= published
    PROVE  Follows(<<>>)
  BY DEF Follows

\* What the quiet steps are to the main loop.
LEMMA QuietIs ==
    ASSUME Inv, Quiet
    PROVE  /\ Passes /\ Unread' = Unread
           /\ UNCHANGED <<updates, failed, todo, offset, max_update_id, confirmed,
                          idle_polls, executed>>
           /\ published' \in {published, published + 1} /\ published' <= MaxUpdates
           /\ pc' \in {"arm", "submit", "wait", "reap", "process"}
           /\ HandsOver' = HandsOver /\ (pc' # "process" => todo = <<>>)
<1> DEFINE Keeps == /\ UNCHANGED <<updates, failed, todo, offset, max_update_id, confirmed,
                                   idle_polls, executed>>
                    /\ published' = published
<1> HIDE DEF Keeps
<1>1. /\ pc \in {"arm", "submit", "wait", "reap", "process"}
      /\ published \in Nat /\ published <= MaxUpdates /\ MaxUpdates \in Nat
      /\ pc # "process" => todo = <<>>
  BY BotFacts DEF Inv, MainTyped, InOrder
<1>2. ASSUME UNCHANGED <<cq, seen>> PROVE Unread' = Unread
  BY <1>2 DEF Unread, Ready, cq
<1>3. CASE Publish
  <2>1. UNCHANGED vars
    BY <1>3 DEF Publish
  <2>2. Passes
    BY <2>1, StutterStays DEF Passes
  <2>3. Unread' = Unread
    BY <1>2, <2>1 DEF vars
  <2> QED BY <1>1, <1>3, <2>2, <2>3 DEF Publish, main, HandsOver
<1>4. CASE ProcessDone
  <2>1. UNCHANGED vars
    BY <1>4 DEF ProcessDone
  <2>2. Passes
    BY <2>1, StutterStays DEF Passes
  <2>3. Unread' = Unread
    BY <1>2, <2>1 DEF vars
  <2> QED BY <1>1, <1>4, <2>2, <2>3 DEF ProcessDone, AfterProcess, server, HandsOver
<1>5. CASE MainSubmits
  <2>1. SubmitBegin /\ UNCHANGED <<cq, seen>> /\ pc' = pc /\ Keeps
    BY <1>5 DEF MainSubmits, SubmitBegin, unchangedBySubmit, main, server, Keeps
  <2> QED BY <1>1, <1>2, <2>1, ClientStays DEF Passes, HandsOver, Keeps
<1>6. CASE MainInSubmit
  <2>1. /\ SubmitStep /\ UNCHANGED <<cq, seen>> /\ Keeps
        /\ pc' = pc \/ (pc = "submit" /\ pc' = "wait")
    BY <1>6 DEF MainInSubmit, SubmitPunt, SubmitSleeps, SubmitFails, SubmitEnd, SubmitStep,
                unchangedBySubmit, server, Keeps
  <2>2. Passes
    BY <2>1, SubmitMoves DEF Passes, Inv, Base, Typed
  <2> QED BY <1>1, <1>2, <2>1, <2>2 DEF HandsOver, Keeps
<1>7. CASE MainWaits
  <2>1. /\ WaitCqe \/ ResumeWaitCqe \/ UNCHANGED vars
        /\ UNCHANGED <<cq, seen>> /\ Keeps /\ pc = "wait" /\ pc' \in {"wait", "reap"}
    BY <1>7 DEF MainWaits, WaitCqe, ResumeWaitCqe, unchangedByWait, vars, server, Keeps
  <2>2. Passes
    BY <2>1, ClientStays, StutterStays DEF Passes
  <2> QED BY <1>1, <1>2, <2>1, <2>2 DEF HandsOver, Keeps
<1>8. CASE MainAdvances
  <2>1. /\ CqAdvance /\ (cq_head + seen) % IdxMod = cq_tail
        /\ Keeps /\ pc = "reap" /\ pc' = "submit"
    BY <1>8 DEF MainAdvances, server, Keeps
  <2>2. Typed /\ Typed'
    <3>1. [BotNext]_botVars
      BY <1>8 DEF BotNext, MainStep
    <3> QED BY <3>1, BaseKept DEF Inv, Base
  <2>3. Passes /\ Unread' = Unread
    BY <2>1, <2>2, ClientStays, AdvanceUnread DEF Passes
  <2> QED BY <1>1, <2>1, <2>3 DEF HandsOver, Keeps
<1>9. CASE PoolTakes \/ PoolFinishes \/ \E r \in Reqs : PoolDeletes(r)
  <2>1. /\ StartWork \/ Finish \/ \E r \in Reqs : Delete(r)
        /\ UNCHANGED <<cq, seen>> /\ Keeps /\ pc' = pc
    BY <1>9 DEF PoolTakes, PoolFinishes, PoolDeletes, StartWork, Finish, Delete,
                unchangedByPool, main, server, Keeps
  <2>2. Passes
    BY <2>1, TakeMoves, DeleteMoves DEF Passes, Inv, Base
  <2> QED BY <1>1, <1>2, <2>1, <2>2 DEF HandsOver, Keeps
<1>10. CASE MainWokenUp
  <2>1. /\ SpuriousWakeup \/ SpuriousRetry
        /\ UNCHANGED <<cq, seen>> /\ Keeps /\ pc' = pc
    BY <1>10 DEF MainWokenUp, SpuriousWakeup, SpuriousRetry, unchangedByWait,
                 unchangedBySubmit, main, server, Keeps
  <2> QED BY <1>1, <1>2, <2>1, ClientStays DEF Passes, HandsOver, Keeps
<1> QED BY <1>3, <1>4, <1>5, <1>6, <1>7, <1>8, <1>9, <1>10 DEF Quiet

LEMMA QuietKeeps == ASSUME Inv, Quiet PROVE MainTyped' /\ OnePoll' /\ InOrder'
<1>1. /\ Unread' = Unread
      /\ UNCHANGED <<updates, failed, todo, offset, max_update_id, confirmed,
                     idle_polls, executed>>
      /\ published' \in {published, published + 1} /\ published' <= MaxUpdates
      /\ pc' \in {"arm", "submit", "wait", "reap", "process"}
      /\ HandsOver' = HandsOver /\ (pc' # "process" => todo = <<>>)
  BY QuietIs
<1>2. Underway' \subseteq Underway
  BY QuietIs, PassUnderway DEF Inv
<1>3. Open' \subseteq Open /\ Handed' \subseteq Handed
  BY <1>2 DEF Open, Handed
<1>4. MainTyped'
  BY <1>1 DEF Inv, MainTyped
<1>5. OnePoll'
  BY <1>1, <1>3 DEF Inv, OnePoll
<1>6. ASSUME NEW s, Follows(s) PROVE Follows(s)'
  <2>1. max_update_id \in Nat /\ Len(s) \in Nat /\ published \in Nat
    BY <1>6, LenProperties DEF Follows, Inv, InOrder
  <2> QED BY <1>1, <1>6, <2>1 DEF Follows
<1>7. Follows(todo)' /\ (~HandsOver' => Follows(updates)')
  <2>1. PICK t : t = todo
    OBVIOUS
  <2>2. PICK v : v = updates
    OBVIOUS
  <2>3. Follows(t)' => Follows(todo)'
    BY <1>1, <2>1 DEF Follows
  <2>4. Follows(v)' => Follows(updates)'
    BY <1>1, <2>2 DEF Follows
  <2>5. Follows(t) /\ (~HandsOver => Follows(v))
    BY <2>1, <2>2 DEF Inv, InOrder, Follows
  <2> QED BY <1>1, <1>6, <2>3, <2>4, <2>5
<1>8. published' \in 0 .. MaxUpdates /\ max_update_id' \in 0 .. published'
      /\ confirmed' \in 0 .. max_update_id'
  BY <1>1, BotFacts DEF Inv, InOrder
<1>9. InOrder'
  BY <1>1, <1>3, <1>7, <1>8 DEF Inv, InOrder
<1> QED BY <1>4, <1>5, <1>9

\* A poll is armed: it asks for what follows the last update handed over.
LEMMA ArmKeeps == ASSUME Inv, ArmUpdateSqe PROVE MainTyped' /\ OnePoll' /\ InOrder'
<1>1. PICK p \in Calls : p = FreshPoll
  BY FreshIsFree DEF ArmUpdateSqe, Inv, OnePoll, HandsOver
<1>2. GetSqe(p) /\ p \in Reqs
  BY <1>1, BotFacts DEF ArmUpdateSqe, GetSqe
<1>3. /\ pc = "arm" /\ pc' \in {"submit", "reap"} /\ updates' = <<>>
      /\ offset' = max_update_id + 1
      /\ UNCHANGED <<todo, max_update_id, published, confirmed, idle_polls, failed, executed>>
  BY DEF ArmUpdateSqe, NextOffset, server
<1>4. Underway' = Underway \cup {p}
  BY <1>2, GetMoves, GetUnderway DEF Inv, Base
<1>5. Unread' = Unread
  BY <1>2 DEF GetSqe, Unread, Ready, cq
<1>6. Open' = {p} /\ Handed' = Handed /\ Unread' = {}
  BY <1>3, <1>4, <1>5, BotFacts DEF Open, Handed, Inv, OnePoll, HandsOver
<1>7. OnePoll'
  BY <1>3, <1>6 DEF OnePoll, HandsOver
<1>8. /\ published \in 0 .. MaxUpdates /\ max_update_id \in 0 .. published
      /\ confirmed \in 0 .. max_update_id /\ todo = <<>>
      /\ executed \cup Handed \subseteq 1 .. max_update_id /\ executed \cap Handed = {}
  BY <1>3 DEF Inv, InOrder
<1>9. Follows(<<>>)'
  BY <1>3, <1>8, BotFacts DEF Follows
<1>10. Follows(todo)' /\ Follows(updates)'
  BY <1>3, <1>8, <1>9 DEF Follows
<1>11. InOrder'
  BY <1>3, <1>6, <1>8, <1>10 DEF InOrder
<1>12. MainTyped'
  <2>1. offset' \in 0 .. MaxUpdates + 1
    BY <1>3, <1>8, BotFacts
  <2>2. updates' \in Seq(Handles)
    BY <1>3
  <2> QED BY <1>3, <2>1, <2>2 DEF Inv, MainTyped
<1> QED BY <1>7, <1>11, <1>12

\* The next update is handed over: it is the one behind the last, and the rest
\* of the batch is behind it.
LEMMA RestFollows ==
    ASSUME NEW s \in Seq(Handles), s # <<>>, NEW m \in Nat,
           \A k \in 1 .. Len(s) : s[k] = m + k
    PROVE  /\ Head(s) = m + 1 /\ Tail(s) \in Seq(Handles) /\ Len(Tail(s)) = Len(s) - 1
           /\ Len(s) \in Nat \ {0}
           /\ \A k \in 1 .. Len(s) - 1 : Tail(s)[k] = (m + 1) + k
<1>1. Len(s) \in Nat \ {0}
  BY EmptySeq, LenProperties
<1>2. /\ Head(s) = s[1] /\ Tail(s) \in Seq(Handles) /\ Len(Tail(s)) = Len(s) - 1
      /\ \A k \in 1 .. Len(s) - 1 : Tail(s)[k] = s[k + 1]
  <2>1. Head(s) = s[1]
    OBVIOUS
  <2> QED BY <2>1, <1>1, HeadTailProperties
<1>3. ASSUME NEW k \in 1 .. Len(s) - 1 PROVE Tail(s)[k] = (m + 1) + k
  <2>1. k + 1 \in 1 .. Len(s) /\ k \in Int
    BY <1>1
  <2>2. Tail(s)[k] = m + (k + 1)
    BY <1>2, <2>1
  <2> QED BY <2>1, <2>2
<1> QED BY <1>1, <1>2, <1>3

LEMMA PrepKeeps == ASSUME Inv, PrepUpdateHandle PROVE MainTyped' /\ OnePoll' /\ InOrder'
<1>1. PICK t \in Seq(Handles) : t = todo
  BY DEF Inv, InOrder, Follows
<1>2. /\ t # <<>> /\ max_update_id \in Nat /\ published \in 0 .. MaxUpdates
      /\ max_update_id + Len(t) <= published
      /\ \A k \in 1 .. Len(t) : t[k] = max_update_id + k
      /\ confirmed \in 0 .. max_update_id
      /\ executed \cup Handed \subseteq 1 .. max_update_id /\ executed \cap Handed = {}
  BY <1>1 DEF PrepUpdateHandle, Inv, InOrder, Follows
<1>3. /\ Head(t) = max_update_id + 1 /\ Tail(t) \in Seq(Handles)
      /\ Len(Tail(t)) = Len(t) - 1 /\ Len(t) \in Nat \ {0}
      /\ \A k \in 1 .. Len(t) - 1 : Tail(t)[k] = (max_update_id + 1) + k
  BY <1>2, RestFollows
<1>4. PICK u \in Handles : u = Head(t)
  BY <1>1, <1>2, HeadTailProperties
<1>5. /\ GetSqe(u) /\ u \in Reqs
      /\ pc = "process" /\ pc' = pc /\ todo' = Tail(t) /\ max_update_id' = max_update_id + 1
      /\ UNCHANGED <<offset, published, confirmed, idle_polls, updates, failed, executed>>
  <2>1. u > max_update_id
    BY <1>2, <1>3, <1>4
  <2> QED BY <1>1, <1>3, <1>4, <2>1, BotFacts
          DEF PrepUpdateHandle, GetSqe, MaxId, server
<1>6. Underway' = Underway \cup {u}
  BY <1>5, GetMoves, GetUnderway DEF Inv, Base
<1>7. Unread' = Unread
  BY <1>5 DEF GetSqe, Unread, Ready, cq
<1>8. Open' = Open /\ Handed' = Handed \cup {u}
  BY <1>6, BotFacts DEF Open, Handed
<1>9. OnePoll'
  BY <1>5, <1>7, <1>8 DEF Inv, OnePoll, HandsOver
<1>10. Follows(todo)'
  <2>1. PICK v : v = Tail(t)
    OBVIOUS
  <2>2. /\ v \in Seq(Handles) /\ max_update_id' + Len(v) <= published'
        /\ \A k \in 1 .. Len(v) : v[k] = max_update_id' + k
    BY <1>2, <1>3, <1>5, <2>1
  <2>3. todo' = v
    BY <1>5, <2>1
  <2> QED BY <2>2, <2>3 DEF Follows
<1>11. /\ max_update_id' \in 0 .. published' /\ confirmed' \in 0 .. max_update_id'
       /\ published' \in 0 .. MaxUpdates
  BY <1>2, <1>3, <1>5, BotFacts
<1>12. executed' \cup Handed' \subseteq 1 .. max_update_id' /\ executed' \cap Handed' = {}
  <2>1. u \in 1 .. max_update_id' /\ u \notin 1 .. max_update_id
    BY <1>2, <1>3, <1>4, <1>5
  <2>2. 1 .. max_update_id \subseteq 1 .. max_update_id'
    BY <1>2, <1>5
  <2> QED BY <1>2, <1>5, <1>8, <2>1, <2>2
<1>13. HandsOver' /\ pc' = "process"
  BY <1>5 DEF HandsOver
<1>14. InOrder'
  BY <1>10, <1>11, <1>12, <1>13 DEF InOrder
<1>15. MainTyped'
  BY <1>5 DEF Inv, MainTyped
<1> QED BY <1>9, <1>14, <1>15

\* A completion is visited: when it is that of a poll, the poll was the only one.
LEMMA ReapKeeps == ASSUME Inv, MainReaps PROVE MainTyped' /\ OnePoll' /\ InOrder'
<1>1. /\ LoadHeadCqe /\ pc = "reap" /\ todo = <<>>
      /\ UNCHANGED <<max_update_id, offset, published, confirmed, idle_polls, updates,
                     failed, executed>>
  BY DEF MainReaps, server, Inv, InOrder
<1>2. /\ seen + 1 \in 1 .. Len(Ready) /\ seen \in Nat
      /\ Ready[seen + 1] = cqes[(cq_head + seen) % CqSize]
      /\ Unread' = Unread \ {seen + 1}
  BY <1>1, ReapUnread, ReadyFacts DEF Inv, Base
<1>3. \/ /\ Ready[seen + 1] \in Calls /\ pc' = "process"
         /\ todo' = IF failed THEN <<>> ELSE updates
      \/ Ready[seen + 1] \notin Calls /\ pc' = "reap" /\ todo' = todo
  BY <1>1, <1>2 DEF MainReaps, IsPoll
<1>4. Open' = Open /\ Handed' = Handed
  <2>1. Stays
    BY <1>1, ClientStays
  <2>2. Sent' = Sent /\ Punted' = Punted /\ running' = running
    BY <2>1, SentKept DEF Stays, Punted
  <2> QED BY <2>2 DEF Open, Handed, Underway
<1>5. Ready[seen + 1] \in Calls => Open = {} /\ Unread' = {}
  <2>1. Ready[seen + 1] \in Calls => seen + 1 \in Unread
    BY <1>2 DEF Unread
  <2> QED BY <1>2, <2>1 DEF Inv, OnePoll
<1>6. OnePoll'
  BY <1>1, <1>2, <1>3, <1>4, <1>5 DEF Inv, OnePoll, HandsOver
<1>7. Follows(updates) /\ Follows(<<>>)
  BY <1>1, EmptyFollows DEF Inv, InOrder, HandsOver
<1>8. Follows(updates)' /\ Follows(todo)'
  <2>1. PICK v : v = updates
    OBVIOUS
  <2>2. Follows(v)' /\ Follows(<<>>)'
    BY <1>1, <1>7, <2>1 DEF Follows
  <2>3. updates' = v /\ (todo' = v \/ todo' = <<>>)
    BY <1>1, <1>3, <2>1
  <2> QED BY <2>2, <2>3 DEF Follows
<1>9. InOrder'
  <2>1. pc' # "process" => todo' = <<>>
    BY <1>1, <1>3
  <2>2. ~HandsOver /\ HandsOver' = (pc' = "process")
    BY <1>1, <1>3 DEF HandsOver
  <2> QED BY <1>1, <1>4, <1>8, <2>1, <2>2 DEF Inv, InOrder
<1>10. MainTyped'
  BY <1>1, <1>3 DEF Inv, MainTyped
<1> QED BY <1>6, <1>9, <1>10

----------------------------------------------------------------------------
(* The threads of the work queue execute.                                    *)

\* A thread handles an update, which is then executed and no longer on its way.
LEMMA HandleKeeps ==
    ASSUME Inv, NEW r \in Reqs, HandleUpdate(r)
    PROVE  MainTyped' /\ OnePoll' /\ InOrder'
<1>1. /\ Exec(r) /\ r \in Handles /\ r \notin Calls /\ executed' = executed \cup {r}
      /\ UNCHANGED <<pc, todo, max_update_id, offset, published, confirmed, idle_polls,
                     updates, failed>>
  BY BotFacts DEF HandleUpdate, main, server
<1>2. Underway' = Underway \ {r} /\ r \in Underway
  BY <1>1, ExecMoves, ExecUnderway DEF Inv, Base
<1>3. Unread' = Unread
  BY <1>1, ExecUnread DEF Inv, Base
<1>4. Open' = Open /\ Handed' = Handed \ {r} /\ r \in Handed
  BY <1>1, <1>2 DEF Open, Handed
<1>5. OnePoll'
  BY <1>1, <1>3, <1>4 DEF Inv, OnePoll, HandsOver
<1>6. Follows(todo)' = Follows(todo) /\ Follows(updates)' = Follows(updates)
  BY <1>1 DEF Follows
<1>7. InOrder'
  BY <1>1, <1>4, <1>6 DEF Inv, InOrder, HandsOver
<1>8. MainTyped'
  BY <1>1 DEF Inv, MainTyped
<1> QED BY <1>5, <1>7, <1>8

\* A poll completes: it was the only one, and posts at most one completion.
LEMMA PollExec ==
    ASSUME Inv, NEW p \in Calls, Exec(p), pc' = pc
    PROVE  OnePoll' /\ ~HandsOver /\ Handed' = Handed
<1>1. p \in Reqs
  BY BotFacts
<1>2. Underway' = Underway \ {p} /\ p \in Underway
  BY <1>1, ExecMoves, ExecUnderway DEF Inv, Base
<1>3. Open = {p} /\ Unread = {} /\ ~HandsOver
  BY <1>2 DEF Open, Inv, OnePoll
<1>4. Open' = {} /\ Handed' = Handed
  BY <1>2, <1>3, BotFacts DEF Open, Handed
<1>5. Unread' \subseteq {Len(Ready) + 1}
  BY <1>1, <1>3, ExecUnread DEF Inv, Base
<1>6. HandsOver' = HandsOver
  BY DEF HandsOver
<1> QED BY <1>3, <1>4, <1>5, <1>6 DEF OnePoll

LEMMA AnsweredKeeps ==
    ASSUME Inv, NEW p \in Reqs, PollAnswered(p)
    PROVE  MainTyped' /\ OnePoll' /\ InOrder'
<1>1. /\ p \in Calls /\ Exec(p) /\ offset <= published /\ confirmed' = offset - 1
      /\ failed' = FALSE
      /\ UNCHANGED <<pc, todo, max_update_id, offset, published, idle_polls, executed>>
  BY DEF PollAnswered, main
<1>2. PICK hi \in offset .. published : updates' = Ids(offset, hi)
  BY DEF PollAnswered
<1>3. OnePoll' /\ ~HandsOver /\ Handed' = Handed
  BY <1>1, PollExec
<1>4. /\ offset = max_update_id + 1 /\ published \in 0 .. MaxUpdates
      /\ max_update_id \in 0 .. published /\ MaxUpdates \in Nat /\ Handles = 1 .. MaxUpdates
  BY <1>3, BotFacts DEF Inv, InOrder
<1>5. PICK v : v = [k \in 1 .. hi - max_update_id |-> max_update_id + k]
  OBVIOUS
<1>6. updates' = v
  <2>1. /\ hi - (max_update_id + 1) + 1 = hi - max_update_id
        /\ \A k \in 1 .. hi - max_update_id : (max_update_id + 1) + k - 1 = max_update_id + k
    BY <1>2, <1>4
  <2> QED BY <1>2, <1>4, <1>5, <2>1 DEF Ids
<1>7. v \in Seq(Handles) /\ Len(v) = hi - max_update_id
  <2>1. hi - max_update_id \in Nat
    BY <1>2, <1>4
  <2>2. \A k \in 1 .. hi - max_update_id : max_update_id + k \in Handles
    BY <1>2, <1>4
  <2>3. v \in [1 .. hi - max_update_id -> Handles]
    BY <1>5, <2>2
  <2> HIDE <1>5
  <2>4. v \in Seq(Handles)
    BY <2>1, <2>3, SeqDef
  <2>5. Len(v) \in Nat /\ DOMAIN v = 1 .. Len(v)
    BY <2>4, LenProperties
  <2>6. 1 .. Len(v) = 1 .. hi - max_update_id
    BY <2>3, <2>5
  <2>7. Len(v) = hi - max_update_id
    BY <2>1, <2>5, <2>6
  <2> QED BY <2>4, <2>7
<1>8. Follows(v)
  <2>1. max_update_id + Len(v) <= published
    BY <1>2, <1>4, <1>7
  <2>2. \A k \in 1 .. Len(v) : v[k] = max_update_id + k
    BY <1>5, <1>7
  <2> HIDE <1>5
  <2> QED BY <1>7, <2>1, <2>2 DEF Follows
<1>9. Follows(updates)'
  BY <1>1, <1>6, <1>8 DEF Follows
<1>10. Follows(todo)' = Follows(todo)
  BY <1>1 DEF Follows
<1>11. confirmed' \in 0 .. max_update_id
  BY <1>1, <1>4
<1>12. InOrder'
  BY <1>1, <1>3, <1>9, <1>10, <1>11 DEF Inv, InOrder, HandsOver
<1>13. MainTyped'
  BY <1>1, <1>6, <1>7 DEF Inv, MainTyped
<1> QED BY <1>3, <1>12, <1>13

LEMMA IdleKeeps ==
    ASSUME Inv, NEW p \in Reqs, PollIdle(p)
    PROVE  MainTyped' /\ OnePoll' /\ InOrder'
<1>1. /\ p \in Calls /\ Exec(p) /\ failed' \in BOOLEAN
      /\ idle_polls < MaxIdlePolls /\ idle_polls' = idle_polls + 1
      /\ updates' = <<>> \/ updates' = updates
      /\ confirmed' \in {confirmed, offset - 1}
      /\ UNCHANGED <<pc, todo, max_update_id, offset, published, executed>>
  BY DEF PollIdle, main
<1>2. OnePoll' /\ ~HandsOver /\ Handed' = Handed
  BY <1>1, PollExec
<1>3. /\ offset = max_update_id + 1 /\ published \in 0 .. MaxUpdates
      /\ max_update_id \in 0 .. published /\ confirmed \in 0 .. max_update_id
      /\ Follows(updates) /\ Follows(<<>>)
  BY <1>2, BotFacts, EmptyFollows DEF Inv, InOrder
<1>4. confirmed' \in 0 .. max_update_id
  BY <1>1, <1>3, BotFacts
<1>5. Follows(updates)'
  <2>1. PICK v : v = updates
    OBVIOUS
  <2>2. Follows(v)' /\ Follows(<<>>)'
    BY <1>1, <1>3, <2>1 DEF Follows
  <2>3. updates' = v \/ updates' = <<>>
    BY <1>1, <2>1
  <2> QED BY <2>2, <2>3 DEF Follows
<1>6. Follows(todo)' = Follows(todo)
  BY <1>1 DEF Follows
<1>7. InOrder'
  BY <1>1, <1>2, <1>4, <1>5, <1>6 DEF Inv, InOrder, HandsOver
<1>8. MainTyped'
  <2>1. idle_polls' \in 0 .. MaxIdlePolls
    BY <1>1, BotFacts DEF Inv, MainTyped
  <2>2. updates' \in Seq(Handles)
    <3>1. CASE updates' = <<>>
      BY <3>1
    <3>2. CASE updates' = updates
      BY <3>2 DEF Inv, MainTyped
    <3> QED BY <1>1, <3>1, <3>2
  <2> QED BY <1>1, <2>1, <2>2 DEF Inv, MainTyped
<1> QED BY <1>2, <1>7, <1>8

----------------------------------------------------------------------------
LEMMA InitInv == BotInit => Inv
<1> SUFFICES ASSUME BotInit PROVE Inv
  OBVIOUS
<1>1. Init /\ Typed /\ Placed
  BY InitTyped, InitPlaced DEF BotInit
<1>2. Occupied = {} /\ seen = 0 /\ Len(Ready) = 0 /\ destroyer = "out" /\ running \cup posted = {}
  <2>1. seen = 0 /\ cq_head = cq_tail /\ destroyer = "out" /\ running = {} /\ posted = {}
        /\ backlog = <<>> /\ From = sq_tail
    BY <1>1 DEF Init, From
  <2>2. Len(Ready) = 0
    BY <1>1, <2>1, ReadyEmpty
  <2>3. Unsent = <<>>
    <3>1. Len(Unsent) = 0
      BY <1>1, <2>1, UnsentIs, SizeFacts, IndexTyped, GapZero DEF Typed
    <3> QED BY <1>1, <3>1, EmptySeq DEF Placed
  <2> QED BY <2>1, <2>2, <2>3, EmptyElems DEF Occupied, Sent, Punted
<1>3. Underway = {} /\ Unread = {} /\ Open = {} /\ Handed = {}
  <2>1. seen + 1 .. Len(Ready) = {}
    BY <1>2
  <2> QED BY <1>2, <2>1 DEF Underway, Occupied, Unread, Open, Handed
<1>4. Crew
  BY <1>1, InitCrew
<1>5. OnePoll
  BY <1>3 DEF OnePoll
<1>6. Follows(<<>>) /\ MaxUpdates \in Nat
  BY EmptyFollows, BotFacts DEF BotInit
<1>7. InOrder
  BY <1>3, <1>6 DEF BotInit, InOrder, HandsOver
<1>8. MainTyped
  <2>1. 0 \in 0 .. MaxUpdates + 1 /\ 0 \in 0 .. MaxIdlePolls
    BY BotFacts
  <2>2. updates \in Seq(Handles)
    BY DEF BotInit
  <2> QED BY <2>1, <2>2 DEF BotInit, MainTyped
<1> QED BY <1>1, <1>2, <1>4, <1>5, <1>7, <1>8 DEF Inv, Base

LEMMA InvKept == Inv /\ [BotNext]_botVars => Inv'
<1> SUFFICES ASSUME Inv, [BotNext]_botVars PROVE MainTyped' /\ OnePoll' /\ InOrder'
  BY BaseKept DEF Inv
<1>1. CASE UNCHANGED botVars
  BY <1>1 DEF botVars, vars, main, server, sq, cq, pool, Inv, MainTyped, OnePoll, InOrder,
              Follows, HandsOver, Open, Handed, Underway, Unread, Ready, Sent, Punted,
              Unsent, From
<1> QED BY <1>1, StepsAre, QuietKeeps, ArmKeeps, PrepKeeps, ReapKeeps, HandleKeeps,
           AnsweredKeeps, IdleKeeps

LEMMA AlwaysInv == BotSpec => []Inv
  BY InitInv, InvKept, PTL DEF BotSpec

\* The main loop keeps its fields in their types; in particular the request it
\* arms next always has data of its own, and the ids keep below the last update.
THEOREM BotTyped == BotSpec => []BotTypeOK
<1>1. Inv => BotTypeOK
  <2> SUFFICES ASSUME Inv PROVE BotTypeOK
    OBVIOUS
  <2>1. TypeOK /\ MaxUpdates \in Nat /\ Handles = 1 .. MaxUpdates
    BY BotFacts DEF Inv, Base, Typed
  <2>2. /\ todo \in Seq(Handles) /\ max_update_id \in 0 .. MaxUpdates + 1
        /\ published \in 0 .. MaxUpdates + 1 /\ confirmed \in 0 .. MaxUpdates + 1
        /\ executed \subseteq Handles
    <3>1. /\ todo \in Seq(Handles) /\ published \in 0 .. MaxUpdates
          /\ max_update_id \in 0 .. published /\ confirmed \in 0 .. max_update_id
          /\ executed \subseteq 1 .. max_update_id
      BY DEF Inv, InOrder, Follows
    <3> QED BY <2>1, <3>1
  <2> QED BY <2>1, <2>2 DEF BotTypeOK, Inv, MainTyped
<1> QED BY <1>1, AlwaysInv, PTL

LEMMA PollsAre == ASSUME Inv PROVE Polls = Open \cup {Ready[k] : k \in Unread}
<1>1. Elems(SqEntries) = Sent /\ Elems(backlog) = Punted /\ CqEntries = Ready
  BY UnsentIs, ReadyIs, ElemsIs DEF Sent, Punted, Inv, Base, Typed
<1>2. Unseen = {Ready[k] : k \in seen + 1 .. Len(Ready)}
  BY <1>1 DEF Unseen
<1>3. Calls \cap Unseen = {Ready[k] : k \in Unread}
  BY <1>2 DEF Unread
<1> QED BY <1>1, <1>3 DEF Polls, Open, Underway

\* No two polls: while a thread may write the updates of an answer, the main
\* thread is not handing over, nor forgetting, those of another.
THEOREM OnePollAtATime == BotSpec => []PolledOneAtATime
<1>1. Inv => PolledOneAtATime
  <2> SUFFICES ASSUME Inv PROVE PolledOneAtATime
    OBVIOUS
  <2>1. Polls = Open \cup {Ready[k] : k \in Unread}
    BY PollsAre
  <2>2. HandsOver => Polls = {}
    BY <2>1 DEF Inv, OnePoll
  <2>3. Polls = {} \/ \E p : Polls = {p}
    <3>1. CASE Open = {}
      BY <2>1, <3>1 DEF Inv, OnePoll
    <3>2. CASE Open # {}
      BY <2>1, <3>2 DEF Inv, OnePoll
    <3> QED BY <3>1, <3>2
  <2>4. Cardinality({}) = 0 /\ \A p : Cardinality({p}) = 1
    BY FS_EmptySet, FS_Singleton
  <2>5. Cardinality(Polls) \in {0, 1} /\ (HandsOver => Cardinality(Polls) = 0)
    <3>1. CASE Polls = {}
      BY <2>4, <3>1
    <3>2. CASE Polls # {}
      <4>1. PICK p : Polls = {p}
        BY <2>3, <3>2
      <4> QED BY <2>2, <2>4, <3>2, <4>1
    <3> QED BY <3>1, <3>2
  <2> QED BY <2>5 DEF PolledOneAtATime, HandsOver
<1> QED BY <1>1, AlwaysInv, PTL

\* An update is handled by one call of gw_module_handle at most, whatever polls
\* fail, and in whatever pieces the answers come.
THEOREM HandledAtMostOnce == BotSpec => NeverHandledTwice
<1>1. Inv => \A u \in executed : ~HandleUpdate(u)
  <2> SUFFICES ASSUME Inv, NEW u \in executed, HandleUpdate(u) PROVE FALSE
    OBVIOUS
  <2>1. u \in Handed
    BY DEF HandleUpdate, Exec, Handed, Underway
  <2> QED BY <2>1 DEF Inv, InOrder
<1> DEFINE Once == \A u \in executed : ~HandleUpdate(u)
<1>2. Inv => Once
  BY <1>1
<1> HIDE DEF Once
<1>3. BotSpec => [][Once]_botVars
  BY <1>2, AlwaysInv, PTL DEF BotSpec
<1> QED BY <1>3 DEF NeverHandledTwice, Once

----------------------------------------------------------------------------
(* The ring under the main loop.                                             *)

\* The main loop is a client of the request ring: every step of it, of the threads
\* and of the server is a step of the ring or leaves the ring alone.  So whatever
\* is proved of the ring holds under the main loop: the order of the completions,
\* one place for every request, an update that is held while it is needed, and that
\* the requests are works of the pool the work queue implements.
THEOREM BotUsesRing == BotSpec => Spec
<1>1. BotInit => Init
  BY DEF BotInit
<1>2. Inv /\ [BotNext]_botVars => [Next]_vars
  BY BotRings
<1> QED BY <1>1, <1>2, AlwaysInv, PTL DEF BotSpec, Spec

\* Nothing that was handed over is counted twice or lost: the updates up to
\* max_update_id are those that gw_module_handle has had, and those on their way.
Accounted ==
    /\ executed \cup Handed = 1 .. max_update_id
    /\ executed \cap Handed = {}

----------------------------------------------------------------------------
(* When no punt fails.                                                       *)

LEMMA NoneForgottenKept ==
    ASSUME ~PuntMayFail
    PROVE  Inv /\ NoneForgotten /\ [BotNext]_botVars => NoneForgotten'
<1> SUFFICES ASSUME Inv, NoneForgotten, [BotNext]_botVars PROVE NoneForgotten'
  OBVIOUS
<1>1. CASE UNCHANGED botVars
  BY <1>1 DEF botVars, vars, main, server, sq, pool, NoneForgotten, Handed, Underway, Sent,
              Punted, Unsent, From
<1>2. CASE Quiet
  <2>1. Underway' = Underway /\ UNCHANGED <<max_update_id, executed>>
    BY <1>2, QuietIs, PassUnderway DEF Inv
  <2> QED BY <2>1 DEF NoneForgotten, Handed
<1>3. CASE ArmUpdateSqe
  <2>1. PICK p \in Calls : p = FreshPoll
    BY <1>3, FreshIsFree DEF ArmUpdateSqe, Inv, OnePoll, HandsOver
  <2>2. GetSqe(p) /\ p \in Reqs /\ UNCHANGED <<max_update_id, executed>>
    BY <1>3, <2>1, BotFacts DEF ArmUpdateSqe, GetSqe
  <2>3. Underway' = Underway \cup {p}
    BY <2>2, GetMoves, GetUnderway DEF Inv, Base
  <2> QED BY <2>2, <2>3 DEF NoneForgotten, Handed
<1>4. CASE PrepUpdateHandle
  <2>1. PICK t \in Seq(Handles) : t = todo
    BY DEF Inv, InOrder, Follows
  <2>2. /\ t # <<>> /\ max_update_id \in Nat
        /\ \A k \in 1 .. Len(t) : t[k] = max_update_id + k
    BY <1>4, <2>1 DEF PrepUpdateHandle, Inv, InOrder, Follows
  <2>3. PICK u \in Handles : u = Head(t) /\ u = max_update_id + 1
    BY <2>1, <2>2, HeadTailProperties, RestFollows
  <2>4. /\ GetSqe(u) /\ u \in Reqs /\ executed' = executed
        /\ max_update_id' = max_update_id + 1
    <3>1. u > max_update_id
      BY <2>2, <2>3
    <3> QED BY <1>4, <2>1, <2>3, <3>1, BotFacts DEF PrepUpdateHandle, GetSqe, MaxId
  <2>5. Underway' = Underway \cup {u}
    BY <2>4, GetMoves, GetUnderway DEF Inv, Base
  <2>6. 1 .. max_update_id + 1 = 1 .. max_update_id \cup {u}
    BY <2>2, <2>3
  <2> QED BY <2>4, <2>5, <2>6 DEF NoneForgotten, Handed
<1>5. CASE MainReaps
  <2>1. LoadHeadCqe /\ UNCHANGED <<max_update_id, executed>>
    BY <1>5 DEF MainReaps
  <2>2. Underway' = Underway
    BY <2>1, ClientStays, SentKept DEF Stays, Underway, Punted
  <2> QED BY <2>1, <2>2 DEF NoneForgotten, Handed
<1>6. ASSUME NEW r \in Reqs, HandleUpdate(r) \/ PollAnswered(r) \/ PollIdle(r)
      PROVE  NoneForgotten'
  <2>1. Exec(r) /\ max_update_id' = max_update_id
    BY <1>6 DEF HandleUpdate, PollAnswered, PollIdle, main
  <2>2. Underway' = Underway \ {r}
    BY <2>1, ExecMoves, ExecUnderway DEF Inv, Base
  <2>3. executed \subseteq executed' /\ (r \in Handles => r \in executed')
    BY <1>6, BotFacts DEF HandleUpdate, PollAnswered, PollIdle
  <2> QED BY <2>1, <2>2, <2>3 DEF NoneForgotten, Handed
<1> QED BY <1>1, <1>2, <1>3, <1>4, <1>5, <1>6, StepsAre

\* Whatever the server has been told to forget has been given to the ring or to
\* gw_module_handle, and is not lost in between, as long as no punt fails.
THEOREM OffsetBehindHandOver ==
    ASSUME ~PuntMayFail
    PROVE  BotSpec => []ConfirmedAreHandled
<1>1. Inv /\ NoneForgotten => ConfirmedAreHandled
  <2> SUFFICES ASSUME Inv, NoneForgotten PROVE ConfirmedAreHandled
    OBVIOUS
  <2>1. 1 .. confirmed \subseteq 1 .. max_update_id
    BY DEF Inv, InOrder
  <2>2. Elems(SqEntries) = Sent /\ Elems(backlog) = Punted
    BY UnsentIs, ElemsIs DEF Sent, Punted, Inv, Base, Typed
  <2> QED BY <2>1, <2>2 DEF ConfirmedAreHandled, NoneForgotten, Handed, Underway
<1>2. BotInit => NoneForgotten
  BY DEF BotInit, NoneForgotten
<1>3. Inv /\ NoneForgotten /\ [BotNext]_botVars => NoneForgotten'
  BY NoneForgottenKept
<1> QED BY <1>1, <1>2, <1>3, AlwaysInv, PTL DEF BotSpec


\* As long as no punt fails, every update up to the last one handed over is on its
\* way in the ring or has been handled, and not both: once the ring has run empty,
\* all of them have been handled.
THEOREM NoUpdateLost ==
    ASSUME ~PuntMayFail
    PROVE  BotSpec => []Accounted
<1>1. Inv /\ NoneForgotten => Accounted
  BY DEF Inv, InOrder, NoneForgotten, Accounted
<1>2. BotInit => NoneForgotten
  BY DEF BotInit, NoneForgotten
<1>3. Inv /\ NoneForgotten /\ [BotNext]_botVars => NoneForgotten'
  BY NoneForgottenKept
<1> QED BY <1>1, <1>2, <1>3, AlwaysInv, PTL DEF BotSpec

----------------------------------------------------------------------------
(* How many requests there are, and completions not given back.                *)

Waiting == Len(Unsent) + Len(backlog) + Cardinality(running)
Load    == Len(Ready) + Waiting

LEMMA CountsAre ==
    ASSUME Inv
    PROVE  /\ Len(Ready) \in Nat /\ Len(Unsent) \in 0 .. SqSize /\ Len(backlog) \in Nat
           /\ IsFiniteSet(running) /\ Cardinality(running) \in 0 .. PoolThreads
           /\ Waiting \in Nat /\ Load \in Nat /\ Len(todo) \in Nat /\ Len(updates) \in Nat
<1>1. Len(Ready) \in Nat
  BY ReadyFacts DEF Inv, Base
<1>2. Len(Unsent) \in 0 .. SqSize
  <2>1. Len(Unsent) = Gap(IdxMod, sq_tail, From)
    BY UnsentIs DEF Inv, Base, Typed
  <2>2. Gap(IdxMod, sq_tail, From) <= SqSize /\ Len(Unsent) \in Nat
    BY LenProperties DEF Inv, Base, Typed, Bounded, Placed
  <2> QED BY <2>1, <2>2, SizeFacts
<1>3. Len(backlog) \in Nat
  BY LenProperties DEF Inv, Base, Typed, TypeOK
<1>4. IsFiniteSet(running) /\ Cardinality(running) \in 0 .. PoolThreads
  <2> DEFINE b == running \cup posted
  <2>1. IsFiniteSet(b) /\ Cardinality(b) <= PoolThreads /\ Cardinality(b) \in Nat
    BY CrewFits, BotFacts DEF Inv
  <2>2. running \subseteq b
    OBVIOUS
  <2> HIDE DEF b
  <2>3. IsFiniteSet(running) /\ Cardinality(running) <= Cardinality(b)
        /\ Cardinality(running) \in Nat
    BY <2>1, <2>2, FS_Subset, FS_CardinalityType
  <2> QED BY <2>1, <2>3, SizeFacts
<1>5. Len(todo) \in Nat /\ Len(updates) \in Nat
  BY LenProperties DEF Inv, InOrder, Follows, MainTyped
<1> QED BY <1>1, <1>2, <1>3, <1>4, <1>5, SizeFacts DEF Waiting, Load

\* The lengths of a sequence one longer and of one shorter.
LEMMA TailLen ==
    ASSUME NEW S, NEW s \in Seq(S), s # <<>>
    PROVE  Len(Tail(s)) = Len(s) - 1 /\ Len(s) \in Nat \ {0}
  BY EmptySeq, LenProperties, HeadTailProperties

\* The set `running` with one request more, and with one less.
LEMMA MoreRunning ==
    ASSUME Inv, NEW r
    PROVE  Cardinality(running \cup {r}) \in Nat
           /\ Cardinality(running \cup {r}) <= Cardinality(running) + 1
<1>1. IsFiniteSet(running) /\ Cardinality(running) \in Nat
  BY CountsAre, FS_CardinalityType
<1>2. /\ IsFiniteSet(running \cup {r})
      /\ Cardinality(running \cup {r}) \in {Cardinality(running), Cardinality(running) + 1}
  <2> PICK b : b = running
    OBVIOUS
  <2> QED BY <1>1, FS_AddElement
<1> QED BY <1>1, <1>2

LEMMA LessRunning ==
    ASSUME Inv, NEW r \in running
    PROVE  Cardinality(running \ {r}) = Cardinality(running) - 1
           /\ Cardinality(running) \in Nat \ {0}
<1>1. IsFiniteSet(running) /\ Cardinality(running) \in Nat
  BY CountsAre, FS_CardinalityType
<1>2. Cardinality(running \ {r}) = Cardinality(running) - 1 /\ IsFiniteSet(running \ {r})
  BY <1>1, FS_RemoveElement
<1>3. Cardinality(running \ {r}) \in Nat
  BY <1>2, FS_CardinalityType
<1> QED BY <1>1, <1>2, <1>3

----------------------------------------------------------------------------
(* The line of the requests no thread has taken yet: those in the submission  *)
(* ring, behind those in the work queue.                                      *)

\* A poll is armed behind the batch before it, so it is the last of the line; once a
\* thread has taken it the line is empty, until the next batch is handed over.
NoneButLast(s) == \A k \in 1 .. Len(s) - 1 : s[k] \notin Calls

InLine ==
    /\ NoneButLast(Unsent) /\ NoneButLast(backlog)
    /\ Calls \cap Punted # {} => Unsent = <<>>
    /\ Calls \cap running # {} \/ Unread # {} => Unsent = <<>> /\ backlog = <<>>
    /\ Len(updates) <= BatchMax
    /\ Len(backlog) + Len(Unsent) + Len(todo)
          <= IF HandsOver THEN BatchMax ELSE BatchMax + 1

LEMMA TailLast ==
    ASSUME NEW S, NEW s \in Seq(S), s # <<>>, NoneButLast(s)
    PROVE  NoneButLast(Tail(s)) /\ (Head(s) \in Calls => Tail(s) = <<>>)
<1>1. /\ Len(s) \in Nat \ {0} /\ Tail(s) \in Seq(S) /\ Len(Tail(s)) = Len(s) - 1
      /\ Head(s) = s[1] /\ \A k \in 1 .. Len(s) - 1 : Tail(s)[k] = s[k + 1]
  <2>1. Head(s) = s[1]
    OBVIOUS
  <2> QED BY <2>1, TailLen, HeadTailProperties
<1>2. ASSUME NEW k \in 1 .. Len(Tail(s)) - 1 PROVE Tail(s)[k] \notin Calls
  <2>1. k \in 1 .. Len(s) - 1 /\ k + 1 \in 1 .. Len(s) - 1
    BY <1>1
  <2> QED BY <1>1, <2>1 DEF NoneButLast
<1>3. Head(s) \in Calls => Tail(s) = <<>>
  <2> SUFFICES ASSUME Head(s) \in Calls PROVE Len(Tail(s)) = 0
    BY <1>1, EmptySeq
  <2>1. 1 \notin 1 .. Len(s) - 1
    BY <1>1 DEF NoneButLast
  <2> QED BY <1>1, <2>1
<1> QED BY <1>2, <1>3 DEF NoneButLast

LEMMA AppendLast ==
    ASSUME NEW S, NEW s \in Seq(S), NEW r \in S, Calls \cap ElemsOf(s) = {}
    PROVE  NoneButLast(Append(s, r)) /\ Len(Append(s, r)) = Len(s) + 1
<1>1. /\ Len(s) \in Nat /\ Len(Append(s, r)) = Len(s) + 1
      /\ \A k \in 1 .. Len(s) : Append(s, r)[k] = s[k]
  BY LenProperties, AppendProperties
<1>2. ASSUME NEW k \in 1 .. Len(Append(s, r)) - 1 PROVE Append(s, r)[k] \notin Calls
  <2>1. k \in 1 .. Len(s)
    BY <1>1
  <2>2. s[k] \in ElemsOf(s)
    BY <2>1 DEF ElemsOf
  <2> QED BY <1>1, <2>1, <2>2
<1> QED BY <1>1, <1>2 DEF NoneButLast

\* A request that passes on keeps its place in the line, or leaves it first.
LEMMA PassInLine ==
    ASSUME Inv, InLine, Passes, UNCHANGED <<todo, updates>>,
           HandsOver' = HandsOver, Unread' = Unread
    PROVE  InLine'
<1>1. /\ Unsent \in Seq(Reqs) /\ backlog \in Seq(Reqs) /\ Len(Unsent) \in Nat
      /\ Len(backlog) \in Nat /\ Len(todo) \in Nat /\ BatchMax \in Nat
  BY CountsAre, BacklogTyped, BotFacts DEF Inv, Base, Placed
<1> DEFINE Fits(b, u) ==
        Len(b) + Len(u) + Len(todo) <= IF HandsOver THEN BatchMax ELSE BatchMax + 1
<1>2. Fits(backlog, Unsent) /\ Len(updates) <= BatchMax
  BY DEF InLine
<1>3. CASE Unsent' = Unsent /\ UNCHANGED <<backlog, running>>
  BY <1>3 DEF InLine, NoneButLast, Punted
<1>4. CASE Answers \/ Forgets
  <2>1. Unsent # <<>> /\ Unsent' = Tail(Unsent) /\ UNCHANGED <<backlog, running>>
    BY <1>4 DEF Answers, Forgets
  <2>2. PICK u : u = Tail(Unsent)
    OBVIOUS
  <2>3. NoneButLast(u) /\ Len(u) = Len(Unsent) - 1
    BY <1>1, <2>1, <2>2, TailLast, TailLen DEF InLine
  <2>4. Calls \cap Punted = {} /\ Calls \cap running = {} /\ Unread = {}
    BY <2>1 DEF InLine
  <2>5. Fits(backlog, u)
    BY <1>1, <1>2, <2>3
  <2> QED BY <1>2, <2>1, <2>2, <2>3, <2>4, <2>5 DEF InLine, NoneButLast, Punted
<1>5. CASE Punts
  <2>1. /\ Unsent # <<>> /\ Unsent' = Tail(Unsent) /\ running' = running
        /\ backlog' = Append(backlog, Head(Unsent)) /\ Head(Unsent) \in Reqs
    BY <1>1, <1>5, HeadTailProperties DEF Punts
  <2>2. PICK u, b : u = Tail(Unsent) /\ b = Append(backlog, Head(Unsent))
    OBVIOUS
  <2>3. Calls \cap Punted = {} /\ Calls \cap running = {} /\ Unread = {}
    BY <2>1 DEF InLine
  <2>4. /\ NoneButLast(u) /\ Len(u) = Len(Unsent) - 1
        /\ Head(Unsent) \in Calls => u = <<>>
    BY <1>1, <2>1, <2>2, TailLast, TailLen DEF InLine
  <2>5. NoneButLast(b) /\ Len(b) = Len(backlog) + 1
    BY <1>1, <2>1, <2>2, <2>3, AppendLast DEF Punted
  <2>6. Punted' = Punted \cup {Head(Unsent)}
    BY <1>5, PuntAdds DEF Inv, Base
  <2>7. Fits(b, u)
    BY <1>1, <1>2, <2>4, <2>5
  <2>8. NoneButLast(Unsent)' /\ NoneButLast(backlog)' /\ Fits(b, u) = Fits(backlog, Unsent)'
    BY <2>1, <2>2, <2>4, <2>5 DEF NoneButLast
  <2> QED BY <1>2, <2>1, <2>2, <2>3, <2>4, <2>6, <2>7, <2>8 DEF InLine
<1>6. CASE Takes
  <2>1. /\ backlog # <<>> /\ backlog' = Tail(backlog) /\ Unsent' = Unsent
        /\ running' = running \cup {Head(backlog)}
    BY <1>6 DEF Takes
  <2>2. PICK b : b = Tail(backlog)
    OBVIOUS
  <2>3. /\ NoneButLast(b) /\ Len(b) = Len(backlog) - 1
        /\ Head(backlog) \in Calls => b = <<>>
    BY <1>1, <2>1, <2>2, TailLast, TailLen DEF InLine
  <2>4. Head(backlog) \in Punted /\ Punted' = Punted \ {Head(backlog)}
    BY <1>6, TakeRemoves DEF Inv, Base
  <2>5. Calls \cap running = {} /\ Unread = {}
    BY <2>1 DEF InLine
  <2>6. Head(backlog) \in Calls => Unsent = <<>>
    BY <2>4 DEF InLine
  <2>7. Fits(b, Unsent)
    BY <1>1, <1>2, <2>3
  <2>8. NoneButLast(Unsent)' /\ NoneButLast(backlog)' /\ Fits(b, Unsent) = Fits(backlog, Unsent)'
    BY <2>1, <2>2, <2>3 DEF NoneButLast, InLine
  <2> QED BY <1>2, <2>1, <2>2, <2>3, <2>4, <2>5, <2>6, <2>7, <2>8 DEF InLine
<1> QED BY <1>3, <1>4, <1>5, <1>6 DEF Passes, Stays, Deletes

\* An entry is filled at the end of the line, while no poll is under way.
LEMMA GetInLine ==
    ASSUME Inv, InLine, NEW r \in Reqs, GetSqe(r), HandsOver,
           Len(updates') <= BatchMax, Len(todo') \in Nat,
           HandsOver' => Len(todo') + 1 <= Len(todo), Len(todo') <= Len(todo)
    PROVE  InLine'
<1>1. /\ Unsent \in Seq(Reqs) /\ Len(Unsent) \in Nat /\ Len(backlog) \in Nat
      /\ Len(todo) \in Nat /\ BatchMax \in Nat
  BY CountsAre, BotFacts DEF Inv, Base, Placed
<1>2. Unsent' = Append(Unsent, r) /\ UNCHANGED <<backlog, running>>
  BY GetMoves DEF Inv, Base, Gets
<1>3. Unread' = Unread
  BY DEF GetSqe, Unread, Ready, cq
<1>4. /\ Calls \cap Sent = {} /\ Calls \cap Punted = {} /\ Calls \cap running = {}
      /\ Unread = {}
  BY DEF Inv, OnePoll, Open, Underway
<1>5. PICK u : u = Append(Unsent, r)
  OBVIOUS
<1>6. NoneButLast(u) /\ Len(u) = Len(Unsent) + 1
  BY <1>1, <1>4, <1>5, AppendLast DEF Sent
<1>7. NoneButLast(Unsent)' /\ NoneButLast(backlog)' /\ Punted' = Punted
  BY <1>2, <1>5, <1>6 DEF NoneButLast, Punted, InLine
<1>8. Len(backlog') + Len(Unsent') + Len(todo') <= IF HandsOver' THEN BatchMax ELSE BatchMax + 1
  <2>1. Len(backlog) + Len(Unsent) + Len(todo) <= BatchMax
    BY DEF InLine
  <2>2. PICK t : t = Len(todo')
    OBVIOUS
  <2>3. Len(backlog) + (Len(Unsent) + 1) + t <= IF HandsOver' THEN BatchMax ELSE BatchMax + 1
    BY <1>1, <2>1, <2>2
  <2> QED BY <1>2, <1>5, <1>6, <2>2, <2>3
<1> QED BY <1>2, <1>3, <1>4, <1>7, <1>8 DEF InLine

\* What a thread executes is out of the line, and a poll was the end of it.
LEMMA ExecInLine ==
    ASSUME Inv, InLine, NEW r \in Reqs, HandleUpdate(r) \/ PollAnswered(r) \/ PollIdle(r)
    PROVE  InLine'
<1>1. Exec(r) /\ todo' = todo /\ HandsOver' = HandsOver /\ (HandleUpdate(r) => r \notin Calls)
  BY BotFacts DEF HandleUpdate, PollAnswered, PollIdle, main, HandsOver
<1>2. /\ Unsent' = Unsent /\ backlog' = backlog /\ r \in running /\ running' \subseteq running
  BY <1>1, ExecMoves DEF Inv, Base, Executes
<1>3. r \notin Calls => Unread' = Unread
  BY <1>1, ExecUnread DEF Inv, Base
<1>4. Len(updates') <= BatchMax
  <2>1. CASE HandleUpdate(r)
    BY <2>1 DEF HandleUpdate, InLine
  <2>2. CASE PollAnswered(r)
    <3>1. PICK hi \in offset .. published :
              hi - offset < BatchMax /\ updates' = Ids(offset, hi)
      BY <2>2 DEF PollAnswered
    <3>2. offset \in Nat /\ published \in Nat /\ BatchMax \in Nat
      BY BotFacts DEF Inv, MainTyped, InOrder
    <3>3. Len(Ids(offset, hi)) = hi - offset + 1
      <4>1. hi - offset + 1 \in Nat
        BY <3>1, <3>2
      <4> PICK n : n = hi - offset + 1
        OBVIOUS
      <4>2. Ids(offset, hi) = [k \in 1 .. n |-> offset + k - 1]
        BY DEF Ids
      <4> QED BY <4>1, <4>2
    <3> QED BY <3>1, <3>2, <3>3
  <2>3. CASE PollIdle(r)
    <3>1. Len(<<>>) = 0 /\ BatchMax \in Nat
      BY EmptySeq, BotFacts
    <3> QED BY <2>3, <3>1 DEF PollIdle, InLine
  <2> QED BY <2>1, <2>2, <2>3
<1>5. /\ NoneButLast(Unsent)' /\ NoneButLast(backlog)' /\ Punted' = Punted
      /\ Len(backlog') + Len(Unsent') + Len(todo')
            <= IF HandsOver' THEN BatchMax ELSE BatchMax + 1
  BY <1>1, <1>2 DEF InLine, NoneButLast, Punted
<1> QED BY <1>2, <1>3, <1>4, <1>5 DEF InLine

LEMMA ReapInLine == ASSUME Inv, InLine, MainReaps PROVE InLine'
<1>1. /\ LoadHeadCqe /\ pc = "reap" /\ updates' = updates /\ todo = <<>>
  BY DEF MainReaps, Inv, InOrder
<1>2. /\ Unsent' = Unsent /\ UNCHANGED <<backlog, running>>
  BY <1>1, ClientStays DEF Stays
<1>3. /\ seen + 1 \in 1 .. Len(Ready) /\ seen \in Nat /\ Unread' \subseteq Unread
      /\ Ready[seen + 1] = cqes[(cq_head + seen) % CqSize]
  BY <1>1, ReapUnread, ReadyFacts DEF Inv, Base
<1>4. \/ /\ Ready[seen + 1] \in Calls /\ HandsOver'
         /\ todo' = <<>> \/ todo' = updates
      \/ ~HandsOver' /\ todo' = todo
  BY <1>1, <1>3 DEF MainReaps, IsPoll, HandsOver
<1>5. Len(backlog') + Len(Unsent') + Len(todo') <= IF HandsOver' THEN BatchMax ELSE BatchMax + 1
  <2>1. CASE Ready[seen + 1] \in Calls /\ HandsOver' /\ (todo' = <<>> \/ todo' = updates)
    <3>1. seen + 1 \in Unread
      BY <1>3, <2>1 DEF Unread
    <3>2. Len(Unsent) = 0 /\ Len(backlog) = 0 /\ Len(<<>>) = 0
      BY <3>1, EmptySeq DEF InLine
    <3>3. Len(updates) <= BatchMax /\ Len(updates) \in Nat /\ BatchMax \in Nat
      BY CountsAre, BotFacts DEF InLine
    <3>4. Len(todo') <= BatchMax /\ Len(todo') \in Nat
      BY <2>1, <3>2, <3>3
    <3> QED BY <1>2, <2>1, <3>2, <3>4
  <2>2. CASE ~HandsOver' /\ todo' = todo
    BY <1>1, <1>2, <2>2 DEF InLine, HandsOver
  <2> QED BY <1>4, <2>1, <2>2
<1> QED BY <1>1, <1>2, <1>3, <1>5 DEF InLine, NoneButLast, Punted

LEMMA InitInLine == BotInit => InLine
<1> SUFFICES ASSUME BotInit PROVE InLine
  OBVIOUS
<1>1. Init /\ Inv
  BY InitInv DEF BotInit
<1>2. /\ backlog = <<>> /\ todo = <<>> /\ updates = <<>> /\ running = {} /\ seen = 0
  BY <1>1 DEF BotInit, Init
<1>3. Unsent = <<>> /\ Len(Ready) = 0
  <2>1. cq_head = cq_tail /\ From = sq_tail /\ Typed
    BY <1>1 DEF Init, From, Inv, Base
  <2>2. Len(Unsent) = Gap(IdxMod, sq_tail, From)
    BY <2>1, UnsentIs DEF Typed
  <2>3. Len(Unsent) = 0
    BY <2>1, <2>2, SizeFacts, IndexTyped, GapZero DEF Typed
  <2> QED BY <1>1, <2>1, <2>3, EmptySeq, ReadyEmpty DEF Inv, Base, Placed
<1>4. Unread = {} /\ Punted = {}
  BY <1>2, <1>3, EmptyElems DEF Unread, Punted
<1>5. Len(<<>>) = 0 /\ BatchMax \in Nat
  BY EmptySeq, BotFacts
<1> QED BY <1>2, <1>3, <1>4, <1>5 DEF InLine, NoneButLast

LEMMA InLineKept == Inv /\ InLine /\ [BotNext]_botVars => InLine'
<1> SUFFICES ASSUME Inv, InLine, [BotNext]_botVars PROVE InLine'
  OBVIOUS
<1>1. CASE UNCHANGED botVars
  <2>1. /\ Passes /\ Unread' = Unread /\ UNCHANGED <<todo, updates>>
        /\ HandsOver' = HandsOver
    BY <1>1, StutterStays DEF botVars, vars, cq, main, Passes, Unread, Ready, HandsOver
  <2> QED BY <2>1, PassInLine
<1>2. CASE Quiet
  BY <1>2, QuietIs, PassInLine
<1>3. CASE ArmUpdateSqe
  <2>1. PICK p \in Calls : p = FreshPoll
    BY <1>3, FreshIsFree DEF ArmUpdateSqe, Inv, OnePoll, HandsOver
  <2>2. /\ GetSqe(p) /\ p \in Reqs /\ HandsOver /\ ~HandsOver'
        /\ updates' = <<>> /\ todo' = todo
    BY <1>3, <2>1, BotFacts DEF ArmUpdateSqe, GetSqe, HandsOver
  <2>3. Len(updates') <= BatchMax /\ Len(todo') \in Nat /\ Len(todo') <= Len(todo)
    BY <2>2, CountsAre, EmptySeq, BotFacts
  <2> QED BY <2>2, <2>3, GetInLine
<1>4. CASE PrepUpdateHandle
  <2>1. /\ todo \in Seq(Handles) /\ todo # <<>> /\ todo' = Tail(todo)
        /\ updates' = updates /\ HandsOver
    BY <1>4 DEF PrepUpdateHandle, Inv, InOrder, Follows, HandsOver
  <2>2. PICK u \in Handles : u = Head(todo)
    BY <2>1, HeadTailProperties
  <2>3. GetSqe(u) /\ u \in Reqs
    BY <1>4, <2>2, BotFacts DEF PrepUpdateHandle, GetSqe
  <2>4. Len(todo') = Len(todo) - 1 /\ Len(todo) \in Nat \ {0}
    BY <2>1, TailLen
  <2>5. Len(updates') <= BatchMax
    BY <2>1 DEF InLine
  <2> QED BY <2>1, <2>3, <2>4, <2>5, GetInLine
<1> QED BY <1>1, <1>2, <1>3, <1>4, StepsAre, ReapInLine, ExecInLine

LEMMA AlwaysInLine == BotSpec => [](Inv /\ InLine)
  BY InitInv, InvKept, InitInLine, InLineKept, PTL DEF BotSpec

\* A submission that finds no room would have more behind it in the line than a
\* batch and a poll.
LEMMA NeverBlockedKept == Inv /\ InLine /\ NeverBlocked /\ [BotNext]_botVars => NeverBlocked'
<1> SUFFICES ASSUME Inv, InLine, RoomInQueue, queuer = "out", [BotNext]_botVars
             PROVE  queuer' = "out"
  BY DEF NeverBlocked, RoomInQueue
<1>1. ~SubmitSleeps
  <2> SUFFICES ASSUME SubmitSleeps PROVE FALSE
    OBVIOUS
  <2>1. Unsent # <<>> /\ PoolCap <= Len(backlog)
    <3>1. client = "submitting" /\ cursor # sq_tail /\ ~(Len(backlog) < PoolCap)
      BY DEF SubmitSleeps, PoolHasRoom
    <3>2. Len(backlog) \in Nat /\ PoolCap \in Nat
      BY CountsAre, SizeFacts
    <3> QED BY <3>1, <3>2, CursorTakes DEF Inv, Base, Typed
  <2>2. Len(Unsent) \in Nat \ {0}
    BY <2>1, TailLen DEF Inv, Base, Placed
  <2>3. Len(backlog) + Len(Unsent) + Len(todo) <= BatchMax + 1
    BY BotFacts DEF InLine
  <2> QED BY <2>1, <2>2, <2>3, CountsAre, SizeFacts, BotFacts DEF RoomInQueue
<1>2. CASE Quiet
  BY <1>1, <1>2 DEF Quiet, ProcessDone, MainSubmits, MainInSubmit, MainWaits, MainAdvances,
         PoolTakes, PoolFinishes, PoolDeletes, MainWokenUp, Publish, SubmitBegin, SubmitPunt,
         SubmitFails, SubmitEnd, WaitCqe, ResumeWaitCqe, CqAdvance, StartWork, Finish,
         WakeQueuer, Delete, SpuriousWakeup, SpuriousRetry, unchangedByWait, unchangedByReap,
         pool, vars
<1>3. CASE ArmUpdateSqe \/ PrepUpdateHandle \/ MainReaps \/ UNCHANGED botVars
  BY <1>3 DEF ArmUpdateSqe, PrepUpdateHandle, MainReaps, GetSqe, LoadHeadCqe,
              unchangedByReap, pool, botVars, vars
<1>4. ASSUME NEW r \in Reqs, HandleUpdate(r) \/ PollAnswered(r) \/ PollIdle(r)
      PROVE  queuer' = "out"
  BY <1>4 DEF HandleUpdate, PollAnswered, PollIdle, Exec
<1> QED BY <1>2, <1>3, <1>4, StepsAre

\* The main thread never sleeps in queue_work when the work queue has room for more
\* than a batch, however slow the threads are: what the last poll left behind has been
\* taken when the next batch comes.  So the bot does not depend on the wake-up that
\* core/workqueue.c gives only beside another work.
THEOREM MainNeverBlocked == BotSpec => []NeverBlocked
<1>1. BotInit => NeverBlocked
  BY DEF BotInit, Init, NeverBlocked
<1>2. Inv /\ InLine /\ NeverBlocked /\ [BotNext]_botVars => NeverBlocked'
  BY NeverBlockedKept
<1> QED BY <1>1, <1>2, AlwaysInLine, PTL DEF BotSpec

----------------------------------------------------------------------------
(* What is on its way: the entries, works and executions that are going to    *)
(* post, with the completions that have been posted and not given back.  The  *)
(* loop adds one batch to it, and the poll after the batch, before it gives    *)
(* the completions back.                                                      *)

\* The most that is on its way when the poll begins.
Most == PoolThreads + BatchMax + 1

Counted ==
    /\ client = "submitting" => pc \in {"submit", "arm", "process"}
    /\ seen = 0 => pc # "process" /\ (pc = "arm" => Load = 0)
    /\ pc \in {"submit", "wait"} => Load <= Most
    /\ pc = "reap" /\ Calls \cap Sent = {} => Load <= Most
    /\ pc = "process" => Load + Len(todo) <= Most + BatchMax
    /\ pc = "arm" => Load <= Most + BatchMax
    /\ pc = "reap" => Load <= Most + BatchMax + 1

\* A request that passes on is counted where it comes from and where it goes to.
LEMMA PassWaiting ==
    ASSUME Inv, Passes
    PROVE  Waiting' <= Waiting
<1>1. /\ Len(Unsent) \in Nat /\ Len(backlog) \in Nat /\ Cardinality(running) \in Nat
      /\ Unsent \in Seq(Reqs) /\ backlog \in Seq(Reqs)
  BY CountsAre, BacklogTyped DEF Inv, Base, Placed
<1>2. CASE Unsent' = Unsent /\ UNCHANGED <<backlog, running>>
  BY <1>1, <1>2 DEF Waiting
<1>3. CASE Answers \/ Forgets
  <2>1. Unsent # <<>> /\ Unsent' = Tail(Unsent) /\ UNCHANGED <<backlog, running>>
    BY <1>3 DEF Answers, Forgets
  <2>2. Len(Unsent') = Len(Unsent) - 1
    BY <1>1, <2>1, TailLen
  <2> QED BY <1>1, <2>1, <2>2 DEF Waiting
<1>4. CASE Punts
  <2>1. /\ Unsent # <<>> /\ Unsent' = Tail(Unsent) /\ running' = running
        /\ backlog' = Append(backlog, Head(Unsent))
    BY <1>4 DEF Punts
  <2>2. Len(Unsent') = Len(Unsent) - 1
    BY <1>1, <2>1, TailLen
  <2>3. Len(backlog') = Len(backlog) + 1
    <3>1. Head(Unsent) \in Reqs
      BY <1>1, <2>1, HeadTailProperties
    <3> QED BY <1>1, <2>1, <3>1, AppendProperties
  <2> QED BY <1>1, <2>1, <2>2, <2>3 DEF Waiting
<1>5. CASE Takes
  <2>1. /\ backlog # <<>> /\ backlog' = Tail(backlog) /\ Unsent' = Unsent
        /\ running' = running \cup {Head(backlog)}
    BY <1>5 DEF Takes
  <2>2. Len(backlog') = Len(backlog) - 1
    BY <1>1, <2>1, TailLen
  <2>3. Cardinality(running') \in Nat /\ Cardinality(running') <= Cardinality(running) + 1
    BY <2>1, MoreRunning
  <2> QED BY <1>1, <2>1, <2>2, <2>3 DEF Waiting
<1> QED BY <1>2, <1>3, <1>4, <1>5 DEF Passes, Stays, Deletes

LEMMA GetLoad ==
    ASSUME Inv, NEW r \in Reqs, GetSqe(r)
    PROVE  /\ Load' = Load + 1 /\ Sent' = Sent \cup {r}
           /\ UNCHANGED <<backlog, seen, client>> /\ client # "submitting"
<1>1. Gets(r)
  BY GetMoves DEF Inv, Base
<1>2. Unsent' = Append(Unsent, r) /\ UNCHANGED <<backlog, running>>
  BY <1>1 DEF Gets
<1>3. Len(Unsent') = Len(Unsent) + 1
  BY <1>2, AppendProperties DEF Inv, Base, Placed
<1>4. Ready' = Ready /\ UNCHANGED <<seen, client>> /\ client # "submitting"
  BY DEF GetSqe, cq, Ready
<1>5. Sent' = Sent \cup {r}
  BY <1>1, GetAdds DEF Inv, Base
<1> QED BY <1>2, <1>3, <1>4, <1>5, CountsAre DEF Load, Waiting

\* An execution posts what it was counted for, or loses it.
LEMMA ExecLoad ==
    ASSUME Inv, NEW r \in Reqs, Exec(r)
    PROVE  /\ Load' <= Load /\ Sent' = Sent /\ UNCHANGED <<backlog, seen>>
           /\ client' = "submitting" => client = "submitting"
           /\ 0 < Cardinality(running)
<1>1. Executes(r) /\ seen' = seen
  BY ExecMoves DEF Inv, Base, Exec, unchangedByPool
<1>2. /\ Unsent' = Unsent /\ backlog' = backlog /\ r \in running
      /\ running' = running \ {r}
  BY <1>1 DEF Executes
<1>3. Cardinality(running') = Cardinality(running) - 1 /\ Cardinality(running) \in Nat \ {0}
  BY <1>2, LessRunning
<1>4. Len(Ready') \in {Len(Ready), Len(Ready) + 1}
  <2>1. PICK k : k = WakeClient
    OBVIOUS
  <2>2. PostCqe(r, k)
    BY <2>1 DEF Exec, PostCqe
  <2>3. Ready' = Ready \/ Ready' = Append(Ready, r)
    BY <2>2, PostAppends DEF Inv, Base
  <2>4. Len(Append(Ready, r)) = Len(Ready) + 1
    BY ReadyFacts, AppendProperties DEF Inv, Base
  <2> QED BY <2>3, <2>4
<1>5. client' \in {client, WakeClient}
  BY DEF Exec, PostCqe
<1>6. client' = "submitting" => client = "submitting"
  BY <1>5 DEF WakeClient
<1> QED BY <1>1, <1>2, <1>3, <1>4, <1>6, SentKept, CountsAre DEF Load, Waiting

\* The quiet steps, in the order of the loop.
LEMMA QuietPaces ==
    ASSUME Inv, Counted, Quiet
    PROVE  /\ client' = "submitting" => pc' \in {"submit", "arm", "process"}
           /\ \/ /\ Len(Ready') = Len(Ready) /\ seen' = seen
                 /\ \/ pc' = pc /\ (pc = "reap" => Unsent' = Unsent)
                    \/ pc = "process" /\ pc' = "arm" /\ todo = <<>>
                    \/ pc = "submit" /\ pc' = "wait"
                    \/ pc = "wait" /\ pc' = "reap"
              \/ pc = "reap" /\ pc' = "submit" /\ Len(Ready') = 0
<1>1. client = "submitting" => pc \in {"submit", "arm", "process"}
  BY DEF Counted
<1>2. ASSUME UNCHANGED <<cq, seen>> PROVE Len(Ready') = Len(Ready) /\ seen' = seen
  BY <1>2 DEF Ready, cq
<1>3. CASE Publish \/ ProcessDone
  <2>1. UNCHANGED vars
    BY <1>3 DEF Publish, ProcessDone
  <2>2. Unsent' = Unsent /\ UNCHANGED <<cq, seen, client>>
    BY <2>1, StutterStays DEF vars, Stays
  <2>3. pc' = pc \/ (pc = "process" /\ pc' = "arm" /\ todo = <<>>)
    BY <1>3 DEF Publish, ProcessDone, AfterProcess, main
  <2> QED BY <1>1, <1>2, <2>2, <2>3
<1>4. CASE MainSubmits
  <2>1. /\ UNCHANGED <<cq, seen>> /\ pc' = pc /\ pc \in {"submit", "arm", "process"}
    BY <1>4 DEF MainSubmits, SubmitBegin, unchangedBySubmit, main
  <2> QED BY <1>2, <2>1
<1>5. CASE MainInSubmit
  <2>1. /\ UNCHANGED <<cq, seen>> /\ client = "submitting"
        /\ \/ pc' = pc
           \/ pc = "submit" /\ pc' = "wait" /\ client' = "idle"
    BY <1>5 DEF MainInSubmit, SubmitPunt, SubmitSleeps, SubmitFails, SubmitEnd,
                unchangedBySubmit
  <2> QED BY <1>1, <1>2, <2>1
<1>6. CASE MainWaits
  <2>1. /\ UNCHANGED <<cq, seen>> /\ client' # "submitting"
        /\ pc = "wait" /\ pc' \in {"wait", "reap"}
    BY <1>6 DEF MainWaits, WaitCqe, ResumeWaitCqe, WaitSleeps, unchangedByWait, vars
  <2> QED BY <1>2, <2>1
<1>7. CASE MainAdvances
  <2>1. /\ CqAdvance /\ (cq_head + seen) % IdxMod = cq_tail /\ client' # "submitting"
        /\ pc = "reap" /\ pc' = "submit"
    BY <1>7 DEF MainAdvances, CqAdvance, unchangedByReap
  <2>2. cq_head' = cq_tail'
    BY <2>1 DEF CqAdvance, unchangedByReap
  <2>3. Typed'
    <3>1. [BotNext]_botVars
      BY <1>7 DEF BotNext, MainStep
    <3> QED BY <3>1, BaseKept DEF Base
  <2>4. Len(Ready') = 0
    <3>1. (Typed /\ cq_head = cq_tail => Len(Ready) = 0)'
      BY ReadyEmpty, PTL
    <3> QED BY <2>2, <2>3, <3>1
  <2> QED BY <2>1, <2>4
<1>8. CASE PoolTakes \/ PoolFinishes \/ \E r \in Reqs : PoolDeletes(r)
  <2>1. /\ StartWork \/ Finish \/ \E r \in Reqs : Delete(r)
        /\ UNCHANGED <<cq, seen, client>> /\ pc' = pc
    BY <1>8 DEF PoolTakes, PoolFinishes, PoolDeletes, StartWork, Finish, Delete,
                unchangedByPool, main
  <2>2. Unsent' = Unsent
    BY <2>1, TakeMoves, DeleteMoves DEF Takes, Stays, Deletes, Inv, Base
  <2> QED BY <1>1, <1>2, <2>1, <2>2
<1>9. CASE MainWokenUp
  <2>1. /\ SpuriousWakeup \/ SpuriousRetry
        /\ UNCHANGED <<cq, seen>> /\ pc' = pc /\ client' \in {client, "signalled"}
    BY <1>9 DEF MainWokenUp, SpuriousWakeup, SpuriousRetry, unchangedByWait,
                unchangedBySubmit, main
  <2>2. Unsent' = Unsent
    BY <2>1, ClientStays DEF Stays
  <2> QED BY <1>1, <1>2, <2>1, <2>2
<1> QED BY <1>3, <1>4, <1>5, <1>6, <1>7, <1>8, <1>9 DEF Quiet

\* No more waits than the line and the threads are good for.
LEMMA WaitingFits ==
    ASSUME Inv, InLine
    PROVE  Len(Ready) \in Nat /\ Waiting \in Nat /\ Waiting <= Most
<1>1. Len(backlog) + Len(Unsent) + Len(todo) <= BatchMax + 1
  BY CountsAre, BotFacts DEF InLine
<1> QED BY <1>1, CountsAre, SizeFacts, BotFacts DEF Waiting, Most

LEMMA QuietCounted == ASSUME Inv, Inv', InLine', Counted, Quiet PROVE Counted'
<1>1. Waiting' <= Waiting /\ UNCHANGED <<todo, updates>>
  BY QuietIs, PassWaiting
<1>2. /\ Waiting \in Nat /\ Len(Ready) \in Nat /\ Len(todo) \in Nat /\ Load = Len(Ready) + Waiting
      /\ Load \in Nat
  BY CountsAre DEF Load
<1>3. /\ Waiting' \in Nat /\ Len(Ready') \in Nat /\ Load' = Len(Ready') + Waiting'
      /\ Waiting' <= Most
  <2>1. (Inv /\ InLine => /\ Len(Ready) \in Nat /\ Waiting \in Nat /\ Waiting <= Most)'
    BY WaitingFits, PTL
  <2> QED BY <2>1 DEF Load
<1>4. Most \in Nat /\ BatchMax \in Nat
  BY SizeFacts, BotFacts DEF Most
<1>5. CASE pc = "reap" /\ pc' = "submit" /\ Len(Ready') = 0
  <2>1. client' = "submitting" => pc' \in {"submit", "arm", "process"}
    BY QuietPaces
  <2>2. Load' <= Most
    <3>1. PICK w : w = Waiting'
      OBVIOUS
    <3>2. Load' = 0 + w /\ w \in Nat /\ w <= Most
      BY <1>3, <1>5, <3>1
    <3> QED BY <1>4, <3>2
  <2> QED BY <1>1, <1>5, <2>1, <2>2 DEF Counted
<1>6. CASE /\ Len(Ready') = Len(Ready) /\ seen' = seen
           /\ \/ pc' = pc /\ (pc = "reap" => Unsent' = Unsent)
              \/ pc = "process" /\ pc' = "arm" /\ todo = <<>>
              \/ pc = "submit" /\ pc' = "wait"
              \/ pc = "wait" /\ pc' = "reap"
  <2>1. Load' <= Load /\ Load' \in Nat
    BY <1>1, <1>2, <1>3, <1>6
  <2>2. Unsent' = Unsent => Sent' = Sent
    BY SentKept
  <2>3. client' = "submitting" => pc' \in {"submit", "arm", "process"}
    BY QuietPaces
  <2>4. todo = <<>> => Len(todo) = 0
    BY EmptySeq
  <2>5. CASE pc' = pc /\ (pc = "reap" => Unsent' = Unsent)
    BY <1>1, <1>2, <1>4, <1>6, <2>1, <2>2, <2>3, <2>5 DEF Counted
  <2>6. CASE pc = "process" /\ pc' = "arm" /\ todo = <<>>
    BY <1>1, <1>2, <1>4, <1>6, <2>1, <2>3, <2>4, <2>6 DEF Counted
  <2>7. CASE \/ pc = "submit" /\ pc' = "wait"
             \/ pc = "wait" /\ pc' = "reap"
    BY <1>1, <1>2, <1>4, <1>6, <2>1, <2>3, <2>7 DEF Counted
  <2> QED BY <1>6, <2>5, <2>6, <2>7
<1> QED BY <1>5, <1>6, QuietPaces

\* A poll is armed behind the batch, and an update of the batch takes the place
\* that was kept for it.
LEMMA ArmCounted == ASSUME Inv, Counted, ArmUpdateSqe PROVE Counted'
<1>1. PICK p \in Calls : p = FreshPoll
  BY FreshIsFree DEF ArmUpdateSqe, Inv, OnePoll, HandsOver
<1>2. GetSqe(p) /\ p \in Reqs
  BY <1>1, BotFacts DEF ArmUpdateSqe, GetSqe
<1>3. /\ pc = "arm" /\ pc' = IF seen = 0 THEN "submit" ELSE "reap"
      /\ updates' = <<>> /\ todo' = todo
  BY DEF ArmUpdateSqe
<1>4. /\ Load' = Load + 1 /\ Sent' = Sent \cup {p}
      /\ UNCHANGED <<backlog, seen, client>> /\ client # "submitting"
  BY <1>2, GetLoad
<1>5. Load \in Nat /\ Most \in Nat \ {0} /\ BatchMax \in Nat /\ Len(<<>>) = 0
  BY CountsAre, SizeFacts, BotFacts, EmptySeq DEF Most
<1>6. CASE seen = 0
  <2>1. Load' = 1
    BY <1>3, <1>4, <1>5, <1>6 DEF Counted
  <2> QED BY <1>3, <1>4, <1>5, <1>6, <2>1 DEF Counted
<1>7. CASE seen # 0
  <2>1. Load' <= Most + BatchMax + 1
    BY <1>3, <1>4, <1>5 DEF Counted
  <2> QED BY <1>3, <1>4, <1>5, <1>7, <2>1 DEF Counted
<1> QED BY <1>6, <1>7

LEMMA PrepCounted == ASSUME Inv, Counted, PrepUpdateHandle PROVE Counted'
<1>1. todo \in Seq(Handles) /\ todo # <<>> /\ pc = "process" /\ pc' = pc
      /\ todo' = Tail(todo) /\ updates' = updates
  BY DEF PrepUpdateHandle, Inv, InOrder, Follows
<1>2. PICK u \in Handles : u = Head(todo)
  BY <1>1, HeadTailProperties
<1>3. GetSqe(u) /\ u \in Reqs
  BY <1>2, BotFacts DEF PrepUpdateHandle, GetSqe
<1>4. /\ Load' = Load + 1 /\ UNCHANGED <<backlog, seen, client>> /\ client # "submitting"
  BY <1>3, GetLoad
<1>5. Len(todo') = Len(todo) - 1 /\ Len(todo) \in Nat \ {0}
  BY <1>1, TailLen
<1>6. Load \in Nat /\ Most \in Nat /\ BatchMax \in Nat
  BY CountsAre, SizeFacts, BotFacts DEF Most
<1>7. Load' + Len(todo') <= Most + BatchMax
  BY <1>1, <1>4, <1>5, <1>6 DEF Counted
<1> QED BY <1>1, <1>4, <1>7 DEF Counted

\* The completion of a poll is met with no other poll in the submission ring.
LEMMA ReapCounted == ASSUME Inv, InLine, Counted, MainReaps PROVE Counted'
<1>1. /\ LoadHeadCqe /\ pc = "reap" /\ updates' = updates
      /\ UNCHANGED <<cq_head, cq_tail, cqes, client>> /\ seen' = seen + 1
      /\ client # "submitting"
  BY DEF MainReaps, LoadHeadCqe, unchangedByReap
<1>2. /\ seen + 1 \in 1 .. Len(Ready) /\ seen \in Nat
      /\ Ready[seen + 1] = cqes[(cq_head + seen) % CqSize]
  BY <1>1, ReapUnread, ReadyFacts DEF Inv, Base
<1>3. \/ /\ Ready[seen + 1] \in Calls /\ pc' = "process"
         /\ todo' = <<>> \/ todo' = updates
      \/ pc' = "reap" /\ todo' = todo
  BY <1>1, <1>2 DEF MainReaps, IsPoll
<1>4. Unsent' = Unsent /\ UNCHANGED <<backlog, running>>
  BY <1>1, ClientStays DEF Stays
<1>5. Load' = Load /\ Sent' = Sent
  <2>1. Ready' = Ready /\ Sent' = Sent
    BY <1>1, <1>4, SentKept DEF Ready
  <2>2. Waiting' = Waiting
    BY <1>4, Zenon DEF Waiting
  <2> QED BY <2>1, <2>2, Zenon DEF Load
<1>6. /\ Load \in Nat /\ Most \in Nat /\ BatchMax \in Nat /\ Len(<<>>) = 0
      /\ Len(updates) \in Nat /\ seen' # 0
  BY <1>1, <1>2, CountsAre, SizeFacts, BotFacts, EmptySeq DEF Most
<1>7. CASE Ready[seen + 1] \in Calls /\ pc' = "process" /\ (todo' = <<>> \/ todo' = updates)
  <2>1. Load <= Most
    <3>1. seen + 1 \in Unread
      BY <1>2, <1>7 DEF Unread
    <3>2. Calls \cap Sent = {}
      BY <3>1 DEF Inv, OnePoll, Open, Underway
    <3> QED BY <1>1, <3>2 DEF Counted
  <2>2. Len(todo') <= BatchMax /\ Len(todo') \in Nat
    BY <1>6, <1>7 DEF InLine
  <2>3. Load' + Len(todo') <= Most + BatchMax
    BY <1>5, <1>6, <2>1, <2>2
  <2> QED BY <1>1, <1>4, <1>6, <1>7, <2>2, <2>3 DEF Counted
<1>8. CASE pc' = "reap" /\ todo' = todo
  BY <1>1, <1>4, <1>5, <1>6, <1>8 DEF Counted
<1> QED BY <1>3, <1>7, <1>8

LEMMA ExecCounted ==
    ASSUME Inv, Inv', Counted,
           NEW r \in Reqs, HandleUpdate(r) \/ PollAnswered(r) \/ PollIdle(r)
    PROVE  Counted'
<1>1. Exec(r) /\ pc' = pc /\ todo' = todo
  BY DEF HandleUpdate, PollAnswered, PollIdle, main
<1>2. /\ Load' <= Load /\ Sent' = Sent /\ UNCHANGED <<backlog, seen>>
      /\ client' = "submitting" => client = "submitting"
  BY <1>1, ExecLoad
<1>3. /\ Load \in Nat /\ Len(todo) \in Nat /\ Most \in Nat /\ BatchMax \in Nat
  BY CountsAre, SizeFacts, BotFacts DEF Most
<1>4. Load' \in Nat
  <2>1. (Inv => Load \in Nat)'
    BY CountsAre, PTL
  <2> QED BY <2>1
<1> QED BY <1>1, <1>2, <1>3, <1>4 DEF Counted

LEMMA InitCounted == BotInit => Counted
<1> SUFFICES ASSUME BotInit PROVE Counted
  OBVIOUS
<1>1. Init /\ Inv
  BY InitInv DEF BotInit
<1>2. /\ pc = "arm" /\ client = "idle" /\ Len(<<>>) = 0
      /\ backlog = <<>> /\ todo = <<>> /\ updates = <<>> /\ running = {}
  BY <1>1, EmptySeq DEF BotInit, Init
<1>3. Len(Ready) = 0 /\ Len(Unsent) = 0
  <2>1. cq_head = cq_tail /\ From = sq_tail /\ Typed
    BY <1>1 DEF Init, From, Inv, Base
  <2>2. Len(Unsent) = Gap(IdxMod, sq_tail, From)
    BY <2>1, UnsentIs DEF Typed
  <2> QED BY <2>1, <2>2, ReadyEmpty, SizeFacts, IndexTyped, GapZero DEF Typed
<1>4. Load = 0
  BY <1>2, <1>3, FS_EmptySet DEF Load, Waiting
<1> QED BY <1>2, <1>4, SizeFacts, BotFacts DEF Counted, Most

LEMMA CountedKept == Inv /\ InLine /\ Counted /\ [BotNext]_botVars => Counted'
<1> SUFFICES ASSUME Inv, InLine, Counted, [BotNext]_botVars PROVE Counted'
  OBVIOUS
<1>1. Inv' /\ InLine'
  BY InvKept, InLineKept
<1>2. CASE UNCHANGED botVars
  BY <1>2 DEF botVars, vars, main, server, sq, cq, pool, Counted, Load, Waiting, Ready,
              Sent, Unsent, From
<1> QED BY <1>1, <1>2, StepsAre, QuietCounted, ArmCounted, PrepCounted, ReapCounted,
           ExecCounted

LEMMA AlwaysCounted == BotSpec => [](Inv /\ Counted)
  BY AlwaysInLine, InitCounted, CountedKept, PTL DEF BotSpec

----------------------------------------------------------------------------
(* When no completion is dropped.                                            *)

\* The completion ring takes a batch, those of the works in hand, and the batch after
\* it, which a full submission ring, or one whose indexes have wrapped, submits before
\* the completions are given back.  With the 16384 entries of core/main.c, and the 1024
\* threads of core/ring.c, a batch may have 7679 updates; the server sends 100 at most.
RoomForTwoBatches == PoolThreads + 2 * BatchMax < CqSize

LEMMA RoomLeft ==
    ASSUME RoomForTwoBatches, Inv, Counted, NEW r \in Reqs, Exec(r), cq_head <= cq_tail
    PROVE  ~CqFull
<1> SUFFICES ASSUME CqFull PROVE FALSE
  OBVIOUS
<1>1. 2 * SqSize <= Len(Ready)
  <2>1. /\ cq_head \in 0 .. IdxMod - 1 /\ cq_tail \in 0 .. IdxMod - 1
        /\ CqSize = 2 * SqSize /\ IdxMod \in Nat \ {0} /\ SqSize \in Nat
    BY SizeFacts, IndexTyped DEF Inv, Base, Typed
  <2>2. Len(Ready) = cq_tail - cq_head
    BY <2>1, ReadyIs, GapIs DEF Inv, Base, Typed
  <2> QED BY <2>1, <2>2 DEF CqFull, u32_diff
<1>2. /\ Len(Ready) \in Nat /\ Len(Unsent) \in Nat /\ Len(backlog) \in Nat
      /\ Cardinality(running) \in Nat \ {0} /\ Len(todo) \in Nat /\ Load \in Nat
      /\ Load = Len(Ready) + Len(Unsent) + Len(backlog) + Cardinality(running)
  BY CountsAre, ExecLoad DEF Load, Waiting
<1>3. /\ SqSize \in Nat /\ PoolThreads \in Nat /\ BatchMax \in Nat
      /\ Most + BatchMax <= 2 * SqSize /\ Most <= 2 * SqSize
  BY SizeFacts, BotFacts DEF RoomForTwoBatches, Most
<1>4. 2 * SqSize + 1 + Len(Unsent) <= Load
  BY <1>1, <1>2, <1>3
<1>5. Most \in Nat
  BY <1>3 DEF Most
<1>6. CASE pc \in {"submit", "wait"}
  BY <1>2, <1>3, <1>4, <1>5, <1>6 DEF Counted
<1>7. CASE pc \in {"process", "arm"}
  BY <1>2, <1>3, <1>4, <1>5, <1>7 DEF Counted
<1>8. CASE pc = "reap" /\ Calls \cap Sent = {}
  BY <1>2, <1>3, <1>4, <1>5, <1>8 DEF Counted
<1>9. CASE pc = "reap" /\ Calls \cap Sent # {}
  <2>1. Unsent # <<>>
    BY <1>9, EmptyElems DEF Sent
  <2>2. Len(Unsent) \in Nat \ {0}
    BY <2>1, TailLen DEF Inv, Base, Placed
  <2> QED BY <1>2, <1>3, <1>4, <1>5, <1>9, <2>2 DEF Counted
<1> QED BY <1>6, <1>7, <1>8, <1>9 DEF Inv, MainTyped

\* Only an execution that finds the completion ring full drops a completion.
LEMMA DroppedIs ==
    ASSUME Inv, [BotNext]_botVars, Dropped
    PROVE  \E r \in Reqs : Exec(r) /\ CqFull
<1>1. cq_tail' = cq_tail /\ running' # running /\ backlog' = backlog
  BY BotFacts DEF Dropped
<1>2. ~Quiet
  <2> SUFFICES ASSUME Quiet PROVE FALSE
    OBVIOUS
  <2>1. Takes
    BY <1>1, QuietIs DEF Passes, Stays, Answers, Forgets, Punts, Deletes
  <2>2. Len(backlog') = Len(backlog) - 1 /\ Len(backlog) \in Nat \ {0}
    BY <2>1, TailLen, BacklogTyped DEF Takes, Inv, Base
  <2> QED BY <1>1, <2>2
<1>3. ~ArmUpdateSqe /\ ~PrepUpdateHandle /\ ~MainReaps /\ ~UNCHANGED botVars
  BY <1>1 DEF ArmUpdateSqe, PrepUpdateHandle, MainReaps, GetSqe, LoadHeadCqe, unchangedByReap,
              pool, botVars, vars
<1>4. PICK r \in Reqs : HandleUpdate(r) \/ PollAnswered(r) \/ PollIdle(r)
  BY <1>2, <1>3, StepsAre
<1>5. Exec(r)
  BY <1>4 DEF HandleUpdate, PollAnswered, PollIdle
<1>6. Next1(cq_tail) # cq_tail
  <2>1. IdxMod \in Nat \ {0} /\ 1 \in 0 .. IdxMod /\ cq_tail \in 0 .. IdxMod - 1 /\ 1 < IdxMod
    BY SizeFacts, IndexTyped DEF Inv, Base, Typed
  <2>2. Step(IdxMod, cq_tail, 1) = IF cq_tail + 1 < IdxMod THEN cq_tail + 1
                                   ELSE cq_tail + 1 - IdxMod
    BY <2>1, StepIs
  <2> QED BY <2>1, <2>2, NextIsStep
<1>7. CqFull
  BY <1>1, <1>5, <1>6 DEF Exec, PostCqe
<1> QED BY <1>5, <1>7

\* As long as the completion indexes lie on the same side of a wrap, no completion
\* is dropped, whatever the batches and however the threads of the work queue
\* delay them: the loop gives the completions back before it submits the next
\* poll, so a full ring would need more requests than there can be.
THEOREM RoomBetweenWraps ==
    ASSUME RoomForTwoBatches
    PROVE  BotSpec => [][cq_head <= cq_tail => ~Dropped]_botVars
<1> DEFINE Room == cq_head <= cq_tail => ~Dropped
<1>1. Inv /\ Counted /\ [BotNext]_botVars => Room
  BY DroppedIs, RoomLeft
<1> HIDE DEF Room
<1>2. BotSpec => [][Room]_botVars
  BY <1>1, AlwaysCounted, PTL DEF BotSpec
<1> QED BY <1>2 DEF Room

(* The indexes count the completions, and lie on the two sides of a wrap only  *)
(* after IdxMod of them.  There is one for an update, one for a poll without   *)
(* an answer, and one for a poll that was answered, which brought an update.   *)

\* The updates the server has answered polls with.
Brought == max_update_id + Len(todo) + (IF HandsOver THEN 0 ELSE Len(updates))

Numbered ==
    /\ cq_head <= cq_tail
    /\ cq_tail <= Cardinality(executed) + idle_polls + Brought
    /\ ~HandsOver /\ (Open # {} \/ failed) => updates = <<>>

LEMMA TermsAre ==
    ASSUME Inv
    PROVE  /\ IsFiniteSet(executed) /\ Cardinality(executed) \in 0 .. MaxUpdates
           /\ Brought \in 0 .. MaxUpdates /\ idle_polls \in 0 .. MaxIdlePolls
           /\ max_update_id \in Nat /\ Len(todo) \in Nat /\ Len(updates) \in Nat
           /\ cq_head \in Nat /\ cq_tail \in Nat
<1>1. /\ published \in 0 .. MaxUpdates /\ max_update_id \in 0 .. published
      /\ max_update_id + Len(todo) <= published
      /\ ~HandsOver => max_update_id + Len(updates) <= published
      /\ pc # "process" => todo = <<>>
      /\ executed \subseteq 1 .. max_update_id
  BY DEF Inv, InOrder, Follows
<1>2. MaxUpdates \in Nat /\ Len(todo) \in Nat /\ Len(updates) \in Nat
  BY BotFacts, CountsAre
<1>3. executed \subseteq 1 .. MaxUpdates
  BY <1>1, <1>2
<1>4. /\ IsFiniteSet(1 .. MaxUpdates) /\ Cardinality(1 .. MaxUpdates) = MaxUpdates
  <2>1. 1 \in Int /\ MaxUpdates \in Int /\ MaxUpdates - 1 + 1 = MaxUpdates
    BY <1>2
  <2>2. /\ IsFiniteSet(1 .. MaxUpdates)
        /\ Cardinality(1 .. MaxUpdates)
              = IF 1 > MaxUpdates THEN 0 ELSE MaxUpdates - 1 + 1
    BY <2>1, FS_Interval
  <2> QED BY <1>2, <2>2
<1>5. IsFiniteSet(executed) /\ Cardinality(executed) \in 0 .. MaxUpdates
  <2>1. IsFiniteSet(executed) /\ Cardinality(executed) <= Cardinality(1 .. MaxUpdates)
    BY <1>3, <1>4, FS_Subset
  <2>2. Cardinality(executed) \in Nat
    BY <2>1, FS_CardinalityType
  <2> QED BY <1>2, <1>4, <2>1, <2>2
<1>6. Brought \in 0 .. MaxUpdates
  <2>1. CASE HandsOver
    BY <1>1, <1>2, <2>1 DEF Brought
  <2>2. CASE ~HandsOver
    <3>1. Len(todo) = 0
      BY <1>1, <2>2, EmptySeq DEF HandsOver
    <3> QED BY <1>1, <1>2, <2>2, <3>1 DEF Brought
  <2> QED BY <2>1, <2>2
<1>7. cq_head \in Nat /\ cq_tail \in Nat
  BY IndexTyped, SizeFacts DEF Inv, Base, Typed
<1>8. max_update_id \in Nat
  BY <1>1, <1>2
<1> QED BY <1>2, <1>5, <1>6, <1>7, <1>8 DEF Inv, MainTyped

LEMMA QuietNumbered == ASSUME Inv, Numbered, Quiet PROVE Numbered'
<1>1. /\ UNCHANGED <<updates, failed, todo, max_update_id, idle_polls, executed>>
      /\ HandsOver' = HandsOver
  BY QuietIs
<1>2. Open' \subseteq Open
  BY QuietIs, PassUnderway DEF Inv, Open
<1>3. Brought' = Brought
  BY <1>1 DEF Brought
<1>4. cq_tail' = cq_tail /\ cq_head' \in {cq_head, cq_tail}
  <2>1. CASE MainAdvances
    BY <2>1 DEF MainAdvances, CqAdvance, unchangedByReap
  <2>2. CASE ~MainAdvances
    BY <2>2 DEF Quiet, ProcessDone, MainSubmits, MainInSubmit, MainWaits, PoolTakes,
                PoolFinishes, PoolDeletes, MainWokenUp, Publish, SubmitBegin, SubmitPunt,
                SubmitSleeps, SubmitFails, SubmitEnd, WaitCqe, ResumeWaitCqe, StartWork,
                Finish, Delete, SpuriousWakeup, SpuriousRetry, unchangedBySubmit,
                unchangedByWait, unchangedByPool, cq, vars
  <2> QED BY <2>1, <2>2
<1>5. cq_head' <= cq_tail'
  BY <1>4, TermsAre DEF Numbered
<1>6. cq_tail' <= Cardinality(executed') + idle_polls' + Brought'
  BY <1>1, <1>3, <1>4 DEF Numbered
<1> QED BY <1>1, <1>2, <1>5, <1>6 DEF Numbered

\* Arming, handing over and reaping post nothing, and an update that has been
\* brought is counted until it has been handed over.
LEMMA MainNumbered ==
    ASSUME Inv, Numbered, ArmUpdateSqe \/ PrepUpdateHandle \/ MainReaps
    PROVE  Numbered'
<1>1. UNCHANGED <<cq_head, cq_tail, executed, idle_polls>>
  BY DEF ArmUpdateSqe, PrepUpdateHandle, MainReaps, GetSqe, LoadHeadCqe, unchangedByReap,
         cq, server
<1>2. /\ max_update_id \in Nat /\ Len(todo) \in Nat /\ Len(updates) \in Nat /\ Len(<<>>) = 0
  BY TermsAre, EmptySeq
<1>3. CASE ArmUpdateSqe
  <2>1. /\ HandsOver /\ ~HandsOver' /\ updates' = <<>>
        /\ UNCHANGED <<todo, max_update_id>>
    BY <1>3 DEF ArmUpdateSqe, HandsOver
  <2>2. Brought' = Brought
    BY <1>2, <2>1 DEF Brought
  <2> QED BY <1>1, <2>1, <2>2 DEF Numbered
<1>4. CASE PrepUpdateHandle
  <2>1. HandsOver /\ HandsOver' /\ todo' = Tail(todo) /\ todo # <<>> /\ todo \in Seq(Handles)
    BY <1>4 DEF PrepUpdateHandle, HandsOver, Inv, InOrder, Follows
  <2>2. max_update_id' = max_update_id + 1
    <3>1. PICK t \in Seq(Handles) : t = todo
      BY <2>1
    <3>2. /\ t # <<>> /\ max_update_id \in Nat
          /\ \A k \in 1 .. Len(t) : t[k] = max_update_id + k
      BY <1>2, <2>1, <3>1 DEF Inv, InOrder, Follows
    <3>3. PICK u : u = Head(t) /\ u = max_update_id + 1
      BY <3>1, <3>2, RestFollows
    <3>4. u > max_update_id
      BY <3>2, <3>3
    <3> QED BY <1>4, <3>1, <3>3, <3>4 DEF PrepUpdateHandle, MaxId
  <2>3. Len(todo') = Len(todo) - 1
    BY <2>1, TailLen
  <2>4. Brought' = Brought
    BY <1>2, <2>1, <2>2, <2>3 DEF Brought
  <2> QED BY <1>1, <2>1, <2>4 DEF Numbered
<1>5. CASE MainReaps
  <2>1. /\ pc = "reap" /\ ~HandsOver /\ todo = <<>>
        /\ UNCHANGED <<updates, failed, max_update_id>>
        /\ \/ pc' = "process" /\ todo' = IF failed THEN <<>> ELSE updates
           \/ pc' = pc /\ todo' = todo
    BY <1>5 DEF MainReaps, HandsOver, Inv, InOrder
  <2>2. Open' = Open
    <3>1. Stays
      BY <1>5, ClientStays DEF MainReaps
    <3> QED BY <3>1, SentKept DEF Stays, Open, Underway, Punted
  <2>3. CASE pc' = "process" /\ todo' = IF failed THEN <<>> ELSE updates
    <3>1. HandsOver' /\ todo' = updates
      BY <2>1, <2>3 DEF Numbered, HandsOver
    <3>2. Brought' = Brought
      BY <1>2, <2>1, <3>1 DEF Brought
    <3> QED BY <1>1, <3>1, <3>2 DEF Numbered
  <2>4. CASE pc' = pc /\ todo' = todo
    <3>1. HandsOver' = HandsOver /\ Brought' = Brought
      BY <2>1, <2>4 DEF HandsOver, Brought
    <3> QED BY <1>1, <2>1, <2>2, <3>1 DEF Numbered
  <2> QED BY <2>1, <2>3, <2>4
<1> QED BY <1>3, <1>4, <1>5

\* A completion is one of an update not executed before, of a poll that fails or
\* brings nothing, or of one that brings an update at least.
LEMMA ExecNumbered ==
    ASSUME FewCompletions, Inv, Inv', Numbered,
           NEW r \in Reqs, HandleUpdate(r) \/ PollAnswered(r) \/ PollIdle(r)
    PROVE  Numbered'
<1> DEFINE total == Cardinality(executed) + idle_polls + Brought
<1>1. /\ Exec(r) /\ UNCHANGED <<pc, todo, max_update_id>>
  BY DEF HandleUpdate, PollAnswered, PollIdle, main
<1>2. /\ IsFiniteSet(executed) /\ Cardinality(executed) \in Nat
      /\ Brought \in Nat /\ idle_polls \in Nat /\ max_update_id \in Nat
      /\ Len(todo) \in Nat /\ Len(updates) \in Nat /\ cq_head \in Nat /\ cq_tail \in Nat
      /\ Len(<<>>) = 0 /\ total \in Nat /\ HandsOver' = HandsOver
  BY <1>1, TermsAre, BotFacts, EmptySeq DEF HandsOver
<1>3. /\ Underway' = Underway \ {r} /\ r \in Underway
  BY <1>1, ExecMoves, ExecUnderway DEF Inv, Base
<1>4. /\ total + 1 <= total'
      /\ ~HandsOver' /\ (Open' # {} \/ failed') => updates' = <<>>
  <2>1. CASE HandleUpdate(r)
    <3>1. /\ executed' = executed \cup {r} /\ UNCHANGED <<updates, failed, idle_polls>>
          /\ r \in Handles
      BY <2>1 DEF HandleUpdate, server
    <3>2. r \notin executed
      BY <1>3, <3>1 DEF Handed, Inv, InOrder
    <3>3. Cardinality(executed') = Cardinality(executed) + 1
      BY <1>2, <3>1, <3>2, FS_AddElement
    <3>4. Brought' = Brought
      BY <1>1, <1>2, <3>1 DEF Brought
    <3>5. Open' \subseteq Open
      BY <1>3 DEF Open
    <3>6. total + 1 <= total'
      BY <1>2, <3>1, <3>3, <3>4
    <3> QED BY <1>2, <3>1, <3>5, <3>6 DEF Numbered
  <2>2. CASE PollAnswered(r) \/ PollIdle(r)
    <3>1. r \in Calls /\ executed' = executed
      BY <2>2 DEF PollAnswered, PollIdle
    <3>2. Open = {r} /\ ~HandsOver
      BY <1>3, <3>1 DEF Inv, OnePoll, Open
    <3>3. updates = <<>> /\ Len(updates) = 0
      BY <1>2, <3>2 DEF Numbered
    <3>4. Open' = {}
      BY <1>3, <3>2 DEF Open
    <3>5. CASE PollAnswered(r)
      <4>1. PICK hi \in offset .. published : updates' = Ids(offset, hi)
        BY <3>5 DEF PollAnswered
      <4>2. offset \in Nat /\ published \in Nat
        BY BotFacts DEF Inv, MainTyped, InOrder
      <4>3. Len(Ids(offset, hi)) = hi - offset + 1
        <5>1. hi - offset + 1 \in Nat
          BY <4>1, <4>2
        <5> PICK n : n = hi - offset + 1
          OBVIOUS
        <5>2. Ids(offset, hi) = [k \in 1 .. n |-> offset + k - 1]
          BY DEF Ids
        <5> QED BY <5>1, <5>2
      <4>4. Len(updates') \in Nat \ {0}
        BY <4>1, <4>2, <4>3
      <4>5. Brought' = max_update_id + Len(todo) + Len(updates')
        BY <1>1, <1>2, <3>2 DEF Brought
      <4>6. Brought = max_update_id + Len(todo)
        BY <1>2, <3>2, <3>3 DEF Brought
      <4>7. idle_polls' = idle_polls /\ failed' = FALSE
        BY <3>5 DEF PollAnswered, server
      <4>8. total + 1 <= total'
        <5>1. PICK n \in Nat \ {0} : n = Len(updates')
          BY <4>4
        <5>2. Brought' = Brought + n
          BY <1>2, <4>5, <4>6, <5>1
        <5>3. Cardinality(executed') = Cardinality(executed)
          BY <3>1
        <5>4. total' = Cardinality(executed) + idle_polls + (Brought + n)
          BY <4>7, <5>2, <5>3, Zenon
        <5> QED BY <1>2, <5>4
      <4> QED BY <3>4, <4>7, <4>8
    <3>6. CASE PollIdle(r)
      <4>1. updates' = <<>> /\ idle_polls' = idle_polls + 1
        BY <3>3, <3>6 DEF PollIdle
      <4>2. Brought' = Brought
        BY <1>1, <1>2, <3>3, <4>1 DEF Brought
      <4>3. total + 1 <= total'
        BY <1>2, <3>1, <4>1, <4>2
      <4> QED BY <4>1, <4>3
    <3> QED BY <2>2, <3>5, <3>6
  <2> QED BY <2>1, <2>2
<1>5. total' \in Int /\ total' < IdxMod
  <2>1. (Inv => /\ Cardinality(executed) \in 0 .. MaxUpdates
                /\ Brought \in 0 .. MaxUpdates /\ idle_polls \in 0 .. MaxIdlePolls)'
    BY TermsAre, PTL
  <2>2. /\ Cardinality(executed') \in 0 .. MaxUpdates
        /\ Brought' \in 0 .. MaxUpdates /\ idle_polls' \in 0 .. MaxIdlePolls
    BY <2>1
  <2> QED BY <2>2, SizeFacts, BotFacts DEF FewCompletions
<1>6. cq_tail <= total /\ cq_head <= cq_tail
  BY DEF Numbered
<1>7. IdxMod \in Nat \ {0} /\ cq_tail \in 0 .. IdxMod - 1 /\ 1 \in 0 .. IdxMod
  BY SizeFacts, IndexTyped DEF Inv, Base, Typed
<1> HIDE DEF total
<1>8. cq_head' = cq_head /\ cq_tail' \in {cq_tail, Next1(cq_tail)}
  BY <1>1 DEF Exec, PostCqe, cq
<1>9. Next1(cq_tail) = cq_tail + 1
  <2>1. cq_tail + 1 < IdxMod
    BY <1>2, <1>4, <1>5, <1>6, <1>7
  <2>2. Step(IdxMod, cq_tail, 1) = cq_tail + 1
    BY <1>7, <2>1, StepIs
  <2> QED BY <2>2, NextIsStep
<1>10. cq_head' <= cq_tail' /\ cq_tail' <= total'
  <2>1. PICK m, n : m = total /\ n = total'
    OBVIOUS
  <2>2. /\ m \in Nat /\ n \in Int /\ m + 1 <= n /\ cq_tail <= m
        /\ cq_tail \in Nat /\ cq_head \in Nat
    BY <1>2, <1>4, <1>5, <1>6, <2>1
  <2>3. cq_head' = cq_head /\ (cq_tail' = cq_tail \/ cq_tail' = cq_tail + 1)
    BY <1>8, <1>9
  <2>4. cq_head' <= cq_tail' /\ cq_tail' <= n
    BY <1>6, <2>2, <2>3
  <2> QED BY <2>1, <2>4
<1> QED BY <1>4, <1>10 DEF Numbered, total

LEMMA InitNumbered == BotInit => Numbered
<1> SUFFICES ASSUME BotInit PROVE Numbered
  OBVIOUS
<1>1. /\ cq_head = 0 /\ cq_tail = 0 /\ executed = {} /\ idle_polls = 0 /\ HandsOver
      /\ max_update_id = 0 /\ todo = <<>>
  BY DEF BotInit, Init, HandsOver
<1>2. Brought = 0 /\ Cardinality(executed) = 0
  BY <1>1, EmptySeq, FS_EmptySet DEF Brought
<1> QED BY <1>1, <1>2 DEF Numbered

LEMMA NumberedKept ==
    ASSUME FewCompletions
    PROVE  Inv /\ Numbered /\ [BotNext]_botVars => Numbered'
<1> SUFFICES ASSUME Inv, Numbered, [BotNext]_botVars PROVE Numbered'
  OBVIOUS
<1>1. Inv'
  BY InvKept
<1>2. CASE UNCHANGED botVars
  BY <1>2 DEF botVars, vars, main, server, sq, cq, pool, Numbered, Brought, HandsOver, Open,
              Underway, Sent, Punted, Unsent, From
<1> QED BY <1>1, <1>2, StepsAre, QuietNumbered, MainNumbered, ExecNumbered

LEMMA AlwaysNumbered ==
    ASSUME FewCompletions
    PROVE  BotSpec => [](Inv /\ Counted /\ Numbered)
<1>1. Inv /\ Numbered /\ [BotNext]_botVars => Numbered'
  BY NumberedKept
<1> QED BY <1>1, InitNumbered, AlwaysCounted, PTL DEF BotSpec

\* No completion is ever dropped, as long as there are fewer of them than values of
\* an index: for every number of updates below that, in batches of every size the
\* completion ring has room for, and however the threads interleave.
THEOREM RoomForAll ==
    ASSUME RoomForTwoBatches, FewCompletions
    PROVE  BotSpec => NothingDropped
<1>1. Inv /\ Counted /\ Numbered /\ [BotNext]_botVars => ~Dropped
  BY DroppedIs, RoomLeft DEF Numbered
<1> DEFINE Kept == ~Dropped
<1>2. Inv /\ Counted /\ Numbered /\ [BotNext]_botVars => Kept
  BY <1>1
<1> HIDE DEF Kept
<1>3. BotSpec => [](Inv /\ Counted /\ Numbered)
  BY AlwaysNumbered
<1>4. BotSpec => [][Kept]_botVars
  BY <1>2, <1>3, PTL DEF BotSpec
<1>5. BotSpec => [][RoomForABatch /\ FewCompletions => Kept]_botVars
  BY <1>4, PTL
<1> QED BY <1>5 DEF NothingDropped, Kept

----------------------------------------------------------------------------
(* The bot polls for ever.                                                   *)

\* Between two answers there is a poll under way, or its completion.
Asked == ~HandsOver => Open # {} \/ Unread # {}

\* The completion of a poll is there to be visited when the ring has room.
LEMMA PollPosted ==
    ASSUME Inv, NEW p \in Calls, Exec(p), ~CqFull
    PROVE  Unread' # {}
<1>1. p \in Reqs
  BY BotFacts
<1>2. Ready' = Append(Ready, p) /\ seen' = seen
  <2>1. PICK k : k = WakeClient
    OBVIOUS
  <2>2. PostCqe(p, k)
    BY <2>1 DEF Exec, PostCqe
  <2> QED BY <1>1, <2>2, PostAppends DEF Inv, Base, Exec, unchangedByPool
<1>3. /\ Len(Ready) \in Nat /\ seen \in 0 .. Len(Ready)
      /\ Ready \in Seq(Reqs \cup {NoReq})
  BY ReadyFacts DEF Inv, Base
<1>4. PICK a : a = Append(Ready, p)
  OBVIOUS
<1>5. Len(a) = Len(Ready) + 1 /\ a[Len(Ready) + 1] = p
  BY <1>1, <1>3, <1>4, AppendProperties
<1>6. Unread' = {k \in seen + 1 .. Len(a) : a[k] \in Calls}
  BY <1>2, <1>4 DEF Unread
<1>7. Len(Ready) + 1 \in seen + 1 .. Len(a)
  BY <1>3, <1>5
<1> QED BY <1>5, <1>6, <1>7

LEMMA AskedKept ==
    ASSUME ~PuntMayFail, RoomForTwoBatches, FewCompletions
    PROVE  Inv /\ Counted /\ Numbered /\ Asked /\ [BotNext]_botVars => Asked'
<1> SUFFICES ASSUME Inv, Counted, Numbered, Asked, [BotNext]_botVars PROVE Asked'
  OBVIOUS
<1>1. CASE UNCHANGED botVars
  BY <1>1 DEF botVars, vars, main, server, sq, cq, pool, Asked, HandsOver, Open, Unread,
              Ready, Underway, Sent, Punted, Unsent, From
<1>2. CASE Quiet
  <2>1. Underway' = Underway /\ Unread' = Unread /\ HandsOver' = HandsOver
    BY <1>2, QuietIs, PassUnderway DEF Inv
  <2> QED BY <2>1 DEF Asked, Open
<1>3. CASE ArmUpdateSqe
  <2>1. PICK p \in Calls : p = FreshPoll
    BY <1>3, FreshIsFree DEF ArmUpdateSqe, Inv, OnePoll, HandsOver
  <2>2. GetSqe(p) /\ p \in Reqs
    BY <1>3, <2>1, BotFacts DEF ArmUpdateSqe, GetSqe
  <2>3. Underway' = Underway \cup {p}
    BY <2>2, GetMoves, GetUnderway DEF Inv, Base
  <2> QED BY <2>3 DEF Asked, Open
<1>4. CASE PrepUpdateHandle
  BY <1>4 DEF PrepUpdateHandle, Asked, HandsOver
<1>5. CASE MainReaps
  <2>1. /\ LoadHeadCqe /\ pc = "reap"
    BY <1>5 DEF MainReaps
  <2>2. /\ seen + 1 \in 1 .. Len(Ready)
        /\ Ready[seen + 1] = cqes[(cq_head + seen) % CqSize]
        /\ Unread' = Unread \ {seen + 1}
    BY <2>1, ReapUnread DEF Inv, Base
  <2>3. Ready[seen + 1] \in Calls => HandsOver'
    BY <1>5, <2>2 DEF MainReaps, IsPoll, HandsOver
  <2>4. Ready[seen + 1] \notin Calls => Unread' = Unread
    BY <2>2 DEF Unread
  <2>5. Open' = Open
    BY <2>1, ClientStays, SentKept DEF Stays, Open, Underway, Punted
  <2>6. ~HandsOver
    BY <2>1 DEF HandsOver
  <2> QED BY <2>3, <2>4, <2>5, <2>6 DEF Asked
<1>6. ASSUME NEW r \in Reqs, HandleUpdate(r) PROVE Asked'
  <2>1. Exec(r) /\ r \notin Calls /\ pc' = pc
    BY <1>6, BotFacts DEF HandleUpdate, main
  <2>2. Underway' = Underway \ {r} /\ Unread' = Unread
    BY <2>1, ExecMoves, ExecUnderway, ExecUnread DEF Inv, Base
  <2> QED BY <2>1, <2>2 DEF Asked, Open, HandsOver
<1>7. ASSUME NEW r \in Reqs, PollAnswered(r) \/ PollIdle(r) PROVE Asked'
  <2>1. Exec(r) /\ r \in Calls
    BY <1>7 DEF PollAnswered, PollIdle
  <2>2. ~CqFull
    BY <2>1, RoomLeft DEF Numbered
  <2> QED BY <2>1, <2>2, PollPosted DEF Asked
<1> QED BY <1>1, <1>2, <1>3, <1>4, <1>5, <1>6, <1>7, StepsAre

\* The bot never goes deaf: unless a submission leaves the request out, there is a
\* poll under way, or completed and not visited yet, whenever the main thread is
\* not about to arm one.
THEOREM PollsForEver ==
    ASSUME ~PuntMayFail, RoomForTwoBatches, FewCompletions
    PROVE  BotSpec => []PollingForever
<1>1. Inv /\ Asked => PollingForever
  <2> SUFFICES ASSUME Inv, Asked, pc \notin {"arm", "process"} PROVE Polls # {}
    BY DEF PollingForever
  <2>1. Open # {} \/ Unread # {}
    BY DEF Asked, HandsOver
  <2> QED BY <2>1, PollsAre
<1>2. BotInit => Asked
  BY DEF BotInit, Asked, HandsOver
<1>3. Inv /\ Counted /\ Numbered /\ Asked /\ [BotNext]_botVars => Asked'
  BY AskedKept
<1>4. BotSpec => [](Inv /\ Counted /\ Numbered)
  BY AlwaysNumbered
<1> QED BY <1>1, <1>2, <1>3, <1>4, PTL DEF BotSpec

\* A main thread that sleeps has nothing to reap, and its flag is up.
AwakeWhenDue ==
    client = "asleep" => wait_cqe_cond_flag /\ ~should_stop /\ cq_tail = cq_head

\* Below IdxMod completions the main thread sleeps in gw_ring_wait_cqe only while
\* there is nothing to reap, with the flag up that makes the next completion wake
\* it: what ClientWatched says of every client, without its exception for a wrap.
THEOREM MainNeverOversleeps ==
    ASSUME FewCompletions
    PROVE  BotSpec => [](AwakeWhenDue /\ ClientWatched)
<1>1. Numbered /\ ClientWatched => AwakeWhenDue
  <2> SUFFICES ASSUME Numbered, ClientWatched, client = "asleep"
               PROVE  wait_cqe_cond_flag /\ ~should_stop /\ cq_tail = cq_head
    BY DEF AwakeWhenDue
  <2> QED BY DEF Numbered, ClientWatched
<1>2. BotSpec => [](Inv /\ Counted /\ Numbered)
  BY AlwaysNumbered
<1>3. BotSpec => []ClientWatched
  BY BotUsesRing, SleeperIsWatched
<1> QED BY <1>1, <1>2, <1>3, PTL
=============================================================================

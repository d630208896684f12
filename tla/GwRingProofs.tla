---------------------------- MODULE GwRingProofs ----------------------------
(***************************************************************************)
(* Proofs about the request ring: its indexes keep within the rings, the   *)
(* rings are sequences of which completions leave in order, a request is   *)
(* in one place and its update held as long as it is in one, and the works *)
(* it punts are a client of the pool of WorkPool.                          *)
(***************************************************************************)
EXTENDS GwRing, RingIndexProofs

\* Where the submission ring begins for the next submission, and both rings.
From   == IF client = "submitting" THEN cursor ELSE sq_head
Unsent == RingSeq(From, sq_tail, sqes, IdxMod, SqSize)
Ready  == RingSeq(cq_head, cq_tail, cqes, IdxMod, CqSize)

\* What the types do not say: how far apart the indexes are.
Bounded ==
    /\ Gap(IdxMod, sq_tail, From) <= SqSize
    /\ Gap(IdxMod, cq_tail, cq_head) <= CqSize
    /\ seen <= Gap(IdxMod, cq_tail, cq_head)

Typed == TypeOK /\ Bounded

----------------------------------------------------------------------------
(* The indexes, as the model writes them.                                    *)

LEMMA SizeFacts ==
    /\ SqSize \in Nat \ {0} /\ CqSize \in Nat \ {0} /\ IdxMod \in Nat \ {0}
    /\ CqSize = 2 * SqSize /\ 2 * CqSize < IdxMod
    /\ RingOf(IdxMod, SqSize) /\ RingOf(IdxMod, CqSize)
    /\ PoolCap \in Nat \ {0} /\ PoolThreads \in Nat \ {0} /\ NoReq \notin Reqs
<1>1. /\ SqSize \in Nat \ {0} /\ CqSize = 2 * SqSize /\ CqSize \in Nat \ {0}
      /\ IdxMod \in Nat \ {0} /\ 2 * CqSize < IdxMod /\ IdxMod % CqSize = 0
      /\ PoolCap \in Nat \ {0} /\ PoolThreads \in Nat \ {0} /\ NoReq \notin Reqs
  BY RingAssumption DEF CqSize
<1>2. IdxMod % SqSize = 0
  <2> DEFINE q == IdxMod \div CqSize
  <2>1. q \in Int /\ IdxMod = CqSize * q + 0
    <3>1. q \in Int /\ IdxMod = CqSize * q + (IdxMod % CqSize)
      <4>1. IdxMod \in Int /\ CqSize \in Nat \ {0}
        BY <1>1
      <4> HIDE <1>1
      <4> QED BY <4>1, Division
    <3> HIDE DEF q
    <3> QED BY <1>1, <3>1
  <2>2. 2 * q \in Int /\ IdxMod = SqSize * (2 * q) + 0 /\ 0 \in 0 .. SqSize - 1
    BY <1>1, <2>1
  <2>3. (SqSize * (2 * q) + 0) % SqSize = 0
    BY <1>1, <2>2, Remainder
  <2> QED BY <2>2, <2>3
<1> QED BY <1>1, <1>2 DEF RingOf

LEMMA NextIsStep == ASSUME NEW n PROVE Next1(n) = Step(IdxMod, n, 1)
  BY DEF Next1, Step

LEMMA DistIsGap == ASSUME NEW t, NEW h PROVE Dist(t, h) = Gap(IdxMod, t, h)
  BY DEF Dist, Gap

LEMMA IndexTyped ==
    ASSUME TypeOK
    PROVE  /\ sq_head \in 0 .. IdxMod - 1 /\ sq_tail \in 0 .. IdxMod - 1
           /\ cq_head \in 0 .. IdxMod - 1 /\ cq_tail \in 0 .. IdxMod - 1
           /\ cursor \in 0 .. IdxMod - 1 /\ From \in 0 .. IdxMod - 1
           /\ seen \in 0 .. CqSize
           /\ \A x \in 0 .. SqSize - 1 : sqes[x] \in Reqs \cup {NoReq}
           /\ \A x \in 0 .. CqSize - 1 : cqes[x] \in Reqs \cup {NoReq}
  BY DEF TypeOK, From

\* The code measures a distance by an absolute difference.  It errs only when
\* the indexes lie on the two sides of a wrap, and then says that there is no
\* room, and that there is nothing to reap.
LEMMA RoomIsRoom ==
    ASSUME NEW t \in 0 .. IdxMod - 1, NEW h \in 0 .. IdxMod - 1,
           NEW c \in Nat, c <= CqSize, Gap(IdxMod, t, h) <= c
    PROVE  /\ u32_diff(t, h) < c => Gap(IdxMod, t, h) < c
           /\ u32_diff(h, t) < c => Gap(IdxMod, t, h) < c
<1>1. Gap(IdxMod, t, h) = IF t >= h THEN t - h ELSE t - h + IdxMod
  BY SizeFacts, GapIs
<1> QED BY <1>1, SizeFacts DEF u32_diff

LEMMA NothingIsNothing ==
    ASSUME TypeOK, Bounded, NothingToReap, cq_tail >= cq_head
    PROVE  cq_tail = cq_head
<1>1. Gap(IdxMod, cq_tail, cq_head) = cq_tail - cq_head
  BY SizeFacts, IndexTyped, GapIs
<1> QED BY <1>1, SizeFacts, IndexTyped DEF NothingToReap, AsInt, u32_diff, Bounded

----------------------------------------------------------------------------
(* Types.                                                                    *)

LEMMA InitTyped == Init => Typed
<1> SUFFICES ASSUME Init PROVE TypeOK /\ Bounded
  BY DEF Typed
<1>1. TypeOK
  BY SizeFacts DEF Init, TypeOK, ClientStates, QueuerStates, DestroyerStates
<1>2. Gap(IdxMod, 0, 0) = 0
  BY SizeFacts, GapZero
<1> QED BY <1>1, <1>2, SizeFacts DEF Init, Bounded, From

\* A post is typed, and leaves the completion ring within its bounds.
LEMMA PostTyped ==
    ASSUME Typed, NEW r \in Reqs, NEW woken \in ClientStates, PostCqe(r, woken)
    PROVE  /\ cq_tail' \in 0 .. IdxMod - 1 /\ cq_head' = cq_head
           /\ cqes' \in [0 .. CqSize - 1 -> Reqs \cup {NoReq}]
           /\ client' \in {client, woken}
           /\ Gap(IdxMod, cq_tail', cq_head) <= CqSize
           /\ Gap(IdxMod, cq_tail, cq_head) <= Gap(IdxMod, cq_tail', cq_head)
<1>1. CASE CqFull /\ UNCHANGED <<cq, client>>
  <2>1. cq_head' = cq_head /\ cq_tail' = cq_tail /\ cqes' = cqes /\ client' = client
    BY <1>1 DEF cq
  <2>2. Gap(IdxMod, cq_tail, cq_head) \in 0 .. IdxMod - 1
    BY SizeFacts, IndexTyped, GapIs DEF Typed
  <2> QED BY <2>1, <2>2, IndexTyped DEF Typed, Bounded, TypeOK
<1>2. CASE ~CqFull /\ ~(CqFull /\ UNCHANGED <<cq, client>>)
  <2>1. /\ cqes' = [cqes EXCEPT ![cq_tail % CqSize] = r] /\ cq_head' = cq_head
        /\ cq_tail' = Step(IdxMod, cq_tail, 1) /\ client' = woken
    BY <1>2, NextIsStep DEF PostCqe
  <2>2. /\ IdxMod \in Nat \ {0} /\ CqSize \in Nat \ {0}
        /\ cq_tail \in 0 .. IdxMod - 1 /\ cq_head \in 0 .. IdxMod - 1
        /\ Gap(IdxMod, cq_tail, cq_head) <= CqSize
        /\ Gap(IdxMod, cq_tail, cq_head) \in 0 .. IdxMod - 1
    BY SizeFacts, IndexTyped, GapIs DEF Typed, Bounded
  <2>3. Gap(IdxMod, cq_tail, cq_head) < CqSize
    <3>1. u32_diff(cq_tail, cq_head) < CqSize
      BY <1>2, <2>2 DEF CqFull, u32_diff
    <3> QED BY <2>2, <3>1, RoomIsRoom
  <2>4. Gap(IdxMod, cq_tail', cq_head) = Gap(IdxMod, cq_tail, cq_head) + 1
    BY <2>1, <2>2, <2>3, SizeFacts, GapGrows
  <2>5. 1 \in 0 .. IdxMod
    BY SizeFacts
  <2>6. cq_tail' \in 0 .. IdxMod - 1
    BY <2>1, <2>2, <2>5, StepIs
  <2> QED BY <2>1, <2>2, <2>3, <2>4, <2>6 DEF Typed, TypeOK
<1> QED BY <1>1, <1>2 DEF PostCqe

\* The cursor of a submission moves over one entry.
LEMMA CursorTyped ==
    ASSUME Typed, client = "submitting", cursor # sq_tail, cursor' = Next1(cursor)
    PROVE  /\ cursor' \in 0 .. IdxMod - 1
           /\ Gap(IdxMod, sq_tail, cursor') <= SqSize
<1>1. /\ IdxMod \in Nat \ {0} /\ SqSize \in Nat
      /\ cursor \in 0 .. IdxMod - 1 /\ sq_tail \in 0 .. IdxMod - 1
      /\ Gap(IdxMod, sq_tail, cursor) <= SqSize
      /\ Gap(IdxMod, sq_tail, cursor) \in 0 .. IdxMod - 1
  BY SizeFacts, IndexTyped, GapIs DEF Typed, Bounded, From
<1>2. Gap(IdxMod, sq_tail, cursor) # 0
  BY <1>1, GapZero
<1>3. 1 \in 0 .. Gap(IdxMod, sq_tail, cursor)
  BY <1>1, <1>2
<1>4. /\ Step(IdxMod, cursor, 1) \in 0 .. IdxMod - 1
      /\ Gap(IdxMod, sq_tail, Step(IdxMod, cursor, 1)) = Gap(IdxMod, sq_tail, cursor) - 1
  BY <1>1, <1>3, GapShrinks
<1> QED BY <1>1, <1>4, NextIsStep

\* The fields that most steps leave alone.
LEMMA QuietTyped ==
    ASSUME Typed, UNCHANGED <<sq, cq, cursor, seen>>,
           client' \in ClientStates, client = "submitting" <=> client' = "submitting",
           should_stop' \in BOOLEAN, wait_cqe_cond_flag' \in BOOLEAN,
           destroyer' \in DestroyerStates, backlog' \in Seq(Calls \cup Handles),
           running' \subseteq Calls \cup Handles, posted' \subseteq Calls \cup Handles,
           held' \subseteq Handles, served' \in Nat, queuer' \in QueuerStates
    PROVE  Typed'
<1>1. TypeOK'
  BY DEF Typed, TypeOK, sq, cq
<1>2. Bounded'
  BY DEF Typed, Bounded, From, sq, cq
<1> QED BY <1>1, <1>2 DEF Typed

LEMMA GetTyped == ASSUME Typed, NEW r \in Reqs, GetSqe(r) PROVE Typed'
<1>1. /\ client = "idle" /\ client' = client /\ ~SqFull /\ sq_head' = sq_head
      /\ sq_tail' = Step(IdxMod, sq_tail, 1)
      /\ sqes' = [sqes EXCEPT ![sq_tail % SqSize] = r]
      /\ held' = held \cup ({r} \cap Handles)
      /\ UNCHANGED <<should_stop, wait_cqe_cond_flag, cq_head, cq_tail, cqes, cursor,
                     seen, backlog, running, posted, served, queuer, destroyer>>
  BY NextIsStep DEF GetSqe, cq, pool
<1>2. /\ IdxMod \in Nat \ {0} /\ sq_head \in 0 .. IdxMod - 1
      /\ sq_tail \in 0 .. IdxMod - 1 /\ Gap(IdxMod, sq_tail, sq_head) <= SqSize
      /\ Gap(IdxMod, sq_tail, sq_head) \in 0 .. IdxMod - 1
  BY <1>1, SizeFacts, IndexTyped, GapIs DEF Typed, Bounded, From
<1>3. Gap(IdxMod, sq_tail, sq_head) < SqSize
  <2>1. u32_diff(sq_head, sq_tail) < SqSize
    BY <1>1, <1>2, SizeFacts DEF SqFull, u32_diff
  <2>2. SqSize \in Nat /\ SqSize <= CqSize
    BY SizeFacts
  <2> QED BY <1>2, <2>1, <2>2, RoomIsRoom
<1>4. Gap(IdxMod, sq_tail', sq_head) = Gap(IdxMod, sq_tail, sq_head) + 1
  BY <1>1, <1>2, <1>3, SizeFacts, GapGrows
<1>5. sq_tail' \in 0 .. IdxMod - 1
  <2>1. 1 \in 0 .. IdxMod
    BY SizeFacts
  <2> QED BY <1>1, <1>2, <2>1, StepIs
<1>6. TypeOK'
  BY <1>1, <1>5 DEF Typed, TypeOK
<1>7. Bounded'
  BY <1>1, <1>2, <1>3, <1>4, SizeFacts DEF Typed, Bounded, From
<1> QED BY <1>6, <1>7 DEF Typed

LEMMA SubmitTyped ==
    ASSUME Typed, SubmitBegin \/ SubmitStep
    PROVE  Typed'
<1>1. CASE SubmitBegin
  <2>1. TypeOK'
    BY <1>1, IndexTyped DEF SubmitBegin, unchangedBySubmit, cq, Typed, TypeOK, ClientStates
  <2>2. Bounded'
    BY <1>1 DEF SubmitBegin, unchangedBySubmit, cq, Typed, Bounded, From
  <2> QED BY <2>1, <2>2 DEF Typed
<1>2. CASE SubmitNop
  <2>1. /\ client = "submitting" /\ client \in ClientStates
        /\ Current \in Reqs /\ PostCqe(Current, client)
        /\ UNCHANGED <<should_stop, wait_cqe_cond_flag, seen, running, posted, served,
                       destroyer, sq_tail, sqes, sq_head, backlog, queuer, held>>
    BY <1>2 DEF SubmitNop, unchangedBySubmit, Reqs, ClientStates
  <2>2. /\ cursor' \in 0 .. IdxMod - 1
        /\ Gap(IdxMod, sq_tail, cursor') <= SqSize
    BY <1>2, CursorTyped DEF SubmitNop
  <2>3. /\ cq_tail' \in 0 .. IdxMod - 1 /\ cq_head' = cq_head
        /\ cqes' \in [0 .. CqSize - 1 -> Reqs \cup {NoReq}]
        /\ client' = client
        /\ Gap(IdxMod, cq_tail', cq_head) <= CqSize
        /\ Gap(IdxMod, cq_tail, cq_head) <= Gap(IdxMod, cq_tail', cq_head)
    <3> DEFINE r == Current
               woken == client
    <3> HIDE DEF r, woken
    <3>1. r \in Reqs /\ woken \in ClientStates /\ PostCqe(r, woken)
      BY <2>1 DEF r, woken
    <3>2. PICK q \in Reqs : q = r
      BY <3>1
    <3>3. PICK k \in ClientStates : k = woken
      BY <3>1
    <3>4. PostCqe(q, k)
      BY <2>1, <3>2, <3>3 DEF PostCqe, r, woken
    <3> QED BY <3>2, <3>3, <3>4, PostTyped DEF woken
  <2>4. /\ Gap(IdxMod, cq_tail, cq_head) \in 0 .. IdxMod - 1
        /\ Gap(IdxMod, cq_tail', cq_head) \in 0 .. IdxMod - 1
    BY <2>3, SizeFacts, IndexTyped, GapIs DEF Typed
  <2>5. TypeOK'
    BY <2>1, <2>2, <2>3 DEF Typed, TypeOK
  <2>6. Bounded'
    BY <2>1, <2>2, <2>3, <2>4, IndexTyped, SizeFacts DEF Typed, Bounded, From
  <2> QED BY <2>5, <2>6 DEF Typed
<1>3. CASE SubmitPunt \/ SubmitFails
  <2>1. /\ client = "submitting" /\ client' = client
        /\ UNCHANGED <<should_stop, wait_cqe_cond_flag, seen, running, posted, served,
                       destroyer, sq_tail, sqes, sq_head, cq_head, cq_tail, cqes>>
        /\ queuer' \in {queuer, "out"}
        /\ cursor' \in 0 .. IdxMod - 1 /\ Gap(IdxMod, sq_tail, cursor') <= SqSize
    BY <1>3, CursorTyped DEF SubmitPunt, SubmitFails, unchangedBySubmit, cq
  <2>2. backlog' \in Seq(Calls \cup Handles) /\ held' \subseteq Handles
    <3>1. backlog \in Seq(Calls \cup Handles) /\ held \subseteq Handles
      BY DEF Typed, TypeOK
    <3>2. CASE SubmitPunt
      <4>1. /\ Current \in Calls \cup Handles /\ held' = held
            /\ backlog' = Append(backlog, Current)
        BY <3>2 DEF SubmitPunt
      <4> QED BY <3>1, <4>1, AppendProperties
    <3>3. CASE SubmitFails
      <4>1. backlog' = backlog /\ held' = held \ {Current}
        BY <3>3 DEF SubmitFails, DropUpdate
      <4> QED BY <3>1, <4>1
    <3> QED BY <1>3, <3>2, <3>3
  <2>3. TypeOK'
    BY <2>1, <2>2 DEF Typed, TypeOK, QueuerStates
  <2>4. Bounded'
    BY <2>1 DEF Typed, Bounded, From
  <2> QED BY <2>3, <2>4 DEF Typed
<1>4. CASE SubmitEnd
  <2>1. /\ client = "submitting" /\ client' = "idle" /\ sq_head' = cursor
        /\ UNCHANGED <<should_stop, wait_cqe_cond_flag, seen, running, posted, served,
                       destroyer, sq_tail, sqes, cq_head, cq_tail, cqes, cursor, backlog,
                       queuer, held>>
    BY <1>4 DEF SubmitEnd, HeadAfterSubmit, unchangedBySubmit, cq
  <2>2. TypeOK'
    BY <2>1 DEF Typed, TypeOK, ClientStates
  <2>3. Bounded'
    BY <2>1 DEF Typed, Bounded, From
  <2> QED BY <2>2, <2>3 DEF Typed
<1>5. CASE SubmitSleeps
  <2>1. /\ UNCHANGED <<should_stop, wait_cqe_cond_flag, sq_head, sq_tail, sqes, cq_head,
                       cq_tail, cqes, client, cursor, seen, backlog, running, posted, served,
                       held, destroyer>>
        /\ queuer' \in QueuerStates
    BY <1>5 DEF SubmitSleeps, unchangedBySubmit, cq, QueuerStates
  <2> QED BY <2>1, QuietTyped DEF Typed, TypeOK, sq, cq
<1> QED BY <1>1, <1>2, <1>3, <1>4, <1>5 DEF SubmitStep

\* Reaping: what has been visited is between the indexes.
LEMMA ReapTyped == ASSUME Typed, LoadHeadCqe \/ CqAdvance PROVE Typed'
<1>1. /\ IdxMod \in Nat \ {0} /\ CqSize \in Nat /\ seen \in 0 .. CqSize
      /\ cq_head \in 0 .. IdxMod - 1 /\ cq_tail \in 0 .. IdxMod - 1
      /\ Gap(IdxMod, cq_tail, cq_head) <= CqSize
      /\ Gap(IdxMod, cq_tail, cq_head) \in 0 .. IdxMod - 1
      /\ seen \in 0 .. Gap(IdxMod, cq_tail, cq_head)
  <2>1. /\ IdxMod \in Nat \ {0} /\ CqSize \in Nat /\ seen \in 0 .. CqSize
        /\ cq_head \in 0 .. IdxMod - 1 /\ cq_tail \in 0 .. IdxMod - 1
    BY SizeFacts, IndexTyped DEF Typed
  <2>2. Gap(IdxMod, cq_tail, cq_head) \in 0 .. IdxMod - 1
    BY <2>1, GapIs
  <2>3. seen <= Gap(IdxMod, cq_tail, cq_head) /\ Gap(IdxMod, cq_tail, cq_head) <= CqSize
    BY DEF Typed, Bounded
  <2> QED BY <2>1, <2>2, <2>3
<1>2. /\ Step(IdxMod, cq_head, seen) \in 0 .. IdxMod - 1
      /\ Gap(IdxMod, cq_tail, Step(IdxMod, cq_head, seen))
            = Gap(IdxMod, cq_tail, cq_head) - seen
  BY <1>1, GapShrinks
<1>3. /\ client = "idle" /\ UNCHANGED <<should_stop, wait_cqe_cond_flag, sq_head, sq_tail,
            sqes, cq_tail, cqes, client, cursor, backlog, running, posted, served, queuer,
            held, destroyer>>
  BY DEF LoadHeadCqe, CqAdvance, unchangedByReap, sq, pool
<1>4. CASE LoadHeadCqe
  <2>1. /\ Step(IdxMod, cq_head, seen) # cq_tail /\ seen' = seen + 1 /\ cq_head' = cq_head
    BY <1>4 DEF LoadHeadCqe, Step
  <2>2. Gap(IdxMod, cq_tail, cq_head) - seen # 0
    BY <1>1, <1>2, <2>1, GapZero
  <2>3. TypeOK'
    BY <1>1, <1>3, <2>1, <2>2 DEF Typed, TypeOK
  <2>4. Bounded'
    BY <1>1, <1>3, <2>1, <2>2 DEF Typed, Bounded, From
  <2> QED BY <2>3, <2>4 DEF Typed
<1>5. CASE CqAdvance
  <2>1. cq_head' = Step(IdxMod, cq_head, seen) /\ seen' = 0
    BY <1>5 DEF CqAdvance, Step
  <2>2. TypeOK'
    BY <1>1, <1>2, <1>3, <2>1 DEF Typed, TypeOK
  <2>3. Bounded'
    BY <1>1, <1>2, <1>3, <2>1 DEF Typed, Bounded, From
  <2> QED BY <2>2, <2>3 DEF Typed
<1> QED BY <1>4, <1>5

\* The threads of the work queue.
LEMMA WokenTyped ==
    ASSUME Typed
    PROVE  /\ WakeClient \in ClientStates
           /\ client = "submitting" <=> WakeClient = "submitting"
  BY DEF Typed, TypeOK, WakeClient, ClientStates

LEMMA PoolTyped ==
    ASSUME Typed, StartWork \/ Finish \/ \E r \in Reqs : PoolStep(r)
    PROVE  Typed'
<1>1. /\ served \in Nat /\ queuer \in QueuerStates
      /\ backlog \in Seq(Calls \cup Handles) /\ held \subseteq Handles
      /\ running \subseteq Calls \cup Handles /\ posted \subseteq Calls \cup Handles
      /\ client \in ClientStates /\ destroyer \in DestroyerStates
      /\ should_stop \in BOOLEAN /\ wait_cqe_cond_flag \in BOOLEAN
  BY DEF Typed, TypeOK
<1>2. CASE StartWork \/ Finish
  <2>1. /\ backlog' \in Seq(Calls \cup Handles) /\ running' \subseteq Calls \cup Handles
    <3>1. CASE TakesHead
      <4>1. Head(backlog) \in Calls \cup Handles /\ Tail(backlog) \in Seq(Calls \cup Handles)
        BY <1>1, <3>1, HeadTailProperties DEF TakesHead
      <4> QED BY <1>1, <3>1, <4>1 DEF TakesHead
    <3>2. CASE Rests
      BY <1>1, <3>2 DEF Rests
    <3> QED BY <1>2, <3>1, <3>2 DEF StartWork, Finish
  <2>2. UNCHANGED <<should_stop, wait_cqe_cond_flag, sq, cursor, seen, destroyer, cq, client,
                    posted, held>>
    BY <1>2 DEF StartWork, Finish, unchangedByPool
  <2>3. served' \in Nat /\ queuer' \in QueuerStates
    BY <1>1, <1>2 DEF StartWork, Finish, WakeQueuer, QueuerStates
  <2> QED BY <1>1, <2>1, <2>2, <2>3, QuietTyped
<1>3. ASSUME NEW r \in Reqs, Delete(r) PROVE Typed'
  <2>1. UNCHANGED <<should_stop, wait_cqe_cond_flag, sq, cursor, seen, destroyer, cq, client>>
    BY <1>3 DEF Delete, unchangedByPool
  <2> QED BY <1>1, <1>3, <2>1, QuietTyped DEF Delete, DropUpdate
<1>4. ASSUME NEW r \in Reqs, Exec(r) PROVE Typed'
  <2>1. /\ r \in running /\ running' = running \ {r} /\ posted' = posted \cup {r}
        /\ UNCHANGED <<should_stop, wait_cqe_cond_flag, sq_head, sq_tail, sqes, cursor,
                       seen, destroyer, backlog, served, queuer, held>>
    BY <1>4 DEF Exec, unchangedByPool, sq
  <2>2. /\ cq_tail' \in 0 .. IdxMod - 1 /\ cq_head' = cq_head
        /\ cqes' \in [0 .. CqSize - 1 -> Reqs \cup {NoReq}]
        /\ client' \in {client, WakeClient}
        /\ Gap(IdxMod, cq_tail', cq_head) <= CqSize
        /\ Gap(IdxMod, cq_tail, cq_head) <= Gap(IdxMod, cq_tail', cq_head)
    <3>1. PICK k \in ClientStates : k = WakeClient
      BY WokenTyped
    <3>2. PostCqe(r, k)
      BY <1>4, <3>1 DEF Exec, PostCqe
    <3> QED BY <3>1, <3>2, PostTyped
  <2>3. /\ Gap(IdxMod, cq_tail, cq_head) \in 0 .. IdxMod - 1
        /\ Gap(IdxMod, cq_tail', cq_head) \in 0 .. IdxMod - 1
    BY <2>2, SizeFacts, IndexTyped, GapIs DEF Typed
  <2>4. client' \in ClientStates /\ (client = "submitting" <=> client' = "submitting")
    BY <1>1, <2>2, WokenTyped
  <2>5. TypeOK'
    BY <1>1, <2>1, <2>2, <2>4 DEF Typed, TypeOK
  <2>6. From' = From
    BY <2>1, <2>4 DEF From
  <2>7. Bounded'
    BY <2>1, <2>2, <2>3, <2>6, IndexTyped, SizeFacts DEF Typed, Bounded
  <2> QED BY <2>5, <2>7 DEF Typed
<1> QED BY <1>2, <1>3, <1>4 DEF PoolStep

LEMMA OtherTyped ==
    ASSUME Typed, WaitCqe \/ ResumeWaitCqe \/ DestroyCall \/ DestroyStop \/ DestroyQueue
                  \/ DestroyFree \/ SpuriousWakeup \/ SpuriousRetry
    PROVE  Typed'
<1>1. /\ backlog \in Seq(Calls \cup Handles) /\ held \subseteq Handles
      /\ running \subseteq Calls \cup Handles /\ posted \subseteq Calls \cup Handles
      /\ client \in ClientStates /\ destroyer \in DestroyerStates
      /\ should_stop \in BOOLEAN /\ wait_cqe_cond_flag \in BOOLEAN
      /\ <<>> \in Seq(Calls \cup Handles)
      /\ served \in Nat /\ queuer \in QueuerStates
  BY DEF Typed, TypeOK
<1>2. UNCHANGED <<sq, cq, cursor, seen>>
  BY DEF WaitCqe, ResumeWaitCqe, DestroyCall, DestroyStop, DestroyQueue, DestroyFree,
         SpuriousWakeup, SpuriousRetry, unchangedByWait, unchangedBySubmit, sq, cq
<1>3. CASE WaitCqe \/ ResumeWaitCqe \/ SpuriousWakeup
  <2>1. /\ UNCHANGED <<should_stop, destroyer, backlog, running, posted, served, queuer, held>>
        /\ client' \in ClientStates /\ wait_cqe_cond_flag' \in BOOLEAN
        /\ client # "submitting" /\ client' # "submitting"
    BY <1>1, <1>3 DEF WaitCqe, ResumeWaitCqe, SpuriousWakeup, WaitSleeps, unchangedByWait,
                      pool, ClientStates
  <2> QED BY <1>1, <1>2, <2>1, QuietTyped
<1>4. CASE DestroyStop
  <2>1. /\ UNCHANGED <<wait_cqe_cond_flag, backlog, running, posted, served, queuer, held>>
        /\ client' = WakeClient /\ should_stop' = TRUE /\ destroyer' = "stopping"
    BY <1>4 DEF DestroyStop, pool
  <2>2. destroyer' \in DestroyerStates
    BY <2>1 DEF DestroyerStates
  <2> QED BY <1>1, <1>2, <2>1, <2>2, WokenTyped, QuietTyped
<1>5. CASE DestroyQueue \/ DestroyFree
  <2>1. /\ UNCHANGED <<should_stop, wait_cqe_cond_flag, client, running, posted, served, queuer>>
        /\ backlog' \in {backlog, <<>>} /\ held' \subseteq held
        /\ destroyer' \in {"joining", "freed"}
    BY <1>5 DEF DestroyQueue, DestroyFree, pool
  <2>2. destroyer' \in DestroyerStates
    BY <2>1 DEF DestroyerStates
  <2> QED BY <1>1, <1>2, <2>1, <2>2, QuietTyped
<1>6. CASE DestroyCall \/ SpuriousRetry
  <2>1. /\ UNCHANGED <<should_stop, wait_cqe_cond_flag, client, backlog, running, posted,
                       served, held>>
        /\ queuer' \in QueuerStates /\ destroyer' \in DestroyerStates
    BY <1>1, <1>6 DEF DestroyCall, SpuriousRetry, unchangedBySubmit, pool, QueuerStates,
                      DestroyerStates
  <2> QED BY <1>1, <1>2, <2>1, QuietTyped
<1> QED BY <1>3, <1>4, <1>5, <1>6

LEMMA NextTyped == ASSUME Typed, [Next]_vars PROVE Typed'
<1>1. CASE UNCHANGED vars
  BY <1>1 DEF vars, sq, cq, pool, Typed, TypeOK, Bounded, From
<1>2. CASE Next
  BY <1>2, GetTyped, SubmitTyped, ReapTyped, PoolTyped, OtherTyped DEF Next, ClientStep
<1> QED BY <1>1, <1>2

\* Every field keeps its type; in particular no index leaves 0 .. IdxMod - 1 and
\* no ring is indexed outside its entries, whatever its size.
THEOREM RingTyped == Spec => []TypeOK
<1>1. Typed => TypeOK
  BY DEF Typed
<1> QED BY <1>1, InitTyped, NextTyped, PTL DEF Spec

----------------------------------------------------------------------------
(* The client asleep.                                                        *)

\* An unsent entry is only met while the ring is not being destroyed.
Stopping ==
    /\ should_stop <=> destroyer \notin {"out", "called"}
    /\ client = "submitting" => ~should_stop
    /\ destroyer \in {"joining", "freed"} => backlog = <<>>

Watched == ClientWatched /\ Stopping

LEMMA SubmitStepIs ==
    ASSUME SubmitStep
    PROVE  /\ client = "submitting" /\ client' \in {"submitting", "idle"}
           /\ UNCHANGED <<should_stop, wait_cqe_cond_flag, seen, running, posted,
                          served, destroyer, sq_tail, sqes, cq_head>>
  BY DEF SubmitStep, SubmitNop, SubmitPunt, SubmitSleeps, SubmitFails, SubmitEnd, PostCqe,
         unchangedBySubmit, cq

LEMMA WatchedKept ==
    ASSUME Typed, Watched, [Next]_vars
    PROVE  Watched'
<1>1. CASE UNCHANGED vars
  BY <1>1 DEF vars, sq, cq, pool, Watched, ClientWatched, Stopping
<1>2. CASE ClientStep
  <2>1. CASE WaitCqe
    <3>1. /\ ~should_stop /\ NothingToReap /\ client' = "asleep" /\ wait_cqe_cond_flag'
          /\ UNCHANGED <<should_stop, cq_head, cq_tail, destroyer, backlog>>
      BY <2>1 DEF WaitCqe, WaitSleeps, unchangedByWait, cq, pool
    <3> QED BY <3>1, NothingIsNothing DEF Typed, Watched, ClientWatched, Stopping
  <2>2. CASE ~WaitCqe
    <3>1. /\ client = "idle" /\ client' \in {"idle", "submitting"}
          /\ client' = "submitting" => ~should_stop
          /\ UNCHANGED <<should_stop, destroyer, backlog>>
      BY <1>2, <2>2 DEF ClientStep, GetSqe, SubmitBegin, LoadHeadCqe, CqAdvance,
                        unchangedBySubmit, unchangedByReap, pool
    <3> QED BY <3>1 DEF Watched, ClientWatched, Stopping
  <2> QED BY <2>1, <2>2
<1>3. CASE SubmitStep
  <2>1. destroyer \in {"out", "called"}
    BY <1>3, SubmitStepIs DEF Watched, Stopping
  <2> QED BY <1>3, <2>1, SubmitStepIs DEF Watched, ClientWatched, Stopping
<1>4. CASE ResumeWaitCqe
  <2>1. /\ client' \in {"asleep", "idle"}
        /\ client' = "asleep" => ~should_stop /\ NothingToReap /\ wait_cqe_cond_flag'
        /\ UNCHANGED <<should_stop, cq_head, cq_tail, destroyer, backlog>>
    BY <1>4 DEF ResumeWaitCqe, WaitSleeps, unchangedByWait, cq, pool
  <2> QED BY <2>1, NothingIsNothing DEF Typed, Watched, ClientWatched, Stopping
<1>5. CASE StartWork \/ Finish
  <2>1. /\ UNCHANGED <<should_stop, wait_cqe_cond_flag, cq_head, cq_tail, client, destroyer>>
        /\ backlog # <<>> \/ backlog' = backlog
    BY <1>5 DEF StartWork, Finish, TakesHead, Rests, unchangedByPool, cq
  <2> QED BY <2>1 DEF Watched, ClientWatched, Stopping
<1>6. ASSUME NEW r \in Reqs, PoolStep(r) PROVE Watched'
  <2>1. UNCHANGED <<should_stop, wait_cqe_cond_flag, destroyer, backlog>>
    BY <1>6 DEF PoolStep, Exec, Delete, unchangedByPool
  <2>2. \/ UNCHANGED <<cq_head, cq_tail, client>>
        \/ client' = WakeClient
    BY <1>6 DEF PoolStep, Exec, Delete, PostCqe, cq
  <2> QED BY <2>1, <2>2 DEF Watched, ClientWatched, Stopping, WakeClient
<1>7. CASE DestroyStop
  <2>1. /\ should_stop' /\ client' = WakeClient /\ destroyer' = "stopping"
        /\ client # "submitting" /\ UNCHANGED wait_cqe_cond_flag
    BY <1>7 DEF DestroyStop
  <2> QED BY <2>1 DEF Watched, ClientWatched, Stopping, WakeClient
<1>8. CASE DestroyQueue \/ DestroyFree
  <2>1. /\ destroyer \in {"stopping", "joining"} /\ destroyer' \in {"joining", "freed"}
        /\ UNCHANGED <<should_stop, wait_cqe_cond_flag, cq_head, cq_tail, client>>
        /\ backlog' = <<>> \/ (backlog' = backlog /\ destroyer = "joining")
    BY <1>8 DEF DestroyQueue, DestroyFree, cq, pool
  <2> QED BY <2>1 DEF Watched, ClientWatched, Stopping
<1>9. CASE SpuriousWakeup \/ SpuriousRetry
  BY <1>9 DEF SpuriousWakeup, SpuriousRetry, unchangedByWait, unchangedBySubmit, cq, pool,
              Watched, ClientWatched, Stopping
<1>10. CASE DestroyCall
  BY <1>10 DEF DestroyCall, cq, pool, Watched, ClientWatched, Stopping
<1> QED BY <1>1, <1>2, <1>3, <1>4, <1>5, <1>6, <1>7, <1>8, <1>9, <1>10 DEF Next

LEMMA AlwaysWatched == Spec => [](Typed /\ Watched)
<1>1. Init => Typed /\ Watched
  BY InitTyped DEF Init, Watched, ClientWatched, Stopping
<1>2. Typed /\ Watched /\ [Next]_vars => Typed' /\ Watched'
  BY NextTyped, WatchedKept
<1> QED BY <1>1, <1>2, PTL DEF Spec

\* The client never sleeps through a completion, nor through the end of the ring:
\* the flag is up whenever it sleeps, and every post and the destruction see it.
THEOREM SleeperIsWatched == Spec => []ClientWatched
<1>1. Typed /\ Watched => ClientWatched
  BY DEF Watched
<1> QED BY <1>1, AlwaysWatched, PTL

----------------------------------------------------------------------------
(* The rings, as sequences.                                                  *)

LEMMA ElemsIs == ASSUME NEW s PROVE Elems(s) = ElemsOf(s)
  BY DEF Elems, ElemsOf

LEMMA EntriesIs ==
    ASSUME NEW h \in 0 .. IdxMod - 1, NEW t, NEW ring, NEW c
    PROVE  Entries(h, t, ring, c) = RingSeq(h, t, ring, IdxMod, c)
<1>1. ASSUME NEW k \in 1 .. Gap(IdxMod, t, h) PROVE h + k - 1 = h + (k - 1)
  <2> DEFINE g == Gap(IdxMod, t, h)
  <2> HIDE DEF g
  <2>1. h \in Int /\ k \in Int
    BY SizeFacts
  <2> QED BY <2>1
<1> QED BY <1>1, DistIsGap DEF Entries, RingSeq, Entry, Step

LEMMA UnsentIs ==
    ASSUME TypeOK
    PROVE  /\ Unsent = SqEntries /\ Unsent \in Seq(Reqs \cup {NoReq})
           /\ Len(Unsent) = Gap(IdxMod, sq_tail, From)
<1>1. Unsent = SqEntries
  BY IndexTyped, EntriesIs DEF Unsent, SqEntries, From
<1>2. Unsent \in Seq(Reqs \cup {NoReq})
  BY SizeFacts, IndexTyped, RingSeqTyped DEF Unsent
<1>3. Len(Unsent) = Gap(IdxMod, sq_tail, From)
  BY SizeFacts, IndexTyped, RingSeqLen DEF Unsent
<1> QED BY <1>1, <1>2, <1>3

LEMMA ReadyIs ==
    ASSUME TypeOK
    PROVE  /\ Ready = CqEntries /\ Ready \in Seq(Reqs \cup {NoReq})
           /\ Len(Ready) = Gap(IdxMod, cq_tail, cq_head)
<1>1. Ready = CqEntries
  BY IndexTyped, EntriesIs DEF Ready, CqEntries
<1>2. Ready \in Seq(Reqs \cup {NoReq})
  BY SizeFacts, IndexTyped, RingSeqTyped DEF Ready
<1>3. Len(Ready) = Gap(IdxMod, cq_tail, cq_head)
  BY SizeFacts, IndexTyped, RingSeqLen DEF Ready
<1> QED BY <1>1, <1>2, <1>3

\* Filling a submission entry, and going past one.
LEMMA GetAppends ==
    ASSUME Typed, NEW r \in Reqs, GetSqe(r)
    PROVE  Unsent' = Append(Unsent, r)
<1>1. /\ client = "idle" /\ client' = client /\ ~SqFull /\ sq_head' = sq_head
      /\ sq_tail' = Step(IdxMod, sq_tail, 1) /\ cursor' = cursor
      /\ sqes' = [sqes EXCEPT ![Entry(SqSize, sq_tail)] = r]
  BY NextIsStep DEF GetSqe, Entry
<1>2. /\ IdxMod \in Nat \ {0} /\ sq_head \in 0 .. IdxMod - 1 /\ From = sq_head
      /\ SqSize \in Nat \ {0} /\ RingOf(IdxMod, SqSize)
      /\ sq_tail \in 0 .. IdxMod - 1 /\ Gap(IdxMod, sq_tail, sq_head) <= SqSize
  BY <1>1, SizeFacts, IndexTyped DEF Typed, Bounded, From
<1>3. Gap(IdxMod, sq_tail, sq_head) < SqSize
  <2>1. u32_diff(sq_head, sq_tail) < SqSize
    BY <1>1, <1>2, SizeFacts DEF SqFull, u32_diff
  <2>2. SqSize \in Nat /\ SqSize <= CqSize
    BY SizeFacts
  <2> QED BY <1>2, <2>1, <2>2, RoomIsRoom
<1>4. Filled(sqes, sqes', SqSize, sq_tail, r)
  <2>1. Entry(SqSize, sq_tail) \in 0 .. SqSize - 1
    BY <1>2, EntryIs
  <2> QED BY <1>1, <2>1 DEF Filled, Typed, TypeOK
<1>5. RingSeq(sq_head, Step(IdxMod, sq_tail, 1), sqes', IdxMod, SqSize)
         = Append(RingSeq(sq_head, sq_tail, sqes, IdxMod, SqSize), r)
  <2> HIDE <1>1
  <2> QED BY <1>2, <1>3, <1>4, RingSeqAppend
<1>6. From' = sq_head
  BY <1>1 DEF From
<1> QED BY <1>1, <1>2, <1>5, <1>6 DEF Unsent

LEMMA CursorTakes ==
    ASSUME TypeOK, client = "submitting", cursor # sq_tail
    PROVE  /\ Unsent # <<>> /\ Current = Head(Unsent)
           /\ cursor' = Next1(cursor) /\ UNCHANGED <<client, sq_tail, sqes>>
                => Unsent' = Tail(Unsent)
<1>1. /\ RingSeq(cursor, sq_tail, sqes, IdxMod, SqSize) # <<>>
      /\ Head(RingSeq(cursor, sq_tail, sqes, IdxMod, SqSize)) = sqes[Entry(SqSize, cursor)]
      /\ RingSeq(Step(IdxMod, cursor, 1), sq_tail, sqes, IdxMod, SqSize)
            = Tail(RingSeq(cursor, sq_tail, sqes, IdxMod, SqSize))
  <2>1. /\ IdxMod \in Nat \ {0} /\ SqSize \in Nat \ {0} /\ RingOf(IdxMod, SqSize)
        /\ cursor \in 0 .. IdxMod - 1 /\ sq_tail \in 0 .. IdxMod - 1
    BY SizeFacts, IndexTyped
  <2> QED BY <2>1, RingSeqTake
<1>2. Unsent = RingSeq(cursor, sq_tail, sqes, IdxMod, SqSize)
  BY DEF Unsent, From
<1>3. ASSUME cursor' = Next1(cursor), UNCHANGED <<client, sq_tail, sqes>>
      PROVE  Unsent' = RingSeq(Step(IdxMod, cursor, 1), sq_tail, sqes, IdxMod, SqSize)
  BY <1>3, NextIsStep DEF Unsent, From
<1> QED BY <1>1, <1>2, <1>3 DEF Current, Entry

LEMMA SameUnsent == UNCHANGED <<From, sq_tail, sqes>> => Unsent' = Unsent
  BY DEF Unsent

\* A post appends to the completion ring, or is dropped.
LEMMA PostAppends ==
    ASSUME Typed, NEW r \in Reqs, NEW woken, PostCqe(r, woken)
    PROVE  /\ Ready' = Ready \/ Ready' = Append(Ready, r)
           /\ ~CqFull => Ready' = Append(Ready, r)
<1>1. CASE CqFull /\ UNCHANGED <<cq, client>>
  BY <1>1 DEF cq, Ready
<1>2. CASE ~CqFull /\ ~(CqFull /\ UNCHANGED <<cq, client>>)
  <2>1. /\ cqes' = [cqes EXCEPT ![Entry(CqSize, cq_tail)] = r] /\ cq_head' = cq_head
        /\ cq_tail' = Step(IdxMod, cq_tail, 1)
    BY <1>2, NextIsStep DEF PostCqe, Entry
  <2>2. /\ IdxMod \in Nat \ {0} /\ CqSize \in Nat \ {0} /\ RingOf(IdxMod, CqSize)
        /\ cq_tail \in 0 .. IdxMod - 1 /\ cq_head \in 0 .. IdxMod - 1
        /\ Gap(IdxMod, cq_tail, cq_head) <= CqSize
    BY SizeFacts, IndexTyped DEF Typed, Bounded
  <2>3. Gap(IdxMod, cq_tail, cq_head) < CqSize
    <3>1. u32_diff(cq_tail, cq_head) < CqSize
      BY <1>2, <2>2 DEF CqFull, u32_diff
    <3> QED BY <2>2, <3>1, RoomIsRoom
  <2>4. Filled(cqes, cqes', CqSize, cq_tail, r)
    <3>1. Entry(CqSize, cq_tail) \in 0 .. CqSize - 1
      BY <2>2, EntryIs
    <3> QED BY <2>1, <3>1 DEF Filled, Typed, TypeOK
  <2>5. RingSeq(cq_head, Step(IdxMod, cq_tail, 1), cqes', IdxMod, CqSize) = Append(Ready, r)
    <3> HIDE <2>1
    <3> QED BY <2>2, <2>3, <2>4, RingSeqAppend DEF Ready
  <2> QED BY <2>1, <2>5 DEF Ready
<1> QED BY <1>1, <1>2 DEF PostCqe

\* Completions leave in the order they came: a step posts one at the end, drops
\* some at the beginning, or leaves them alone.
LEMMA ReadyMoves ==
    ASSUME Typed, [Next]_vars
    PROVE  \/ \E n \in 0 .. Len(Ready) : Ready' = SubSeq(Ready, n + 1, Len(Ready))
           \/ \E r \in Reqs : Ready' = Append(Ready, r)
<1>1. Ready \in Seq(Reqs \cup {NoReq})
  BY ReadyIs DEF Typed
<1>2. ASSUME Ready' = Ready
      PROVE  \E n \in 0 .. Len(Ready) : Ready' = SubSeq(Ready, n + 1, Len(Ready))
  <2>1. Len(Ready) \in Nat /\ 0 \in 0 .. Len(Ready)
    BY <1>1, LenProperties
  <2>2. SubSeq(Ready, 0 + 1, Len(Ready)) = Ready
    <3> DEFINE R == Reqs \cup {NoReq}
               s == Ready
    <3>1. s \in Seq(R)
      BY <1>1
    <3> HIDE DEF R, s
    <3>2. 0 + 1 = 1
      OBVIOUS
    <3>3. SubSeq(s, 1, Len(s)) = s
      BY <3>1, SubSeqFull
    <3> QED BY <3>2, <3>3 DEF s
  <2> QED BY <1>2, <2>1, <2>2
<1>3. CASE SubmitNop
  <2>1. PICK r \in Reqs : r = Current
    BY <1>3 DEF SubmitNop, Reqs
  <2>2. PICK k : k = client
    OBVIOUS
  <2>3. PostCqe(r, k)
    BY <1>3, <2>1, <2>2 DEF SubmitNop, PostCqe
  <2> QED BY <1>2, <2>3, PostAppends
<1>4. ASSUME NEW r \in Reqs, Exec(r) PROVE Ready' = Ready \/ Ready' = Append(Ready, r)
  <2>1. PICK k : k = WakeClient
    OBVIOUS
  <2>2. PostCqe(r, k)
    BY <1>4, <2>1 DEF Exec, PostCqe
  <2> QED BY <2>2, PostAppends
<1>5. CASE CqAdvance
  <2>1. /\ IdxMod \in Nat \ {0} /\ CqSize \in Nat \ {0} /\ RingOf(IdxMod, CqSize)
        /\ cq_tail \in 0 .. IdxMod - 1 /\ cq_head \in 0 .. IdxMod - 1
        /\ seen \in 0 .. Gap(IdxMod, cq_tail, cq_head)
    <3>1. Gap(IdxMod, cq_tail, cq_head) \in 0 .. IdxMod - 1
      BY SizeFacts, IndexTyped, GapIs DEF Typed
    <3> QED BY <3>1, SizeFacts, IndexTyped DEF Typed, Bounded
  <2>2. RingSeq(Step(IdxMod, cq_head, seen), cq_tail, cqes, IdxMod, CqSize)
           = SubSeq(Ready, seen + 1, Gap(IdxMod, cq_tail, cq_head))
    BY <2>1, RingSeqDrop DEF Ready
  <2>3. cq_head' = Step(IdxMod, cq_head, seen) /\ UNCHANGED <<cq_tail, cqes>>
    BY <1>5 DEF CqAdvance, unchangedByReap, Step
  <2>4. /\ Ready' = SubSeq(Ready, seen + 1, Len(Ready))
        /\ seen \in 0 .. Len(Ready)
    BY <2>1, <2>2, <2>3, ReadyIs DEF Ready, Typed
  <2> QED BY <2>4
<1>6. ASSUME [Next]_vars, ~SubmitNop, ~CqAdvance, ~\E r \in Reqs : Exec(r)
      PROVE  Ready' = Ready
  <2>1. UNCHANGED <<cq_head, cq_tail, cqes>>
    BY <1>6 DEF Next, vars, cq, ClientStep, GetSqe, SubmitBegin, WaitCqe, LoadHeadCqe,
                SubmitStep, SubmitPunt, SubmitSleeps, SubmitFails, SubmitEnd, ResumeWaitCqe,
                StartWork, Finish, PoolStep, Delete, DestroyCall, DestroyStop, DestroyQueue,
                DestroyFree, SpuriousWakeup, SpuriousRetry, unchangedByWait, unchangedByReap
  <2> QED BY <2>1 DEF Ready
<1> QED BY <1>2, <1>3, <1>4, <1>5, <1>6

\* Completions are reaped in the order they were posted; none is overwritten, or
\* skipped, before the client advances past it.
THEOREM CompletionsInOrder == Spec => CompletionsFifo
<1> DEFINE Fifo ==
             \/ \E n \in 0 .. Len(CqEntries) :
                   CqEntries' = SubSeq(CqEntries, n + 1, Len(CqEntries))
             \/ \E r \in Reqs : CqEntries' = Append(CqEntries, r)
<1>1. Typed /\ Typed' /\ [Next]_vars => Fifo
  <2> SUFFICES ASSUME Typed, Typed', [Next]_vars PROVE Fifo
    OBVIOUS
  <2>1. Ready = CqEntries
    BY ReadyIs DEF Typed
  <2>2. Ready' = CqEntries'
    <3>1. (TypeOK => Ready = CqEntries)'
      BY ReadyIs, PTL
    <3>2. TypeOK'
      BY DEF Typed
    <3> QED BY <3>1, <3>2
  <2> QED BY <2>1, <2>2, ReadyMoves
<1> HIDE DEF Fifo
<1>2. Spec => [][Fifo]_vars
  BY <1>1, AlwaysWatched, PTL DEF Spec
<1> QED BY <1>2 DEF CompletionsFifo, Fifo

----------------------------------------------------------------------------
(* Where the requests are.                                                   *)

Sent     == ElemsOf(Unsent)
Punted   == ElemsOf(backlog)
Occupied == Sent \cup Punted \cup running \cup posted

\* A request is in one place, once, and its update is held while it is.
Placed ==
    /\ Unsent \in Seq(Reqs) /\ Distinct(Unsent) /\ Distinct(backlog)
    /\ Sent \cap Punted = {} /\ Sent \cap running = {} /\ Sent \cap posted = {}
    /\ Punted \cap running = {} /\ Punted \cap posted = {} /\ running \cap posted = {}
    /\ held = Handles \cap Occupied

\* What a step does to the requests: the client gets an entry for one,
Gets(r) ==
    /\ r \in Reqs \ Occupied /\ Unsent' = Append(Unsent, r)
    /\ held' = held \cup ({r} \cap Handles)
    /\ UNCHANGED <<backlog, running, posted, served>>

\* the submission answers one, forgets one or punts one,
Answers ==
    /\ Unsent # <<>> /\ Head(Unsent) \in Nops /\ Unsent' = Tail(Unsent)
    /\ UNCHANGED <<held, backlog, running, posted, served>>

Forgets ==
    /\ Unsent # <<>>
    /\ Head(Unsent) \in Unknown \/ PuntMayFail
    /\ Unsent' = Tail(Unsent) /\ held' = held \ {Head(Unsent)}
    /\ UNCHANGED <<backlog, running, posted, served>>

Punts ==
    /\ client = "submitting" /\ Unsent # <<>> /\ Head(Unsent) \in Calls \cup Handles
    /\ Unsent' = Tail(Unsent)
    /\ Len(backlog) < PoolCap /\ backlog' = Append(backlog, Head(Unsent))
    /\ UNCHANGED <<held, running, posted, served>>

\* a thread takes one, from its sleep or on its way back from another; executes or
\* deletes one; or the queue deletes those it holds.
Takes ==
    /\ backlog # <<>>
    /\ \/ nr_running_workers < PoolThreads /\ served' = served
       \/ served > 0 /\ served' = served - 1
    /\ running' = running \cup {Head(backlog)} /\ backlog' = Tail(backlog)
    /\ Unsent' = Unsent /\ UNCHANGED <<held, posted>>

Executes(r) ==
    /\ r \in running /\ running' = running \ {r} /\ posted' = posted \cup {r}
    /\ Unsent' = Unsent /\ UNCHANGED <<held, backlog, served>>

Deletes(r) ==
    /\ r \in posted /\ posted' = posted \ {r} /\ held' = held \ {r}
    /\ served' = served + 1
    /\ Unsent' = Unsent /\ UNCHANGED <<backlog, running>>

Clears ==
    /\ DestroyQueue /\ backlog' = <<>> /\ held' = held \ Punted
    /\ Unsent' = Unsent /\ UNCHANGED <<running, posted, served>>

Stays ==
    /\ Unsent' = Unsent /\ UNCHANGED <<held, backlog, running, posted>>
    /\ served' = served \/ (served > 0 /\ served' = served - 1)

\* Before and after the queue is closed.
Closed == destroyer \in {"joining", "freed"}

LEMMA SubmitMoves ==
    ASSUME TypeOK, SubmitStep
    PROVE  Answers \/ Forgets \/ Punts \/ Stays
<1>1. CASE SubmitNop
  <2>1. /\ client = "submitting" /\ cursor # sq_tail /\ cursor' = Next1(cursor)
        /\ Current \in Nops
        /\ UNCHANGED <<client, sq_tail, sqes, held, backlog, running, posted, served>>
    BY <1>1 DEF SubmitNop, PostCqe, unchangedBySubmit
  <2> QED BY <2>1, CursorTakes DEF Answers
<1>2. CASE SubmitPunt
  <2>1. /\ client = "submitting" /\ cursor # sq_tail /\ cursor' = Next1(cursor)
        /\ Current \in Calls \cup Handles /\ Len(backlog) < PoolCap
        /\ backlog' = Append(backlog, Current)
        /\ UNCHANGED <<client, sq_tail, sqes, held, running, posted, served>>
    BY <1>2 DEF SubmitPunt, PoolHasRoom, unchangedBySubmit
  <2> QED BY <2>1, CursorTakes DEF Punts
<1>3. CASE SubmitFails
  <2>1. /\ client = "submitting" /\ cursor # sq_tail /\ cursor' = Next1(cursor)
        /\ held' = held \ {Current} /\ (Current \in Unknown \/ PuntMayFail)
        /\ UNCHANGED <<client, sq_tail, sqes, backlog, running, posted, served>>
    BY <1>3 DEF SubmitFails, DropUpdate, unchangedBySubmit
  <2> QED BY <2>1, CursorTakes DEF Forgets
<1>4. CASE SubmitEnd
  <2>1. From' = From /\ UNCHANGED <<sq_tail, sqes, held, backlog, running, posted, served>>
    BY <1>4 DEF SubmitEnd, HeadAfterSubmit, unchangedBySubmit, From
  <2> QED BY <2>1, SameUnsent DEF Stays
<1>5. CASE SubmitSleeps
  <2>1. /\ From' = From
        /\ UNCHANGED <<sq_tail, sqes, held, backlog, running, posted, served>>
    BY <1>5 DEF SubmitSleeps, unchangedBySubmit, From
  <2> QED BY <2>1, SameUnsent DEF Stays
<1> QED BY <1>1, <1>2, <1>3, <1>4, <1>5 DEF SubmitStep

LEMMA GetMoves == ASSUME Typed, NEW r \in Reqs, GetSqe(r) PROVE Gets(r)
<1>1. InUse = Occupied
  BY UnsentIs, ElemsIs DEF InUse, Occupied, Sent, Punted, Typed
<1>2. Unsent' = Append(Unsent, r)
  BY GetAppends
<1> QED BY <1>1, <1>2 DEF GetSqe, Gets, pool

LEMMA ClientStays ==
    ASSUME SubmitBegin \/ WaitCqe \/ ResumeWaitCqe \/ LoadHeadCqe \/ CqAdvance
              \/ SpuriousWakeup \/ SpuriousRetry \/ DestroyCall
    PROVE  Stays
<1>1. From' = From
  BY DEF SubmitBegin, WaitCqe, WaitSleeps, LoadHeadCqe, CqAdvance, ResumeWaitCqe,
         SpuriousWakeup, SpuriousRetry, DestroyCall, unchangedBySubmit, unchangedByWait,
         unchangedByReap, sq, From
<1>2. UNCHANGED <<sq_tail, sqes, held, backlog, running, posted, served>>
  BY DEF SubmitBegin, WaitCqe, LoadHeadCqe, CqAdvance, ResumeWaitCqe, SpuriousWakeup,
         SpuriousRetry, DestroyCall,
         unchangedBySubmit, unchangedByWait, unchangedByReap, sq, pool
<1> QED BY <1>1, <1>2, SameUnsent DEF Stays

LEMMA PoolKeepsUnsent ==
    ASSUME Typed, StartWork \/ Finish \/ \E r \in Reqs : PoolStep(r)
    PROVE  Unsent' = Unsent
<1>1. UNCHANGED <<sq_head, sq_tail, sqes, cursor>> /\ client' \in {client, WakeClient}
  BY DEF StartWork, Finish, PoolStep, Exec, Delete, PostCqe, unchangedByPool, sq
<1>2. From' = From
  BY <1>1, WokenTyped DEF From
<1> QED BY <1>1, <1>2, SameUnsent

LEMMA TakeMoves == ASSUME Typed, StartWork \/ Finish PROVE Takes \/ Stays
  BY PoolKeepsUnsent DEF StartWork, Finish, TakesHead, Rests, Takes, Stays

LEMMA ExecMoves == ASSUME Typed, NEW r \in Reqs, Exec(r) PROVE Executes(r)
  BY PoolKeepsUnsent DEF PoolStep, Exec, Executes

LEMMA DeleteMoves == ASSUME Typed, NEW r \in Reqs, Delete(r) PROVE Deletes(r)
  BY PoolKeepsUnsent DEF PoolStep, Delete, Deletes, DropUpdate

LEMMA DestroyMoves ==
    ASSUME Typed, DestroyStop \/ DestroyQueue \/ DestroyFree
    PROVE  Clears \/ Stays
<1>1. UNCHANGED <<sq_head, sq_tail, sqes, cursor>> /\ client' \in {client, WakeClient}
  BY DEF DestroyStop, DestroyQueue, DestroyFree, sq
<1>2. From' = From
  BY <1>1, WokenTyped DEF From
<1>3. Unsent' = Unsent
  BY <1>1, <1>2, SameUnsent
<1> QED BY <1>3, ElemsIs
        DEF DestroyStop, DestroyQueue, DestroyFree, Clears, Stays, Punted, pool

LEMMA StutterStays == ASSUME UNCHANGED vars PROVE Stays
<1>1. From' = From /\ UNCHANGED <<sq_tail, sqes>>
  BY DEF vars, sq, From
<1> QED BY <1>1, SameUnsent DEF vars, pool, Stays

LEMMA Moves ==
    ASSUME Typed, [Next]_vars
    PROVE  \/ Stays \/ Answers \/ Forgets \/ Punts \/ Takes \/ Clears
           \/ \E r \in Reqs : Gets(r) \/ Executes(r) \/ Deletes(r)
<1>1. CASE UNCHANGED vars
  BY <1>1, StutterStays
<1>2. CASE Next
  BY <1>2, GetMoves, ClientStays, SubmitMoves, TakeMoves, ExecMoves, DeleteMoves,
     DestroyMoves DEF Next, ClientStep, PoolStep, Typed
<1> QED BY <1>1, <1>2

----------------------------------------------------------------------------
(* A request is in one place.                                                *)

\* An empty sequence has no element.
LEMMA EmptyElems == ElemsOf(<<>>) = {} /\ Distinct(<<>>)
  BY DEF ElemsOf, Distinct

LEMMA BacklogTyped ==
    ASSUME Typed
    PROVE  /\ backlog \in Seq(Calls \cup Handles) /\ backlog \in Seq(Reqs)
           /\ Calls \cup Handles \subseteq Reqs
  BY DEF Typed, TypeOK, Reqs

LEMMA InitPlaced == Init => Placed
<1> SUFFICES ASSUME Init PROVE Placed
  OBVIOUS
<1>1. TypeOK
  BY InitTyped DEF Typed
<1>2. From = sq_tail
  BY DEF Init, From
<1>3. Unsent = <<>>
  <2>1. Len(Unsent) = 0
    BY <1>1, <1>2, UnsentIs, SizeFacts, IndexTyped, GapZero
  <2> QED BY <1>1, <2>1, UnsentIs, EmptySeq
<1>4. backlog = <<>> /\ running = {} /\ posted = {} /\ held = {}
  BY DEF Init
<1> QED BY <1>3, <1>4, EmptyElems DEF Placed, Sent, Punted, Occupied

\* The first unsent request leaves the ring.
LEMMA SentLeaves ==
    ASSUME Placed, Unsent # <<>>, Unsent' = Tail(Unsent)
    PROVE  /\ Unsent' \in Seq(Reqs) /\ Distinct(Unsent')
           /\ Head(Unsent) \in Sent /\ Head(Unsent) \in Reqs
           /\ Sent' = Sent \ {Head(Unsent)}
<1>1. /\ Unsent \in Seq(Reqs) /\ Distinct(Unsent)
  BY DEF Placed
<1>2. Head(Unsent) \in Reqs /\ Tail(Unsent) \in Seq(Reqs)
  BY <1>1, HeadTailProperties
<1>3. /\ ElemsOf(Unsent) = {Head(Unsent)} \cup ElemsOf(Tail(Unsent))
      /\ Distinct(Tail(Unsent)) /\ Head(Unsent) \notin ElemsOf(Tail(Unsent))
  BY <1>1, TailElems
<1> QED BY <1>2, <1>3 DEF Sent

LEMMA SentKept ==
    ASSUME Unsent' = Unsent
    PROVE  Sent' = Sent
  BY DEF Sent

LEMMA GetAdds ==
    ASSUME Placed, NEW r, Gets(r)
    PROVE  Unsent' \in Seq(Reqs) /\ Distinct(Unsent') /\ Sent' = Sent \cup {r}
<1>1. /\ Unsent \in Seq(Reqs) /\ r \in Reqs /\ Distinct(Unsent) /\ r \notin ElemsOf(Unsent)
  BY DEF Placed, Gets, Occupied, Sent
<1>2. /\ Append(Unsent, r) \in Seq(Reqs)
      /\ ElemsOf(Append(Unsent, r)) = ElemsOf(Unsent) \cup {r}
      /\ Distinct(Append(Unsent, r))
  BY <1>1, AppendProperties, AppendElems
<1> QED BY <1>2 DEF Gets, Sent

\* A punted request gets behind the others of the work queue, whose first leaves it.
LEMMA PuntAdds ==
    ASSUME Typed, Placed, Punts
    PROVE  Distinct(backlog') /\ Punted' = Punted \cup {Head(Unsent)}
<1>1. /\ backlog \in Seq(Calls \cup Handles) /\ Head(Unsent) \in Calls \cup Handles
      /\ Head(Unsent) \notin ElemsOf(backlog) /\ Distinct(backlog)
  BY SentLeaves, BacklogTyped DEF Punts, Placed, Punted
<1>2. /\ ElemsOf(Append(backlog, Head(Unsent))) = ElemsOf(backlog) \cup {Head(Unsent)}
      /\ Distinct(Append(backlog, Head(Unsent)))
  BY <1>1, AppendElems
<1> QED BY <1>2 DEF Punts, Punted

LEMMA TakeRemoves ==
    ASSUME Typed, Placed, Takes
    PROVE  /\ Head(backlog) \in Punted /\ Punted' = Punted \ {Head(backlog)}
           /\ Distinct(backlog')
<1>1. backlog \in Seq(Calls \cup Handles) /\ backlog # <<>> /\ Distinct(backlog)
  BY BacklogTyped DEF Takes, Placed
<1>2. /\ ElemsOf(backlog) = {Head(backlog)} \cup ElemsOf(Tail(backlog))
      /\ Distinct(Tail(backlog)) /\ Head(backlog) \notin ElemsOf(Tail(backlog))
  BY <1>1, TailElems
<1> QED BY <1>2 DEF Takes, Punted

LEMMA GetsPlaced == ASSUME Placed, NEW r, Gets(r) PROVE Placed'
<1>1. Unsent' \in Seq(Reqs) /\ Distinct(Unsent') /\ Sent' = Sent \cup {r}
  BY GetAdds
<1>2. Punted' = Punted /\ Distinct(backlog')
  BY DEF Gets, Placed, Punted
<1> QED BY <1>1, <1>2 DEF Gets, Placed, Occupied

LEMMA AnswersPlaced == ASSUME Placed, Answers PROVE Placed'
<1>1. /\ Unsent' \in Seq(Reqs) /\ Distinct(Unsent') /\ Head(Unsent) \in Sent
      /\ Sent' = Sent \ {Head(Unsent)}
  BY SentLeaves DEF Answers
<1>2. Punted' = Punted /\ Distinct(backlog')
  BY DEF Answers, Placed, Punted
<1>3. Head(Unsent) \notin Handles
  BY OpcodeAssumption DEF Answers
<1> QED BY <1>1, <1>2, <1>3 DEF Answers, Placed, Occupied

LEMMA ForgetsPlaced == ASSUME Placed, Forgets PROVE Placed'
<1>1. /\ Unsent' \in Seq(Reqs) /\ Distinct(Unsent') /\ Head(Unsent) \in Sent
      /\ Sent' = Sent \ {Head(Unsent)}
  BY SentLeaves DEF Forgets
<1>2. Punted' = Punted /\ Distinct(backlog')
  BY DEF Forgets, Placed, Punted
<1> QED BY <1>1, <1>2 DEF Forgets, Placed, Occupied

LEMMA PuntsPlaced == ASSUME Typed, Placed, Punts PROVE Placed'
<1>1. /\ Unsent' \in Seq(Reqs) /\ Distinct(Unsent') /\ Head(Unsent) \in Sent
      /\ Sent' = Sent \ {Head(Unsent)}
  BY SentLeaves DEF Punts
<1>2. Distinct(backlog') /\ Punted' = Punted \cup {Head(Unsent)}
  BY PuntAdds
<1> QED BY <1>1, <1>2 DEF Punts, Placed, Occupied

LEMMA TakesPlaced == ASSUME Typed, Placed, Takes PROVE Placed'
<1>1. /\ Head(backlog) \in Punted /\ Punted' = Punted \ {Head(backlog)}
      /\ Distinct(backlog')
  BY TakeRemoves
<1> QED BY <1>1, SentKept DEF Takes, Placed, Occupied

LEMMA ExecutesPlaced == ASSUME Placed, NEW r, Executes(r) PROVE Placed'
<1>1. Punted' = Punted
  BY DEF Executes, Punted
<1> QED BY <1>1, SentKept DEF Executes, Placed, Occupied

LEMMA DeletesPlaced == ASSUME Placed, NEW r, Deletes(r) PROVE Placed'
<1>1. Punted' = Punted
  BY DEF Deletes, Punted
<1> QED BY <1>1, SentKept DEF Deletes, Placed, Occupied

LEMMA ClearsPlaced == ASSUME Placed, Clears PROVE Placed'
<1>1. Punted' = {} /\ Distinct(backlog')
  BY EmptyElems DEF Clears, Punted
<1> QED BY <1>1, SentKept DEF Clears, Placed, Occupied

LEMMA PlacedKept == ASSUME Typed, Placed, [Next]_vars PROVE Placed'
<1>1. CASE Stays
  <2>1. Punted' = Punted
    BY <1>1 DEF Stays, Punted
  <2> QED BY <1>1, <2>1, SentKept DEF Stays, Placed, Occupied
<1> QED BY <1>1, Moves, GetsPlaced, AnswersPlaced, ForgetsPlaced, PuntsPlaced, TakesPlaced,
           ExecutesPlaced, DeletesPlaced, ClearsPlaced

----------------------------------------------------------------------------
(* The threads of the work queue.                                            *)

\* No more works are in hand than there are threads, nor wait than there is room.
Crew ==
    /\ IsFiniteSet(running \cup posted) /\ nr_running_workers <= PoolThreads
    /\ Len(backlog) <= PoolCap

LEMMA CrewKept == ASSUME Typed, Placed, Crew, [Next]_vars PROVE Crew'
<1> DEFINE b == running \cup posted
           n == Cardinality(b)
<1>1. /\ IsFiniteSet(b) /\ n \in Nat /\ n + served <= PoolThreads
      /\ served \in Nat /\ PoolThreads \in Nat /\ PoolCap \in Nat
      /\ backlog \in Seq(Calls \cup Handles) /\ Len(backlog) <= PoolCap
  BY FS_CardinalityType, SizeFacts DEF Crew, nr_running_workers, Typed, TypeOK
<1>2. ASSUME b' = b, served' = served \/ served' = served - 1, Len(backlog') <= PoolCap
      PROVE  Crew'
  <2>1. n' = n
    BY <1>2
  <2> HIDE DEF n
  <2>2. n' + served' <= PoolThreads
    BY <1>1, <1>2, <2>1
  <2> USE DEF n
  <2> QED BY <1>1, <1>2, <2>2 DEF Crew, nr_running_workers
<1>3. CASE Takes
  <2>1. /\ b' = b \cup {Head(backlog)} /\ Head(backlog) \notin b
        /\ \/ n + served < PoolThreads /\ served' = served
           \/ served > 0 /\ served' = served - 1
    BY <1>3, TakeRemoves DEF Takes, Placed, nr_running_workers
  <2>2. IsFiniteSet(b \cup {Head(backlog)}) /\ Cardinality(b \cup {Head(backlog)}) = n + 1
    <3> HIDE DEF b
    <3> QED BY <1>1, <2>1, FS_AddElement
  <2>3. n' = n + 1
    BY <2>1, <2>2
  <2>4. n' + served' <= PoolThreads
    <3> HIDE DEF n
    <3> QED BY <1>1, <2>1, <2>3
  <2>5. Len(backlog') <= PoolCap
    <3>1. backlog # <<>> /\ backlog' = Tail(backlog)
      BY <1>3 DEF Takes
    <3>2. Len(Tail(backlog)) = Len(backlog) - 1 /\ Len(backlog) \in Nat
      BY <1>1, <3>1, HeadTailProperties, LenProperties
    <3> QED BY <1>1, <3>1, <3>2
  <2> QED BY <2>1, <2>2, <2>4, <2>5 DEF Crew, nr_running_workers
<1>4. ASSUME NEW r \in Reqs, Deletes(r) PROVE Crew'
  <2>1. b' = b \ {r} /\ r \in b /\ served' = served + 1 /\ backlog' = backlog
    BY <1>4 DEF Deletes, Placed
  <2>2. IsFiniteSet(b \ {r}) /\ Cardinality(b \ {r}) = n - 1
    <3> HIDE DEF b
    <3> QED BY <1>1, <2>1, FS_RemoveElement
  <2>3. n' = n - 1
    BY <2>1, <2>2
  <2>4. n' + served' <= PoolThreads
    <3> HIDE DEF n
    <3> QED BY <1>1, <2>1, <2>3
  <2> QED BY <1>1, <2>1, <2>2, <2>4 DEF Crew, nr_running_workers
<1>5. CASE Punts
  <2>1. /\ b' = b /\ served' = served /\ Len(backlog) < PoolCap
        /\ backlog' = Append(backlog, Head(Unsent)) /\ Head(Unsent) \in Calls \cup Handles
    BY <1>5 DEF Punts
  <2>2. Len(backlog') = Len(backlog) + 1 /\ Len(backlog) \in Nat
    BY <1>1, <2>1, AppendProperties, LenProperties
  <2>3. Len(backlog') <= PoolCap
    BY <1>1, <2>1, <2>2
  <2> QED BY <1>2, <2>1, <2>3
<1>6. CASE Clears
  <2>1. b' = b /\ served' = served /\ Len(backlog') = 0
    BY <1>6 DEF Clears
  <2> QED BY <1>1, <1>2, <2>1
<1>7. CASE Stays \/ Answers \/ Forgets \/ \E r \in Reqs : Gets(r) \/ Executes(r)
  <2>1. /\ b' = b
        /\ served' = served \/ served' = served - 1
        /\ backlog' = backlog
    BY <1>7 DEF Stays, Answers, Forgets, Gets, Executes
  <2>2. Len(backlog') <= PoolCap
    BY <1>1, <2>1
  <2> QED BY <1>2, <2>1, <2>2
<1> QED BY <1>3, <1>4, <1>5, <1>6, <1>7, Moves

LEMMA InitCrew == Init => Crew
<1> SUFFICES ASSUME Init PROVE Crew
  OBVIOUS
<1>1. running \cup posted = {} /\ served = 0 /\ Len(backlog) = 0
  BY DEF Init
<1>2. IsFiniteSet(running \cup posted) /\ Cardinality(running \cup posted) = 0
  BY <1>1, FS_EmptySet
<1>3. nr_running_workers = 0
  BY <1>1, <1>2 DEF nr_running_workers
<1> QED BY <1>1, <1>2, <1>3, SizeFacts DEF Crew

LEMMA AlwaysPlaced == Spec => [](Typed /\ Watched /\ Placed /\ Crew)
<1>1. Typed /\ Placed /\ Crew /\ [Next]_vars => Placed' /\ Crew'
  BY PlacedKept, CrewKept
<1> QED BY <1>1, InitPlaced, InitCrew, AlwaysWatched, PTL DEF Spec

\* A request is submitted once and executed once, and neither ring, whatever its
\* size and wherever its indexes wrap, holds more than it has entries for.
THEOREM RequestsOnce == Spec => []OnePlace
<1>1. Typed /\ Placed /\ Crew => OnePlace
  <2> SUFFICES ASSUME Typed, Placed, Crew PROVE OnePlace
    OBVIOUS
  <2>1. SqEntries = Unsent /\ Elems(SqEntries) = Sent /\ Elems(backlog) = Punted
    BY UnsentIs, ElemsIs DEF Typed, Sent, Punted
  <2>2. /\ Cardinality(Sent) = Len(Unsent) /\ Cardinality(Punted) = Len(backlog)
        /\ Len(Unsent) <= SqSize /\ Len(CqEntries) <= CqSize
    <3>1. Cardinality(Sent) = Len(Unsent)
      BY CountElems DEF Placed, Sent
    <3>2. Cardinality(Punted) = Len(backlog)
      BY BacklogTyped, CountElems DEF Placed, Punted
    <3>3. Len(Unsent) <= SqSize /\ Len(CqEntries) <= CqSize
      BY UnsentIs, ReadyIs DEF Typed, Bounded
    <3> QED BY <3>1, <3>2, <3>3
  <2> DEFINE places == <<Sent, Punted, running, posted>>
  <2>3. \A i, j \in DOMAIN places : i # j => places[i] \cap places[j] = {}
    BY DEF Placed
  <2> QED BY <2>1, <2>2, <2>3 DEF OnePlace, Crew
<1> QED BY <1>1, AlwaysPlaced, PTL

\* The update of a module-handle request is held exactly as long as the request
\* is somewhere, whichever way it leaves: executed, refused or deleted with the
\* work queue.
THEOREM UpdatesHeld == Spec => []UpdateHeldWhileNeeded
<1>1. Typed /\ Placed => UpdateHeldWhileNeeded
  <2> SUFFICES ASSUME Typed, Placed PROVE UpdateHeldWhileNeeded
    OBVIOUS
  <2>1. Elems(SqEntries) = Sent /\ Elems(backlog) = Punted
    BY UnsentIs, ElemsIs DEF Typed, Sent, Punted
  <2> QED BY <2>1 DEF UpdateHeldWhileNeeded, Placed, Occupied
<1> QED BY <1>1, AlwaysPlaced, PTL

----------------------------------------------------------------------------
(* The works of the ring, as a client of the pool.                           *)

LEMMA ClosedKept ==
    ASSUME Watched, [Next]_vars, ~DestroyQueue
    PROVE  Closed' = Closed
<1>1. CASE UNCHANGED vars
  BY <1>1 DEF vars, Closed
<1>2. CASE DestroyCall \/ DestroyStop \/ DestroyFree
  BY <1>2 DEF DestroyCall, DestroyStop, DestroyFree, Closed
<1>3. CASE Next /\ ~DestroyCall /\ ~DestroyStop /\ ~DestroyFree
  <2>1. destroyer' = destroyer
    BY <1>3 DEF Next, ClientStep, GetSqe, SubmitBegin, WaitCqe, LoadHeadCqe, CqAdvance,
                SubmitStep, SubmitNop, SubmitPunt, SubmitSleeps, SubmitFails, SubmitEnd,
                ResumeWaitCqe, StartWork, Finish, PoolStep, Exec, Delete, SpuriousWakeup,
                SpuriousRetry, unchangedBySubmit, unchangedByWait, unchangedByReap, unchangedByPool
  <2> QED BY <2>1 DEF Closed
<1> QED BY <1>1, <1>2, <1>3

LEMMA StepUsesPool ==
    ASSUME Typed, Watched, Placed, Crew, [Next]_vars
    PROVE  [PunterPool!Next]_(PunterPool!vars)
<1>1. Closed = (destroyer \in {"joining", "freed"})
  BY DEF Closed
<1>2. CASE DestroyQueue
  <2>1. /\ backlog' = <<>> /\ UNCHANGED <<running, posted>>
        /\ destroyer = "stopping" /\ destroyer' = "joining"
    BY <1>2 DEF DestroyQueue
  <2>2. PunterPool!Close
    BY <2>1 DEF PunterPool!Close
  <2> QED BY <2>2 DEF PunterPool!Next
<1>3. CASE ~DestroyQueue
  <2>1. Closed' = Closed
    BY <1>3, ClosedKept
  <2>2. ASSUME backlog' = backlog, running' \cup posted' = running \cup posted
        PROVE  UNCHANGED PunterPool!vars
    BY <2>1, <2>2 DEF PunterPool!vars, Closed
  <2>3. CASE Stays \/ Answers \/ Forgets \/ \E r \in Reqs : Gets(r) \/ Executes(r)
    BY <2>2, <2>3 DEF Stays, Answers, Forgets, Gets, Executes
  <2>4. CASE Clears
    BY <1>3, <2>4 DEF Clears
  <2>5. CASE Punts
    <3>1. PICK w \in Calls \cup Handles : w = Head(Unsent)
      BY <2>5 DEF Punts
    <3>2. ~Closed /\ ~Closed'
      BY <2>1, <2>5 DEF Punts, Watched, Stopping, Closed
    <3>3. w \notin Punted /\ w \notin running \cup posted
      BY <2>5, <3>1, SentLeaves DEF Punts, Placed
    <3>4. PunterPool!Accept(w)
      BY <2>5, <3>1, <3>2, <3>3
      DEF Punts, PunterPool!Accept, PunterPool!Queued, Punted, ElemsOf, Closed
    <3> QED BY <3>1, <3>4 DEF PunterPool!Next
  <2>6. CASE Takes
    <3>1. /\ backlog # <<>> /\ backlog' = Tail(backlog)
          /\ running' \cup posted' = (running \cup posted) \cup {Head(backlog)}
      BY <2>6 DEF Takes
    <3>4. Cardinality(running \cup posted) < PoolThreads
      <4>1. PICK n \in Nat : n = Cardinality(running \cup posted)
        BY FS_CardinalityType DEF Crew
      <4>2. n + served <= PoolThreads /\ served \in Nat /\ PoolThreads \in Nat
        BY <4>1, SizeFacts DEF Crew, nr_running_workers, Typed, TypeOK
      <4>3. n + served < PoolThreads \/ served > 0
        BY <2>6, <4>1 DEF Takes, nr_running_workers
      <4> QED BY <4>1, <4>2, <4>3
    <3>2. PunterPool!Cardinality(running \cup posted) = Cardinality(running \cup posted)
      BY DEF Cardinality, PunterPool!Cardinality
    <3>3. PunterPool!Start
      BY <2>1, <3>1, <3>2, <3>4, Zenon DEF PunterPool!Start, Closed
    <3> QED BY <3>3 DEF PunterPool!Next
  <2>7. ASSUME NEW r \in Reqs, Deletes(r) PROVE PunterPool!Next
    <3>1. r \in Calls \cup Handles
      BY <2>7 DEF Deletes, Typed, TypeOK
    <3>2. running' \cup posted' = (running \cup posted) \ {r}
      BY <2>7 DEF Deletes, Placed
    <3>3. PunterPool!Complete(r)
      BY <2>1, <2>7, <3>2 DEF Deletes, PunterPool!Complete, Closed
    <3> QED BY <3>1, <3>3 DEF PunterPool!Next
  <2> QED BY <2>3, <2>4, <2>5, <2>6, <2>7, Moves
<1> QED BY <1>2, <1>3

\* The requests handed to the work queue are what WorkPool says of its works:
\* executed once each, taken in the order they were punted, by no more threads than
\* there are, none accepted once the queue is closed.  With the refinement proved for Workqueue, what that
\* module guarantees of a work holds of a request.
THEOREM RingUsesPool == Spec => UsesWorkPool
<1>1. Init => PunterPool!Init
  BY DEF Init, PunterPool!Init
<1>2. Typed /\ Watched /\ Placed /\ Crew /\ [Next]_vars => [PunterPool!Next]_(PunterPool!vars)
  BY StepUsesPool
<1> QED BY <1>1, <1>2, AlwaysPlaced, PTL DEF Spec, UsesWorkPool, PunterPool!Spec
=============================================================================

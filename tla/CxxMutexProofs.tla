--------------------------- MODULE CxxMutexProofs ---------------------------
(***************************************************************************)
(* The C++ back end of module CxxMutex is a mutex with a condition, for    *)
(* any set of threads and however many unique_locks are allocated.         *)
(***************************************************************************)
EXTENDS CxxMutex, TLAPS

\* Holding the mutex is being between mutex_lock, or the return of cond_wait, and
\* mutex_unlock, or the next cond_wait.
HolderIsIn == \A t \in Threads : pc[t] = "in" <=> mutex = t

\* Only a thread about to delete a lock has one in its local variable.
LocalClear == \A t \in Threads : pc[t] # "deleting" => local[t] = NULL

IInv == TypeOK /\ HolderIsIn /\ LocalClear /\ UnlockSafe

\* The invariant holds initially.
LEMMA InitInv == Init => IInv
BY ThreadsAssumption DEF Init, IInv, TypeOK, HolderIsIn, LocalClear, UnlockSafe

\* mutex_lock and the return of cond_wait take a free mutex.
LEMMA AcquireInv ==
    ASSUME IInv, NEW t \in Threads, mutex_lock(t) \/ WaitReturns(t)
    PROVE  IInv'
<1>1. TypeOK'
  BY DEF IInv, TypeOK, mutex_lock, WaitReturns
<1>2. HolderIsIn'
  BY ThreadsAssumption DEF IInv, TypeOK, HolderIsIn, mutex_lock, WaitReturns
<1>3. LocalClear'
  BY DEF IInv, TypeOK, LocalClear, mutex_lock, WaitReturns
<1>4. UnlockSafe'
  BY DEF IInv, TypeOK, UnlockSafe, mutex_lock, WaitReturns
<1>5. QED
  BY <1>1, <1>2, <1>3, <1>4 DEF IInv

\* mutex_unlock takes the unique_lock out of the field: nobody else has it.
LEMMA UnlockLockInv ==
    ASSUME IInv, NEW t \in Threads, UnlockLock(t)
    PROVE  IInv'
<1>1. TypeOK'
  BY DEF IInv, TypeOK, UnlockLock, Taken
<1>2. HolderIsIn'
  BY ThreadsAssumption DEF IInv, TypeOK, HolderIsIn, UnlockLock
<1>3. LocalClear'
  BY DEF IInv, TypeOK, LocalClear, UnlockLock
<1>4. UnlockSafe'
  <2>1. ulock \in alive /\ ulock \in owns /\ ulock # NULL /\ ulock' = NULL
    BY DEF IInv, UnlockSafe, UnlockLock, Taken
  <2>2. alive' = alive /\ owns' = owns \ {ulock}
    BY DEF UnlockLock
  <2>3. \A s \in Threads : s # t => pc'[s] = pc[s] /\ local'[s] = local[s]
    BY DEF IInv, TypeOK, UnlockLock
  <2>4. local'[t] = ulock
    BY DEF IInv, TypeOK, UnlockLock
  <2>5. \A s \in Threads : local[s] # ulock
    BY <2>1 DEF IInv, LocalClear, UnlockSafe
  <2>6. ASSUME NEW r \in Threads, pc'[r] = "deleting"
        PROVE  /\ local'[r] \in alive' \ owns'
               /\ local'[r] # ulock'
               /\ \A s \in Threads : local'[s] = local'[r] => s = r
    <3>1. CASE r = t
      BY <2>1, <2>2, <2>3, <2>4, <2>5, <3>1
    <3>2. CASE r # t
      <4>1. pc[r] = "deleting" /\ local'[r] = local[r]
        BY <2>3, <2>6, <3>2
      <4>2. /\ local[r] \in alive \ owns
            /\ \A s \in Threads : local[s] = local[r] => s = r
        BY <4>1 DEF IInv, UnlockSafe
      <4>3. local[r] # NULL
        BY <4>2, LocksAssumption DEF IInv, TypeOK
      <4>4. QED
        BY <2>1, <2>2, <2>3, <2>4, <2>5, <4>1, <4>2, <4>3
    <3>3. QED
      BY <3>1, <3>2
  <2>7. QED
    BY <2>1, <2>6 DEF UnlockSafe
<1>5. QED
  BY <1>1, <1>2, <1>3, <1>4 DEF IInv

\* mutex_unlock finds no lock in the field and unlocks the mutex.
LEMMA UnlockMutexInv ==
    ASSUME IInv, NEW t \in Threads, UnlockMutex(t)
    PROVE  IInv'
<1>1. TypeOK'
  BY DEF IInv, TypeOK, UnlockMutex
<1>2. HolderIsIn'
  BY ThreadsAssumption DEF IInv, TypeOK, HolderIsIn, UnlockMutex
<1>3. LocalClear'
  BY DEF IInv, TypeOK, LocalClear, UnlockMutex
<1>4. UnlockSafe'
  BY DEF IInv, TypeOK, UnlockSafe, UnlockMutex
<1>5. QED
  BY <1>1, <1>2, <1>3, <1>4 DEF IInv

\* Deleting a lock leaves alone the one in the field and those of the others.
LEMMA DeleteLockInv ==
    ASSUME IInv, NEW t \in Threads, DeleteLock(t)
    PROVE  IInv'
<1>1. TypeOK'
  BY DEF IInv, TypeOK, DeleteLock
<1>2. HolderIsIn'
  BY ThreadsAssumption DEF IInv, TypeOK, HolderIsIn, DeleteLock
<1>3. LocalClear'
  BY DEF IInv, TypeOK, LocalClear, DeleteLock
<1>4. UnlockSafe'
  <2>1. pc[t] = "deleting" /\ local[t] # ulock /\ local[t] \in alive
    BY DEF IInv, UnlockSafe, DeleteLock
  <2>2. alive' = alive \ {local[t]} /\ owns' = owns /\ ulock' = ulock
    BY DEF DeleteLock
  <2>3. \A s \in Threads : s # t => pc'[s] = pc[s] /\ local'[s] = local[s]
    BY DEF IInv, TypeOK, DeleteLock
  <2>4. pc'[t] = "out" /\ local'[t] = NULL
    BY DEF IInv, TypeOK, DeleteLock
  <2>5. ulock' # NULL => ulock' \in alive' /\ ulock' \in owns'
    BY <2>1, <2>2 DEF IInv, UnlockSafe
  <2>6. ASSUME NEW r \in Threads, pc'[r] = "deleting"
        PROVE  /\ local'[r] \in alive' \ owns'
               /\ local'[r] # ulock'
               /\ \A s \in Threads : local'[s] = local'[r] => s = r
    <3>1. r # t /\ pc[r] = "deleting" /\ local'[r] = local[r]
      BY <2>3, <2>4, <2>6
    <3>2. /\ local[r] \in alive \ owns
          /\ local[r] # ulock
          /\ \A s \in Threads : local[s] = local[r] => s = r
      BY <3>1 DEF IInv, UnlockSafe
    <3>3. local[r] # NULL /\ local[t] # local[r]
      BY <3>1, <3>2, LocksAssumption DEF IInv, TypeOK
    <3>4. QED
      BY <2>2, <2>3, <2>4, <3>1, <3>2, <3>3
  <2>7. QED
    BY <2>5, <2>6 DEF UnlockSafe
<1>5. QED
  BY <1>1, <1>2, <1>3, <1>4 DEF IInv

\* A wait puts a lock of its own in the field, over whatever was there.
LEMMA CondWaitInv ==
    ASSUME IInv, NEW t \in Threads, cond_wait(t)
    PROVE  IInv'
<1>1. PICK l \in Locks \ alive :
          alive' = alive \cup {l} /\ owns' = owns \cup {l} /\ ulock' = l
  BY DEF cond_wait
<1>2. TypeOK'
  BY <1>1 DEF IInv, TypeOK, cond_wait
<1>3. HolderIsIn'
  BY ThreadsAssumption DEF IInv, TypeOK, HolderIsIn, cond_wait
<1>4. LocalClear'
  BY DEF IInv, TypeOK, LocalClear, cond_wait
<1>5. UnlockSafe'
  BY <1>1 DEF IInv, TypeOK, UnlockSafe, cond_wait
<1>6. QED
  BY <1>2, <1>3, <1>4, <1>5 DEF IInv

\* Waking a set of sleepers moves only them.
LEMMA WakeInv ==
    ASSUME IInv, WakeOne \/ WakeAll
    PROVE  IInv'
<1>1. PICK S \in SUBSET Asleep : Wake(S)
  BY DEF WakeOne, WakeAll
<1>2. \A t \in Threads : \/ pc'[t] = pc[t]
                         \/ pc[t] = "asleep" /\ pc'[t] = "signalled"
  BY <1>1 DEF Wake, Asleep
<1>3. UNCHANGED <<mutex, ulock, alive, owns, local>>
  BY <1>1 DEF Wake
<1>4. TypeOK'
  BY <1>1, <1>2, <1>3 DEF IInv, TypeOK, Wake
<1>5. HolderIsIn'
  BY <1>2, <1>3 DEF IInv, HolderIsIn
<1>6. LocalClear'
  BY <1>2, <1>3 DEF IInv, LocalClear
<1>7. UnlockSafe'
  BY <1>2, <1>3 DEF IInv, UnlockSafe
<1>8. QED
  BY <1>4, <1>5, <1>6, <1>7 DEF IInv

\* Every step preserves the invariant.
LEMMA NextInv == IInv /\ [Next]_vars => IInv'
<1>1. SUFFICES ASSUME IInv, [Next]_vars PROVE IInv'
  OBVIOUS
<1>2. CASE UNCHANGED vars
  BY <1>1, <1>2 DEF IInv, TypeOK, HolderIsIn, LocalClear, UnlockSafe, vars
<1>3. ASSUME NEW t \in Threads, mutex_lock(t) \/ WaitReturns(t) PROVE IInv'
  BY <1>1, <1>3, AcquireInv
<1>4. ASSUME NEW t \in Threads, UnlockLock(t) PROVE IInv'
  BY <1>1, <1>4, UnlockLockInv
<1>5. ASSUME NEW t \in Threads, UnlockMutex(t) PROVE IInv'
  BY <1>1, <1>5, UnlockMutexInv
<1>6. ASSUME NEW t \in Threads, DeleteLock(t) PROVE IInv'
  BY <1>1, <1>6, DeleteLockInv
<1>7. ASSUME NEW t \in Threads, cond_wait(t) PROVE IInv'
  BY <1>1, <1>7, CondWaitInv
<1>8. CASE WakeOne \/ WakeAll
  BY <1>1, <1>8, WakeInv
<1>9. QED
  BY <1>1, <1>2, <1>3, <1>4, <1>5, <1>6, <1>7, <1>8 DEF Next

\* The invariant holds throughout.
LEMMA Invariance == Spec => []IInv
BY InitInv, NextInv, PTL DEF Spec

\* mutex_unlock never touches a unique_lock that is deleted, that owns nothing,
\* or that another thread is deleting.
THEOREM UnlockIsSafe == Spec => []UnlockSafe
<1>1. IInv => UnlockSafe
  BY DEF IInv
<1>2. QED
  BY <1>1, Invariance, PTL

\* Every step of the back end is a step of the abstract mutex, or none.
LEMMA StepRefines == IInv /\ [Next]_vars => [Mutex!Next]_(Mutex!vars)
<1> DEFINE Woken == {t \in Threads : pc[t] = "signalled"}
<1>1. SUFFICES ASSUME IInv, [Next]_vars PROVE Mutex!Next \/ UNCHANGED Mutex!vars
  BY DEF Mutex!vars
<1>2. CASE UNCHANGED vars
  BY <1>2 DEF vars, Mutex!vars, Asleep
<1>3. ASSUME NEW t \in Threads, mutex_lock(t) PROVE Mutex!Lock(t)
  <2>1. Asleep' = Asleep /\ Woken' = Woken /\ t \notin Asleep \cup Woken
    BY <1>1, <1>3 DEF IInv, TypeOK, mutex_lock, Asleep
  <2>2. QED
    BY <1>3, <2>1 DEF mutex_lock, Mutex!Lock
<1>4. ASSUME NEW t \in Threads, UnlockLock(t) \/ UnlockMutex(t) PROVE Mutex!Unlock(t)
  <2>1. Asleep' = Asleep /\ Woken' = Woken /\ mutex = t
    BY <1>1, <1>4 DEF IInv, TypeOK, HolderIsIn, UnlockLock, UnlockMutex, Asleep
  <2>2. QED
    BY <1>4, <2>1 DEF UnlockLock, UnlockMutex, Mutex!Unlock
<1>5. ASSUME NEW t \in Threads, DeleteLock(t) PROVE UNCHANGED Mutex!vars
  <2>1. Asleep' = Asleep /\ Woken' = Woken
    BY <1>1, <1>5 DEF IInv, TypeOK, DeleteLock, Asleep
  <2>2. QED
    BY <1>5, <2>1 DEF DeleteLock, Mutex!vars
<1>6. ASSUME NEW t \in Threads, cond_wait(t) PROVE Mutex!Wait(t)
  <2>1. Asleep' = Asleep \cup {t} /\ Woken' = Woken /\ mutex = t
    BY <1>1, <1>6 DEF IInv, TypeOK, HolderIsIn, cond_wait, Asleep
  <2>2. QED
    BY <1>6, <2>1 DEF cond_wait, Mutex!Wait
<1>7. ASSUME NEW t \in Threads, WaitReturns(t) PROVE Mutex!WaitReturns(t)
  <2>1. Asleep' = Asleep /\ Woken' = Woken \ {t} /\ t \in Woken
    BY <1>1, <1>7 DEF IInv, TypeOK, WaitReturns, Asleep
  <2>2. QED
    BY <1>7, <2>1 DEF WaitReturns, Mutex!WaitReturns
<1>8. ASSUME WakeOne \/ WakeAll PROVE \E S \in SUBSET Threads : Mutex!Wake(S)
  <2>1. PICK S \in SUBSET Asleep : S # {} /\ Wake(S)
    BY <1>8 DEF WakeOne, WakeAll
  <2>2. Asleep' = Asleep \ S /\ Woken' = Woken \cup S /\ S \in SUBSET Threads
    BY <2>1 DEF Wake, Asleep
  <2>3. Mutex!Wake(S)
    BY <2>1, <2>2 DEF Wake, Mutex!Wake
  <2>4. QED
    BY <2>2, <2>3
<1>9. QED
  BY <1>1, <1>2, <1>3, <1>4, <1>5, <1>6, <1>7, <1>8 DEF Next, Mutex!Next

\* The back end is a mutex with a condition: one holder at a time, and a wait
\* that has the mutex again when it returns.
THEOREM Refinement == Spec => ImplementsMutex
<1>1. Init => Mutex!Init
  BY DEF Init, Mutex!Init, Asleep
<1>2. QED
  BY <1>1, StepRefines, Invariance, PTL DEF Spec, ImplementsMutex, Mutex!Spec
=============================================================================

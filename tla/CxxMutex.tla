------------------------------ MODULE CxxMutex ------------------------------
(***************************************************************************)
(* The mutex and condition of core/thread.cc as built with                 *)
(* CONFIG_CPP_THREAD, on std::mutex, std::unique_lock and                  *)
(* std::condition_variable.                                                *)
(*                                                                         *)
(* cond_wait makes a unique_lock of the mutex its caller holds, leaves it  *)
(* in the field ulock, where the next cond_wait puts its own, and waits on *)
(* it.  mutex_unlock, whichever thread calls it, unlocks and deletes the   *)
(* unique_lock it finds in ulock, and unlocks the mutex itself when there  *)
(* is none: so a thread may delete the lock another one is asleep on.      *)
(* With libstdc++ a wait reads the unique_lock only as it begins, and      *)
(* leaves its owns flag as it is.                                          *)
(***************************************************************************)
EXTENDS Integers

CONSTANTS
    Threads, NoThread,
    MaxLocks,       \* bound: the unique_locks allocated at a time
    NULL

Locks == 1 .. MaxLocks

ASSUME ThreadsAssumption == NoThread \notin Threads
ASSUME LocksAssumption   == MaxLocks \in Nat /\ NULL \notin Locks

VARIABLES
    pc,         \* "out", "in" (holds the mutex), "asleep", "signalled",
                \* or "deleting" the unique_lock it has unlocked
    mutex,      \* the thread that has locked the std::mutex, or NoThread
    ulock,      \* the field of mutex_struct
    alive,      \* unique_locks allocated and not deleted
    owns,       \* those whose owns flag is set
    local       \* the local variable ulock of each thread

vars == <<pc, mutex, ulock, alive, owns, local>>

Init ==
    /\ pc = [t \in Threads |-> "out"]
    /\ mutex = NoThread
    /\ ulock = NULL
    /\ alive = {}
    /\ owns = {}
    /\ local = [t \in Threads |-> NULL]

----------------------------------------------------------------------------
mutex_lock(t) ==
    /\ pc[t] = "out"
    /\ mutex = NoThread
    /\ mutex' = t
    /\ pc' = [pc EXCEPT ![t] = "in"]
    /\ UNCHANGED <<ulock, alive, owns, local>>

\* Mutant: the field keeps the lock that is going to be deleted.
TakenKept == ulock

\* What mutex_unlock leaves in the field.
Taken == NULL

\* mutex_unlock, which finds a unique_lock: for what it does with it to be
\* defined, the lock must be allocated and own the mutex (UnlockSafe).
UnlockLock(t) ==
    /\ pc[t] = "in"
    /\ ulock # NULL
    /\ mutex' = NoThread
    /\ owns' = owns \ {ulock}
    /\ local' = [local EXCEPT ![t] = ulock]
    /\ ulock' = Taken
    /\ pc' = [pc EXCEPT ![t] = "deleting"]
    /\ UNCHANGED alive

UnlockMutex(t) ==
    /\ pc[t] = "in"
    /\ ulock = NULL
    /\ mutex' = NoThread
    /\ pc' = [pc EXCEPT ![t] = "out"]
    /\ UNCHANGED <<ulock, alive, owns, local>>

\* After the mutex is free.  The destructor of a lock that owns unlocks again.
DeleteLock(t) ==
    /\ pc[t] = "deleting"
    /\ alive' = alive \ {local[t]}
    /\ local' = [local EXCEPT ![t] = NULL]
    /\ pc' = [pc EXCEPT ![t] = "out"]
    /\ UNCHANGED <<mutex, ulock, owns>>

\* cond_wait, which returns without waiting when it cannot allocate the lock.
cond_wait(t) ==
    /\ pc[t] = "in"
    /\ \E l \in Locks \ alive :
          /\ alive' = alive \cup {l}
          /\ owns' = owns \cup {l}
          /\ ulock' = l
    /\ mutex' = NoThread
    /\ pc' = [pc EXCEPT ![t] = "asleep"]
    /\ UNCHANGED local

\* Mutant: the unique_lock unlocks as cond_wait returns.
WaitReturnsUnlocked(t) ==
    /\ pc[t] = "signalled"
    /\ mutex = NoThread
    /\ pc' = [pc EXCEPT ![t] = "in"]
    /\ UNCHANGED <<mutex, ulock, alive, owns, local>>

WaitReturns(t) ==
    /\ pc[t] = "signalled"
    /\ mutex = NoThread
    /\ mutex' = t
    /\ pc' = [pc EXCEPT ![t] = "in"]
    /\ UNCHANGED <<ulock, alive, owns, local>>

Asleep == {t \in Threads : pc[t] = "asleep"}

Wake(S) ==
    /\ pc' = [t \in Threads |-> IF t \in S THEN "signalled" ELSE pc[t]]
    /\ UNCHANGED <<mutex, ulock, alive, owns, local>>

\* cond_signal and a spurious wake-up, and cond_broadcast.
WakeOne == \E t \in Asleep : Wake({t})
WakeAll == Asleep # {} /\ Wake(Asleep)

Next ==
    \/ \E t \in Threads :
          mutex_lock(t) \/ UnlockLock(t) \/ UnlockMutex(t) \/ DeleteLock(t)
             \/ cond_wait(t) \/ WaitReturns(t)
    \/ WakeOne
    \/ WakeAll

Spec == Init /\ [][Next]_vars

----------------------------------------------------------------------------
(* Properties.                                                               *)

\* The variables have their types.
TypeOK ==
    /\ pc \in [Threads -> {"out", "in", "asleep", "signalled", "deleting"}]
    /\ mutex \in Threads \cup {NoThread}
    /\ ulock \in Locks \cup {NULL}
    /\ alive \subseteq Locks /\ owns \subseteq Locks
    /\ local \in [Threads -> Locks \cup {NULL}]

\* mutex_unlock works for whoever calls it: the unique_lock it finds, which may
\* belong to a thread asleep or to one long gone, is allocated and owns the
\* mutex, and nobody else is deleting it; and a thread deletes only a lock that
\* is allocated, that no other thread deletes, and that would not unlock again.
UnlockSafe ==
    /\ ulock # NULL => ulock \in alive /\ ulock \in owns
    /\ \A t \in Threads : pc[t] = "deleting" =>
          /\ local[t] \in alive \ owns
          /\ local[t] # ulock
          /\ \A s \in Threads : local[s] = local[t] => s = t

\* The back end is a mutex with a condition: one holder at a time, although a
\* wait and the unlock after it act on locks of other threads.
Mutex == INSTANCE CondMutex WITH
            holder  <- mutex,
            waiting <- Asleep,
            woken   <- {t \in Threads : pc[t] = "signalled"}
ImplementsMutex == Mutex!Spec
=============================================================================

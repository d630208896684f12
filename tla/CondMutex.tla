------------------------------ MODULE CondMutex ------------------------------
(***************************************************************************)
(* What include/gw/thread.h promises of a mutex and the condition that     *)
(* goes with it: one holder at a time, and a wait that gives the mutex up  *)
(* and has it again when it returns.  Modules Workqueue and GwRing are     *)
(* written on top of it, one critical section per action.                  *)
(***************************************************************************)
CONSTANTS Threads, NoThread

VARIABLES
    holder,     \* the thread that holds the mutex, or NoThread
    waiting,    \* threads asleep in cond_wait,
    woken       \* and those that wait for the mutex to return from it

vars == <<holder, waiting, woken>>

Init == holder = NoThread /\ waiting = {} /\ woken = {}

Lock(t) ==
    /\ holder = NoThread
    /\ t \notin waiting \cup woken
    /\ holder' = t
    /\ UNCHANGED <<waiting, woken>>

Unlock(t) ==
    /\ holder = t
    /\ holder' = NoThread
    /\ UNCHANGED <<waiting, woken>>

Wait(t) ==
    /\ holder = t
    /\ holder' = NoThread
    /\ waiting' = waiting \cup {t}
    /\ UNCHANGED woken

\* A signal, a broadcast, or no reason at all.
Wake(S) ==
    /\ S # {} /\ S \subseteq waiting
    /\ waiting' = waiting \ S
    /\ woken' = woken \cup S
    /\ UNCHANGED holder

WaitReturns(t) ==
    /\ holder = NoThread
    /\ t \in woken
    /\ holder' = t
    /\ woken' = woken \ {t}
    /\ UNCHANGED waiting

Next ==
    \/ \E t \in Threads : Lock(t) \/ Unlock(t) \/ Wait(t) \/ WaitReturns(t)
    \/ \E S \in SUBSET Threads : Wake(S)

Spec == Init /\ [][Next]_vars
=============================================================================

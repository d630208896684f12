------------------------------ MODULE WorkPool ------------------------------
(***************************************************************************)
(* What the work queue of core/workqueue.c promises to its callers: works  *)
(* are accepted into a bounded backlog, started once each in the order     *)
(* they were accepted by at most MaxThreads threads, and completed once    *)
(* each.  Closing the pool discards the backlog; nothing is accepted or    *)
(* started afterwards, and what runs is completed.                         *)
(***************************************************************************)
EXTENDS Integers, Sequences, FiniteSets

CONSTANTS Works, Cap, MaxThreads

VARIABLES
    backlog,    \* accepted works not started yet, oldest first
    inflight,   \* works being run
    closed      \* whether the pool is being destroyed

vars == <<backlog, inflight, closed>>

Queued == {backlog[k] : k \in DOMAIN backlog}

Init == backlog = <<>> /\ inflight = {} /\ closed = FALSE

Accept(w) ==
    /\ ~closed
    /\ w \notin Queued \cup inflight
    /\ Len(backlog) < Cap
    /\ backlog' = Append(backlog, w)
    /\ UNCHANGED <<inflight, closed>>

Start ==
    /\ backlog # <<>>
    /\ Cardinality(inflight) < MaxThreads
    /\ inflight' = inflight \cup {Head(backlog)}
    /\ backlog' = Tail(backlog)
    /\ UNCHANGED closed

Complete(w) ==
    /\ w \in inflight
    /\ inflight' = inflight \ {w}
    /\ UNCHANGED <<backlog, closed>>

Close ==
    /\ ~closed
    /\ closed' = TRUE
    /\ backlog' = <<>>
    /\ UNCHANGED inflight

Next ==
    \/ \E w \in Works : Accept(w) \/ Complete(w)
    \/ Start
    \/ Close

Spec == Init /\ [][Next]_vars

(* Every backlog is eventually started on and every started work completes.  *)
Fairness == WF_vars(Start) /\ \A w \in Works : WF_vars(Complete(w))
=============================================================================

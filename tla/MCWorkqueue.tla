---------------------------- MODULE MCWorkqueue ----------------------------
(* Instances of Workqueue for TLC.                                           *)
EXTENDS Workqueue, TLC

\* Works and callers are interchangeable.  Used without liveness only.
Symmetry == Permutations(Works) \cup Permutations(Queuers)
               \cup Permutations(Waiters)
=============================================================================

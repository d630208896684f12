------------------------------ MODULE MCGwRing ------------------------------
(* Instances of GwRing for TLC.                                              *)
EXTENDS GwRing

\* Everything but the entries that have been consumed, which no action reads
\* before it overwrites them.
LiveView ==
    <<should_stop, wait_cqe_cond_flag, sq_head, sq_tail, cq_head, cq_tail,
      Entries(sq_head, sq_tail, sqes, SqSize), CqEntries, client, cursor, seen,
      pool, held, destroyer>>
=============================================================================

------------------------------- MODULE MCBot -------------------------------
(* Instances of Bot for TLC.                                                 *)
EXTENDS Bot

\* Everything but the entries that have been consumed, which no action reads
\* before it overwrites them.
BotView ==
    <<sq_head, sq_tail, cq_head, cq_tail, wait_cqe_cond_flag,
      Entries(sq_head, sq_tail, sqes, SqSize), CqEntries, client, cursor, seen,
      pool, held, main, server, updates, failed, executed>>
=============================================================================

----------------------------- MODULE MCSoloJobs -----------------------------
(* SoloJobs for TLC; the constants are in SoloJobs.cfg.                     *)
EXTENDS SoloJobs

CONSTANTS t1, t2

\* A block has room for all transactions, but one may be dated too far ahead;
\* or it has room for one only, next to the reward.
SomeCases ==
  {[early |-> {}, max_txs |-> 3], [early |-> {t2}, max_txs |-> 3],
   [early |-> {}, max_txs |-> 2]}
=============================================================================

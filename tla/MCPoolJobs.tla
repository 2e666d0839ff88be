----------------------------- MODULE MCPoolJobs -----------------------------
(* PoolJobs for TLC; MaxBlocks is in PoolJobs.cfg.                          *)
EXTENDS PoolJobs
=============================================================================

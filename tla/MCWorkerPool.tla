---------------------------- MODULE MCWorkerPool ----------------------------
(* WorkerPool for TLC; the constants are in WorkerPool.cfg.                 *)
EXTENDS WorkerPoolInv
=============================================================================

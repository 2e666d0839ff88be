---------------------------- MODULE MiningRound ----------------------------
(***************************************************************************)
(* What Miner::mine_block promises its callers (run_solo and run_pool):    *)
(* a call publishes one job, and it ends by returning a solution of THAT   *)
(* job, by returning nothing (cancelled or stopped), or by throwing.  How  *)
(* a pool of threads, two condition variables and a handful of atomics     *)
(* achieve it is the business of WorkerPool, which implements this module. *)
(***************************************************************************)
CONSTANTS Workers,      \* the threads that may find a solution
          Jobs,         \* the jobs a caller may pass to mine_block
          NoSolution    \* MiningResult with found = false

VARIABLES phase,        \* "idle", "mining", "failed" or "closed"
          current,      \* the job of the call in progress, or of the last one
          result        \* what the last call returned

roundVars == <<phase, current, result>>

\* A solution names the job it solves and the thread that computed it.
Solution == [job : Jobs, by : Workers]

\* MiningResult: the nonce and the hash of a result are one solution's.
NoResult == [nonce |-> NoSolution, hash |-> NoSolution]
ResultFor(j) == {[nonce |-> s, hash |-> s] : s \in {t \in Solution : t.job = j}}

RoundInit ==
  /\ phase = "idle"
  /\ current \in Jobs
  /\ result = NoResult

Begin(j) ==
  /\ phase = "idle"
  /\ phase' = "mining"
  /\ current' = j
  /\ result' = NoResult

Return ==
  /\ phase = "mining"
  /\ phase' = "idle"
  /\ result' \in ResultFor(current) \cup {NoResult}
  /\ UNCHANGED current

Throw ==
  /\ phase = "mining"
  /\ phase' = "failed"
  /\ UNCHANGED <<current, result>>

Close ==
  /\ phase = "idle"
  /\ phase' = "closed"
  /\ UNCHANGED <<current, result>>

RoundNext == (\E j \in Jobs : Begin(j)) \/ Return \/ Throw \/ Close

RoundSpec == RoundInit /\ [][RoundNext]_roundVars
=============================================================================

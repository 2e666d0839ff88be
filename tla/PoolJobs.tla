------------------------------- MODULE PoolJobs -------------------------------
(***************************************************************************)
(* Mining for a pool that speaks the node protocol: Miner::run_pool        *)
(* (src/miner.cpp), its event thread, which stores the blocks the pool     *)
(* announces, and its main loop, which turns the stored block into a job,  *)
(* has it mined and submits the result.                                    *)
(*                                                                         *)
(* A block is the number under which the pool announced it.  The event     *)
(* thread stores the block under job_mutex and counts it in job_version    *)
(* after releasing the mutex: two actions.  The main loop reads both in    *)
(* one critical section: one action.  mine_block is its abstraction        *)
(* (MiningRound): it finds a solution, or returns nothing once job_version *)
(* differs from the version it was told to watch, or on a stop.  What the  *)
(* event thread does when its stream breaks leaves block and version       *)
(* alone and is the subject of EventStream.                                *)
(***************************************************************************)
EXTENDS Naturals

CONSTANT MaxBlocks  \* bound on the blocks the pool announces

ASSUME PoolJobsAssumption == MaxBlocks \in Nat

VARIABLES
  stop,         \* stop_
  paused,       \* paused_
  latest_job,   \* latest_job, 0 before there is one
  job_version,  \* job_version
  epc,          \* the event thread: "wait"ing, or about to "count" a block
  mpc,          \* where the main loop is
  block,        \* block
  version,      \* active_job_version
  prepared,     \* prepared_job and prepared_job_version, version 0 if invalid
  job           \* job: the block it was built from

eventVars == <<latest_job, job_version, epc>>
mainVars  == <<mpc, block, version, prepared, job>>
userVars  == <<stop, paused>>
poolJobsVars == <<eventVars, mainVars, userVars>>

MainPC == {"loop", "read", "prepare", "mine", "check", "submit", "done"}
Blocks == 0 .. MaxBlocks

PoolJobsInit ==
  /\ stop = FALSE /\ paused = FALSE
  /\ latest_job = 0 /\ job_version = 0 /\ epc = "wait"
  /\ mpc = "loop" /\ block = 0 /\ version = 0
  /\ prepared = [version |-> 0, block |-> 0] /\ job = 0

(***************************************************************************)
(* A definition named D_<fault> is D with a plausible bug seeded; nothing  *)
(* of the specification uses it.  Each one breaks a property below.        *)
(***************************************************************************)

(***************************************************************************)
(* The event thread.  Once stopped, it leaves at the head of its loop.     *)
(***************************************************************************)
StoreBlock ==
  /\ epc = "wait"
  /\ latest_job < MaxBlocks
  /\ epc' = "count"
  /\ latest_job' = latest_job + 1
  /\ UNCHANGED <<job_version, mainVars, userVars>>

CountBlock ==
  /\ epc = "count"
  /\ epc' = "wait"
  /\ job_version' = job_version + 1
  /\ UNCHANGED <<latest_job, mainVars, userVars>>

(***************************************************************************)
(* The main loop.                                                          *)
(***************************************************************************)
Leave ==
  /\ mpc \in {"loop", "read"}
  /\ stop
  /\ mpc' = "done"
  /\ UNCHANGED <<eventVars, block, version, prepared, job, userVars>>

\* Not paused and a block counted; otherwise the loop sleeps and looks again.
StartIteration ==
  /\ mpc = "loop"
  /\ ~stop /\ ~paused
  /\ job_version > 0
  /\ mpc' = "read"
  /\ UNCHANGED <<eventVars, block, version, prepared, job, userVars>>

ReadJob ==
  /\ mpc = "read"
  /\ ~stop
  /\ mpc' = "prepare"
  /\ block' = latest_job
  /\ version' = job_version
  /\ UNCHANGED <<eventVars, prepared, job, userVars>>

\* The prepared job is not the one for this version.
NeedsPreparing == prepared.version # version

Prepare ==
  /\ mpc = "prepare"
  /\ mpc' = "mine"
  /\ prepared' = IF NeedsPreparing THEN [version |-> version, block |-> block]
                                   ELSE prepared
  /\ job' = prepared'.block
  /\ UNCHANGED <<eventVars, block, version, userVars>>

\* The workers' cancel check: the version they watch has moved on.
Cancelled_Never == FALSE
Cancelled == job_version # version

MineNothing ==
  /\ mpc = "mine"
  /\ Cancelled \/ stop
  /\ mpc' = "loop"
  /\ UNCHANGED <<eventVars, block, version, prepared, job, userVars>>

MineSolution ==
  /\ mpc = "mine"
  /\ mpc' = "check"
  /\ UNCHANGED <<eventVars, block, version, prepared, job, userVars>>

\* The version for which the solution was mined is still the current one.
StillCurrent_Unchecked == TRUE
StillCurrent == job_version = version

CheckVersion ==
  /\ mpc = "check"
  /\ mpc' = IF StillCurrent THEN "submit" ELSE "loop"
  /\ UNCHANGED <<eventVars, block, version, prepared, job, userVars>>

\* submit_candidate accepts, rejects or throws: the loop goes on.
Submit ==
  /\ mpc = "submit"
  /\ mpc' = "loop"
  /\ UNCHANGED <<eventVars, block, version, prepared, job, userVars>>

(***************************************************************************)
(* The user: request_stop, request_pause, request_resume.                  *)
(***************************************************************************)
Stop ==
  /\ ~stop
  /\ stop' = TRUE
  /\ UNCHANGED <<eventVars, mainVars, paused>>

PauseOrResume ==
  /\ paused' = ~paused
  /\ UNCHANGED <<eventVars, mainVars, stop>>
-----------------------------------------------------------------------------
\* What the main loop does without the luck of finding a solution.
MainSteps ==
  \/ Leave \/ StartIteration \/ ReadJob \/ Prepare \/ MineNothing
  \/ CheckVersion \/ Submit

PoolJobsNext ==
  \/ StoreBlock \/ CountBlock \/ MainSteps \/ MineSolution
  \/ Stop \/ PauseOrResume

PoolJobsSpec == PoolJobsInit /\ [][PoolJobsNext]_poolJobsVars

(***************************************************************************)
(* Both threads run, mine_block returns when it must (WorkerPool), a block *)
(* stored is counted at once.  The pool, the user and luck owe nothing.    *)
(***************************************************************************)
Fairness == WF_poolJobsVars(MainSteps) /\ WF_poolJobsVars(CountBlock)

FairPoolJobsSpec == PoolJobsSpec /\ Fairness
-----------------------------------------------------------------------------
PoolJobsTypeOK ==
  /\ stop \in BOOLEAN /\ paused \in BOOLEAN
  /\ latest_job \in Blocks /\ job_version \in Blocks
  /\ epc \in {"wait", "count"}
  /\ mpc \in MainPC
  /\ block \in Blocks /\ version \in Blocks /\ job \in Blocks
  /\ prepared \in [version : Blocks, block : Blocks]

\* The block is stored before it is counted.
StoredBeforeCounted ==
  latest_job = IF epc = "count" THEN job_version + 1 ELSE job_version

\* The main loop's copies: the block it read is the one of the version it
\* read or the one about to be counted, never an older one, and the prepared
\* job was built for the version it is filed under, or that one's successor.
NeverBehindItsVersion ==
  /\ block \in {version, version + 1} /\ block <= latest_job
  /\ version <= job_version
  /\ prepared.block \in {prepared.version, prepared.version + 1}
  /\ prepared.block <= latest_job /\ prepared.version <= version

\* What is mined, checked and submitted is the prepared job of the version
\* that mine_block was told to watch.
MinesThePreparedJob ==
  mpc \in {"mine", "check", "submit"} =>
    /\ version > 0
    /\ prepared.version = version /\ job = prepared.block

\* The inductive invariant: two threads share a block and a counter that do
\* not change together, and the main loop caches what it made of them.
PoolJobsInv ==
  /\ PoolJobsTypeOK
  /\ StoredBeforeCounted
  /\ NeverBehindItsVersion
  /\ MinesThePreparedJob
  /\ mpc \in {"read", "prepare", "mine", "check", "submit"} => job_version > 0
  /\ mpc = "prepare" => version > 0

\* At the moment the main loop decides to submit, the block it has mined is
\* not older than any block the event thread has counted: job_version is
\* checked, and the block is not, yet the block is fresh.
SubmitsNoOldBlock ==
  [][mpc = "check" /\ mpc' = "submit" => job >= job_version /\ job >= latest_job - 1]_poolJobsVars

\* A block the pool has announced is mined, or a newer one is, unless the
\* user pauses or stops: job_version is what gets mine_block out of the old job.
NewBlockIsMined ==
  \A n \in 1 .. MaxBlocks :
    latest_job >= n ~> (mpc = "mine" /\ job >= n) \/ paused \/ stop
=============================================================================

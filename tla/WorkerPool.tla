----------------------------- MODULE WorkerPool -----------------------------
(***************************************************************************)
(* The mining thread pool of Miner (src/miner.cpp): the persistent workers *)
(* of mining_worker_loop, the caller that publishes a job to them and      *)
(* waits in mine_block, stop_mining_workers, and request_stop /            *)
(* request_pause / request_resume called from the hotkey and signal        *)
(* threads while all of that is going on.                                  *)
(*                                                                         *)
(* One action is one critical section of work_mutex_ or one access to the  *)
(* atomics that are read without it.  Only mine_block's wait reads an      *)
(* atomic (stop_) in its predicate, so only there does a thread keep the   *)
(* mutex between two actions (mpc = "block"): it has found its predicate   *)
(* false and has not gone to sleep yet.                                    *)
(*                                                                         *)
(* A hash attempt hits, misses or throws nondeterministically.  A solution *)
(* is the pair of the job hashed and the worker that hashed it.            *)
(* work_active_ is assigned by the code and never read; it is left out.    *)
(***************************************************************************)
EXTENDS Naturals, FiniteSets

CONSTANTS Workers,        \* worker ids, 0 .. thread_count - 1 in the code
          Jobs,           \* the jobs run_solo / run_pool pass to mine_block
          NoSolution,     \* a zero nonce / Hash::zero()
          CheckInterval,  \* kHotLoopControlCheckInterval (16 in the code)
          MaxRounds       \* bound on the number of mine_block calls

ASSUME PoolAssumption ==
  /\ IsFiniteSet(Workers) /\ Workers # {}
  /\ Jobs # {}
  /\ NoSolution \notin [job : Jobs, by : Workers]
  /\ CheckInterval \in Nat \ {0}
  /\ MaxRounds \in Nat

VARIABLES
  stop,          \* stop_
  work_quit,     \* work_quit_
  paused,        \* paused_
  work_stop,     \* work_stop_
  generation,    \* work_generation_
  active_job,    \* active_job_
  cancel_ref,    \* active_cancel_*_: the frame it points into, 0 for nullptr
  completed,     \* workers_completed_
  finished,      \* work_finished_
  error,         \* work_error_ # nullptr
  found,         \* work_found_
  found_nonce,   \* work_found_nonce_
  found_hash,    \* work_found_hash_
  pc,            \* where each worker is
  observed,      \* each worker's observed_generation
  job,           \* each worker's copy of the job
  signal,        \* each worker's copy of the cancel pointer
  skip,          \* hot-loop iterations left until the next control check, 0 outside
  mpc,           \* where the thread that calls mine_block is
  call_job,      \* the argument of the mine_block call
  result,        \* mine_block's local result
  frame,         \* the call whose cancel objects are alive, 0 for none
  cancelled,     \* those objects say: give this job up
  cpc            \* where the thread that calls request_stop is

poolVars   == <<work_stop, generation, active_job, cancel_ref, completed,
                finished, error>>
foundVars  == <<found, found_nonce, found_hash>>
workerVars == <<pc, observed, job, signal, skip>>
callVars   == <<mpc, call_job, result, frame, cancelled>>
userVars   == <<stop, paused, cpc>>
vars == <<poolVars, foundVars, workerVars, callVars, userVars, work_quit>>

\* "unborn" until the thread is created; "idle" at the top of the loop;
\* "asleep" in work_cv_.wait; "control" .. "hashval" in the hot loop;
\* "throw" in the catch block; "finish" about to report completion.
HotLoop == {"control", "cancel", "hash", "nonce", "hashval"}
Busy    == HotLoop \cup {"throw", "finish"}
WorkerPC == Busy \cup {"unborn", "idle", "asleep", "exited"}

Waiting == {"wait", "block", "asleep"}
InCall  == Waiting \cup {"call", "notify", "collect", "collect_hash", "clear",
                       "rethrow"}
CallerPC == InCall \cup {"init", "reset", "spawn", "loop", "returned", "threw",
                         "quit", "quit_lock", "quit_notify", "join", "exited"}

Solution == [job : Jobs, by : Workers]
NoResult == [nonce |-> NoSolution, hash |-> NoSolution]

Init ==
  /\ stop = FALSE /\ paused = FALSE /\ cpc = "idle"
  /\ work_quit = FALSE /\ work_stop = FALSE
  /\ generation = 0 /\ cancel_ref = 0 /\ completed = 0
  /\ finished = FALSE /\ error = FALSE
  /\ active_job \in Jobs /\ call_job \in Jobs
  /\ found = FALSE /\ found_nonce = NoSolution /\ found_hash = NoSolution
  /\ pc = [w \in Workers |-> "unborn"]
  /\ observed = [w \in Workers |-> 0]
  /\ job = [w \in Workers |-> active_job]
  /\ signal = [w \in Workers |-> 0]
  /\ skip = [w \in Workers |-> 0]
  /\ mpc = "init" /\ result = NoResult
  /\ frame = 0 /\ cancelled = FALSE

MutexFree == mpc # "block"

Move(w, to) == pc' = [pc EXCEPT ![w] = to]

\* notify_all on work_cv_ and notify_one / notify_all on work_done_cv_.
WakeWorkers == [w \in Workers |-> IF pc[w] = "asleep" THEN "idle" ELSE pc[w]]
WakeCaller_Forgotten == mpc
WakeCaller == IF mpc = "asleep" THEN "wait" ELSE mpc

(***************************************************************************)
(* A definition named D_<fault> is D with a plausible bug seeded; nothing  *)
(* of the specification uses it.  Each one breaks a property below.        *)
(***************************************************************************)

(***************************************************************************)
(* The thread that runs Miner::run: ensure_mining_workers_started.         *)
(***************************************************************************)
EnsureClearFlags ==
  /\ mpc = "init"
  /\ mpc' = "reset"
  /\ work_quit' = FALSE
  /\ found' = FALSE
  /\ UNCHANGED <<poolVars, found_nonce, found_hash, workerVars, call_job,
                 result, frame, cancelled, userVars>>

EnsureReset ==
  /\ mpc = "reset"
  /\ mpc' = "spawn"
  /\ work_stop' = FALSE
  /\ finished' = FALSE
  /\ completed' = 0
  /\ error' = FALSE
  /\ cancel_ref' = 0
  /\ UNCHANGED <<generation, active_job, foundVars, workerVars, call_job,
                 result, frame, cancelled, userVars, work_quit>>

Spawn(w) ==
  /\ mpc = "spawn"
  /\ pc[w] = "unborn"
  /\ Move(w, "idle")
  /\ mpc' = IF \A v \in Workers \ {w} : pc[v] # "unborn" THEN "loop" ELSE "spawn"
  /\ UNCHANGED <<poolVars, foundVars, observed, job, signal, skip,
                 call_job, result, frame, cancelled, userVars, work_quit>>

\* std::thread's constructor throws: stop the workers already created.
SpawnFails ==
  /\ mpc = "spawn"
  /\ mpc' = IF \A w \in Workers : pc[w] = "unborn" THEN "exited" ELSE "quit"
  /\ UNCHANGED <<poolVars, foundVars, workerVars, call_job, result, frame,
                 cancelled, userVars, work_quit>>

(***************************************************************************)
(* mine_block and its callers' loops.  The caller owns the objects the     *)
(* cancel pointers point at: they live in a stack frame, number            *)
(* generation + 1, from before the call until the caller's next iteration. *)
(***************************************************************************)
CallMineBlock(j) ==
  /\ mpc = "loop"
  /\ ~stop /\ ~paused
  /\ generation < MaxRounds
  /\ mpc' = "call"
  /\ call_job' = j
  /\ frame' = generation + 1
  /\ cancelled' = FALSE
  /\ result' = NoResult
  /\ UNCHANGED <<poolVars, foundVars, workerVars, userVars, work_quit>>

\* The bookkeeping of a round that starts.
ResetRound == completed' = 0 /\ finished' = FALSE /\ error' = FALSE

Publish ==
  /\ mpc = "call"
  /\ mpc' = "notify"
  /\ active_job' = call_job
  /\ cancel_ref' = frame
  /\ ResetRound
  /\ found' = FALSE
  /\ found_nonce' = NoSolution
  /\ found_hash' = NoSolution
  /\ generation' = generation + 1
  /\ UNCHANGED <<work_stop, workerVars, call_job, result, frame, cancelled,
                 userVars, work_quit>>

NotifyWorkers ==
  /\ mpc = "notify"
  /\ mpc' = "wait"
  /\ pc' = WakeWorkers
  /\ UNCHANGED <<poolVars, foundVars, observed, job, signal, skip,
                 call_job, result, frame, cancelled, userVars, work_quit>>

\* One evaluation of the predicate work_finished_ || stop_, mutex held.
EvaluateWait ==
  /\ mpc = "wait"
  /\ mpc' = CASE ~finished /\ ~stop -> "block"
              [] ~finished /\ stop  -> "clear"
              [] finished /\ error  -> "rethrow"
              [] finished /\ ~error -> "collect"
  /\ UNCHANGED <<poolVars, foundVars, workerVars, call_job, result, frame,
                 cancelled, userVars, work_quit>>

FallAsleep ==
  /\ mpc = "block"
  /\ mpc' = "asleep"
  /\ UNCHANGED <<poolVars, foundVars, workerVars, call_job, result, frame,
                 cancelled, userVars, work_quit>>

\* A condition variable may wake a waiter nobody notified.
SpuriousWakeup ==
  \/ /\ mpc = "asleep"
     /\ mpc' = "wait"
     /\ UNCHANGED pc
     /\ UNCHANGED <<poolVars, foundVars, observed, job, signal, skip,
                    call_job, result, frame, cancelled, userVars, work_quit>>
  \/ \E w \in Workers :
       /\ pc[w] = "asleep"
       /\ Move(w, "idle")
       /\ UNCHANGED <<poolVars, foundVars, observed, job, signal, skip,
                      callVars, userVars, work_quit>>

CollectNonce ==
  /\ mpc = "collect"
  /\ IF found
     THEN /\ mpc' = "collect_hash"
          /\ result' = [result EXCEPT !.nonce = found_nonce]
     ELSE /\ mpc' = "clear"
          /\ UNCHANGED result
  /\ UNCHANGED <<poolVars, foundVars, workerVars, call_job, frame, cancelled,
                 userVars, work_quit>>

CollectHash ==
  /\ mpc = "collect_hash"
  /\ mpc' = "clear"
  /\ result' = [result EXCEPT !.hash = found_hash]
  /\ UNCHANGED <<poolVars, foundVars, workerVars, call_job, frame, cancelled,
                 userVars, work_quit>>

\* clear_cancel_refs, then return the result or rethrow work_error_.
ClearCancelRefs ==
  /\ mpc \in {"clear", "rethrow"}
  /\ mpc' = IF mpc = "rethrow" THEN "threw" ELSE "returned"
  /\ cancel_ref' = 0
  /\ UNCHANGED <<work_stop, generation, active_job, completed, finished, error,
                 foundVars, workerVars, call_job, result, frame, cancelled,
                 userVars, work_quit>>

\* The caller is done with the result; its cancel objects go out of scope.
NextIteration ==
  /\ mpc = "returned"
  /\ mpc' = "loop"
  /\ frame' = 0
  /\ UNCHANGED <<poolVars, foundVars, workerVars, call_job, result, cancelled,
                 userVars, work_quit>>

\* Another thread (stale watcher, chain events) gives the current job up.
Cancel ==
  /\ frame # 0
  /\ ~cancelled
  /\ cancelled' = TRUE
  /\ UNCHANGED <<poolVars, foundVars, workerVars, mpc, call_job, result, frame,
                 userVars, work_quit>>
(***************************************************************************)
(* stop_mining_workers, at the end of Miner::run or after a failed Spawn.  *)
(***************************************************************************)
CallerStops ==
  /\ mpc = "loop"
  /\ stop
  /\ mpc' = "quit"
  /\ UNCHANGED <<poolVars, foundVars, workerVars, call_job, result, frame,
                 cancelled, userVars, work_quit>>

QuitFlag ==
  /\ mpc = "quit"
  /\ mpc' = "quit_lock"
  /\ work_quit' = TRUE
  /\ UNCHANGED <<poolVars, foundVars, workerVars, call_job, result, frame,
                 cancelled, userVars>>

QuitLocked ==
  /\ mpc = "quit_lock"
  /\ mpc' = "quit_notify"
  /\ work_stop' = TRUE
  /\ finished' = TRUE
  /\ cancel_ref' = 0
  /\ UNCHANGED <<generation, active_job, completed, error, foundVars, workerVars,
                 call_job, result, frame, cancelled, userVars, work_quit>>

QuitNotify ==
  /\ mpc = "quit_notify"
  /\ mpc' = "join"
  /\ pc' = WakeWorkers
  /\ UNCHANGED <<poolVars, foundVars, observed, job, signal, skip,
                 call_job, result, frame, cancelled, userVars, work_quit>>

JoinWorkers ==
  /\ mpc = "join"
  /\ \A w \in Workers : pc[w] \in {"unborn", "exited"}
  /\ mpc' = "exited"
  /\ UNCHANGED <<poolVars, foundVars, workerVars, call_job, result, frame,
                 cancelled, userVars, work_quit>>

(***************************************************************************)
(* mining_worker_loop.                                                     *)
(***************************************************************************)
\* work_cv_.wait and, once its predicate holds, the copy of the round.
TakeJob(w) ==
  /\ pc[w] = "idle"
  /\ MutexFree
  /\ ~work_stop /\ generation # observed[w]
  /\ Move(w, "control")
  /\ observed' = [observed EXCEPT ![w] = generation]
  /\ job' = [job EXCEPT ![w] = active_job]
  /\ signal' = [signal EXCEPT ![w] = cancel_ref]
  /\ skip' = [skip EXCEPT ![w] = 0]
  /\ UNCHANGED <<poolVars, foundVars, callVars, userVars, work_quit>>

WaitForWork(w) ==
  /\ pc[w] = "idle"
  /\ MutexFree
  /\ Move(w, IF work_stop THEN "exited" ELSE "asleep")
  /\ work_stop \/ generation = observed[w]
  /\ UNCHANGED <<poolVars, foundVars, observed, job, signal, skip,
                 callVars, userVars, work_quit>>

\* An iteration of the hot loop that does not look at the control flags.
SkipControl(w) ==
  /\ pc[w] = "control"
  /\ skip[w] > 0
  /\ skip' = [skip EXCEPT ![w] = @ - 1]
  /\ Move(w, "hash")
  /\ UNCHANGED <<poolVars, foundVars, observed, job, signal, callVars,
                 userVars, work_quit>>

ControlFlags(w) ==
  /\ pc[w] = "control"
  /\ skip[w] = 0
  /\ Move(w, IF stop \/ work_quit \/ found THEN "finish" ELSE "cancel")
  /\ skip' = [skip EXCEPT ![w] = IF pc'[w] = "finish" THEN 0 ELSE CheckInterval - 1]
  /\ UNCHANGED <<poolVars, foundVars, observed, job, signal, callVars,
                 userVars, work_quit>>

\* What the worker may read through its cancel pointer: nullptr never says
\* cancel, and a pointer into a frame that is gone may read as anything.
CancelSeen(w) == IF signal[w] = 0 THEN {FALSE}
                 ELSE IF signal[w] = frame THEN {cancelled}
                 ELSE BOOLEAN

\* The rest of the control check.  A paused worker sleeps 50 ms and
\* continues with the next iteration of the hot loop.
ControlCancel(w) ==
  /\ pc[w] = "cancel"
  /\ \E giveUp \in CancelSeen(w) :
       /\ Move(w, IF giveUp THEN "finish" ELSE IF paused THEN "control" ELSE "hash")
       /\ skip' = [skip EXCEPT ![w] = IF giveUp THEN 0 ELSE @]
  /\ UNCHANGED <<poolVars, foundVars, observed, job, signal, callVars,
                 userVars, work_quit>>

Miss(w) ==
  /\ pc[w] = "hash"
  /\ Move(w, "control")
  /\ UNCHANGED <<poolVars, foundVars, observed, job, signal, skip,
                 callVars, userVars, work_quit>>

\* work_found_.compare_exchange_strong(false, true) would succeed.
MayClaim_PlainStore == TRUE
MayClaim == ~found

Hit(w) ==
  /\ pc[w] = "hash"
  /\ Move(w, IF MayClaim THEN "nonce" ELSE "finish")
  /\ found' = TRUE
  /\ skip' = [skip EXCEPT ![w] = 0]
  /\ UNCHANGED <<poolVars, found_nonce, found_hash, observed, job, signal,
                 callVars, userVars, work_quit>>

SolutionOf(w) == [job |-> job[w], by |-> w]

StoreNonce(w) ==
  /\ pc[w] = "nonce"
  /\ Move(w, "hashval")
  /\ found_nonce' = SolutionOf(w)
  /\ UNCHANGED <<poolVars, found, found_hash, observed, job, signal, skip,
                 callVars, userVars, work_quit>>

StoreHash(w) ==
  /\ pc[w] = "hashval"
  /\ Move(w, "finish")
  /\ found_hash' = SolutionOf(w)
  /\ UNCHANGED <<poolVars, found, found_nonce, observed, job, signal, skip,
                 callVars, userVars, work_quit>>

\* Hashing throws: the catch block first stops the other workers ...
HashThrows(w) ==
  /\ pc[w] = "hash"
  /\ Move(w, "throw")
  /\ found' = TRUE
  /\ skip' = [skip EXCEPT ![w] = 0]
  /\ UNCHANGED <<poolVars, found_nonce, found_hash, observed, job, signal,
                 callVars, userVars, work_quit>>

\* ... and then keeps the exception, unless another one is kept already.
ErrorAfter(w) == error \/ observed[w] = generation

RecordError(w) ==
  /\ pc[w] = "throw"
  /\ MutexFree
  /\ Move(w, "finish")
  /\ error' = ErrorAfter(w)
  /\ UNCHANGED <<work_stop, generation, active_job, cancel_ref, completed,
                 finished, foundVars, observed, job, signal, skip,
                 callVars, userVars, work_quit>>

\* The report that completes the round.
IsLast_OneEarly(n) == n + 1 >= Cardinality(Workers)
IsLast(n) == n >= Cardinality(Workers)

Finish(w) ==
  /\ pc[w] = "finish"
  /\ MutexFree
  /\ Move(w, "idle")
  /\ IF observed[w] = generation
     THEN /\ completed' = completed + 1
          /\ IF IsLast(completed + 1)
             THEN finished' = TRUE /\ mpc' = WakeCaller
             ELSE UNCHANGED <<finished, mpc>>
     ELSE UNCHANGED <<completed, finished, mpc>>
  /\ UNCHANGED <<work_stop, generation, active_job, cancel_ref, error, foundVars,
                 observed, job, signal, skip, call_job, result, frame,
                 cancelled, userVars, work_quit>>

(***************************************************************************)
(* request_stop, request_pause and request_resume, from the hotkey watcher *)
(* and the signal handlers.  A stop may be requested again and again.      *)
(***************************************************************************)
StopFlag ==
  /\ cpc = "idle"
  /\ cpc' = "quit"
  /\ stop' = TRUE
  /\ UNCHANGED <<poolVars, foundVars, workerVars, callVars, paused, work_quit>>

StopQuit ==
  /\ cpc = "quit"
  /\ cpc' = "lock"
  /\ work_quit' = TRUE
  /\ UNCHANGED <<poolVars, foundVars, workerVars, callVars, stop, paused>>

\* request_stop takes work_mutex_ although stop_ is an atomic.
StopMayEnter_Unlocked == TRUE
StopMayEnter == MutexFree

StopLocked ==
  /\ cpc = "lock"
  /\ StopMayEnter
  /\ cpc' = "notify"
  /\ work_stop' = TRUE
  /\ UNCHANGED <<generation, active_job, cancel_ref, completed, finished, error,
                 foundVars, workerVars, callVars, stop, paused, work_quit>>

StopNotify ==
  /\ cpc = "notify"
  /\ cpc' = "idle"
  /\ pc' = WakeWorkers
  /\ mpc' = WakeCaller
  /\ UNCHANGED <<poolVars, foundVars, observed, job, signal, skip,
                 call_job, result, frame, cancelled, stop, paused, work_quit>>

Pause ==
  /\ ~paused
  /\ paused' = TRUE
  /\ UNCHANGED <<poolVars, foundVars, workerVars, callVars, stop, cpc, work_quit>>

Resume ==
  /\ paused
  /\ paused' = FALSE
  /\ UNCHANGED <<poolVars, foundVars, workerVars, callVars, stop, cpc, work_quit>>
-----------------------------------------------------------------------------
Caller ==
  \/ EnsureClearFlags \/ EnsureReset \/ SpawnFails
  \/ \E w \in Workers : Spawn(w)
  \/ \E j \in Jobs : CallMineBlock(j)
  \/ Publish \/ NotifyWorkers \/ EvaluateWait \/ FallAsleep
  \/ CollectNonce \/ CollectHash \/ ClearCancelRefs \/ NextIteration
  \/ CallerStops \/ QuitFlag \/ QuitLocked \/ QuitNotify \/ JoinWorkers

Worker(w) ==
  \/ TakeJob(w) \/ WaitForWork(w)
  \/ SkipControl(w) \/ ControlFlags(w) \/ ControlCancel(w)
  \/ Miss(w) \/ Hit(w) \/ HashThrows(w) \/ StoreNonce(w) \/ StoreHash(w)
  \/ RecordError(w) \/ Finish(w)

Stopper == StopQuit \/ StopLocked \/ StopNotify

User == StopFlag \/ Pause \/ Resume

Next ==
  \/ Caller \/ (\E w \in Workers : Worker(w)) \/ Stopper
  \/ User \/ Cancel \/ SpuriousWakeup

Spec == Init /\ [][Next]_vars

(***************************************************************************)
(* Every thread the operating system runs makes progress, and a thread     *)
(* that tries work_mutex_ again and again gets it (strong fairness of the  *)
(* threads that contend for it).  Users, watchers and spurious wakeups owe *)
(* nothing.                                                                *)
(***************************************************************************)
Fairness ==
  /\ WF_vars(Caller)
  /\ \A w \in Workers : SF_vars(Worker(w))
  /\ SF_vars(Stopper)

FairSpec == Spec /\ Fairness
-----------------------------------------------------------------------------
TypeOK ==
  /\ stop \in BOOLEAN /\ paused \in BOOLEAN
  /\ work_quit \in BOOLEAN /\ work_stop \in BOOLEAN
  /\ finished \in BOOLEAN /\ error \in BOOLEAN
  /\ found \in BOOLEAN /\ cancelled \in BOOLEAN
  /\ generation \in 0 .. MaxRounds
  /\ cancel_ref \in 0 .. MaxRounds /\ frame \in 0 .. MaxRounds
  /\ active_job \in Jobs /\ call_job \in Jobs
  /\ completed \in 0 .. Cardinality(Workers)
  /\ found_nonce \in Solution \cup {NoSolution}
  /\ found_hash \in Solution \cup {NoSolution}
  /\ pc \in [Workers -> WorkerPC]
  /\ observed \in [Workers -> 0 .. MaxRounds]
  /\ job \in [Workers -> Jobs]
  /\ signal \in [Workers -> 0 .. MaxRounds]
  /\ skip \in [Workers -> 0 .. CheckInterval - 1]
  /\ mpc \in CallerPC
  /\ result \in [nonce : Solution \cup {NoSolution}, hash : Solution \cup {NoSolution}]
  /\ cpc \in {"idle", "quit", "lock", "notify"}

\* Until a stop is requested, a worker outside its wait hashes for the call
\* in progress: its generation, its job, and a cancel pointer into a frame
\* that is still alive.  mining_worker_loop copies the three under
\* work_mutex_ and uses them long after; nothing but the completion count
\* keeps mine_block from returning, and its caller's frame from dying, first.
WorkersShareTheRound ==
  ~stop => \A w \in Workers : pc[w] \in Busy =>
             /\ mpc \in Waiting \cup {"notify"}
             /\ observed[w] = generation
             /\ job[w] = call_job
             /\ signal[w] = frame /\ frame = generation

\* Unless it was stopped, mine_block tells its caller the truth: it returns
\* only if no worker threw, with a solution if one was found, and with
\* nothing only if the job was cancelled.
OutcomeIsHonest ==
  mpc = "returned" /\ ~stop =>
    /\ ~error
    /\ found => result.nonce # NoSolution /\ result.hash # NoSolution
    /\ ~found => cancelled

\* What mine_block promises: see MiningRound.
Phase == CASE mpc \in InCall -> "mining"
           [] mpc = "threw" -> "failed"
           [] mpc \in {"quit", "quit_lock", "quit_notify", "join", "exited"} -> "closed"
           [] OTHER -> "idle"

Round == INSTANCE MiningRound WITH
           phase <- Phase,
           current <- call_job,
           result <- IF mpc \in InCall \cup {"threw"} THEN NoResult ELSE result

\* mine_block returns a solution of its own job, nonce and hash of the same
\* worker, or nothing, or throws, and then its caller may call it again.
ImplementsRound == Round!RoundSpec

\* A caller waiting in mine_block gets out once the job is cancelled, a
\* solution or an exception turns up, or a stop is requested.
RoundEnds == mpc \in Waiting /\ (cancelled \/ found \/ stop) ~> mpc \notin Waiting

\* request_stop, at whatever moment it comes, gets every worker joined by
\* stop_mining_workers, unless mine_block throws.
StopEnds == stop ~> mpc \in {"exited", "threw"}
=============================================================================

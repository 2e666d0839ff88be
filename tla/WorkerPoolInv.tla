---------------------------- MODULE WorkerPoolInv ----------------------------
(***************************************************************************)
(* The inductive invariant behind the safety properties of WorkerPool.     *)
(***************************************************************************)
EXTENDS WorkerPool

Quiet(w) == pc[w] \notin Busy

\* The workers that have reported to the generation in progress.
Reported == {w \in Workers : /\ observed[w] = generation
                             /\ pc[w] \in {"idle", "asleep", "exited"}}

\* Nobody hashes, and nobody will before the next Publish.
RoundOver == \A w \in Workers : observed[w] = generation /\ Quiet(w)

Published == Waiting \cup {"notify", "collect", "collect_hash", "clear", "rethrow"}
Quitting  == {"quit_lock", "quit_notify", "join", "exited"}
Starting  == {"init", "reset", "spawn"}

\* Generation 0 is the time before the first call.
BeforeFirstCall ==
  /\ mpc \in Starting => generation = 0
  /\ mpc \in {"init", "reset"} => \A w \in Workers : pc[w] = "unborn"
  /\ mpc \in Published \cup {"returned", "threw"} => generation > 0
  /\ mpc \in Quitting \cup {"quit"} /\ ~stop => generation = 0
  /\ generation = 0 => /\ completed = 0 /\ RoundOver /\ ~found
                       /\ finished => mpc \in Quitting

\* Every thread exists once run() has got past ensure_mining_workers_started.
AllBorn == mpc \notin Starting \cup Quitting \cup {"quit"} =>
             \A w \in Workers : pc[w] # "unborn"

\* The round a call works with.
CallState ==
  /\ mpc = "call" => frame = generation + 1
  /\ mpc \in Published \cup {"returned"} => frame = generation
  /\ mpc \in Waiting \cup {"notify"} => cancel_ref = generation
  /\ generation > 0 /\ mpc # "call" => active_job = call_job
  /\ mpc \in InCall => result.hash = NoSolution \/ mpc = "clear"
  /\ mpc \in InCall => result.nonce = NoSolution \/ mpc \in {"clear", "collect_hash"}

\* A worker that hashes does so for the last generation published.
BusyWorkers == \A w \in Workers : pc[w] \in Busy =>
  /\ generation > 0
  /\ observed[w] = generation
  /\ job[w] = call_job
  /\ ~stop => signal[w] = frame /\ mpc \in Waiting \cup {"notify"}
  /\ mpc # "call"
  /\ pc[w] \in {"throw", "nonce", "hashval"} => found

\* A round that counts as finished is over; a caller goes on only then,
\* or because it is being stopped.
Barrier ==
  /\ generation > 0 => completed = Cardinality(Reported)
  /\ finished /\ mpc \notin Quitting => RoundOver
  /\ mpc \in {"collect", "collect_hash", "rethrow", "threw"} => finished
  /\ mpc \in {"collect", "collect_hash"} => ~error
  /\ mpc = "rethrow" => error
  /\ mpc = "call" => RoundOver
  /\ mpc \in {"loop", "clear", "returned"} /\ ~stop => RoundOver

\* work_found_nonce_ and work_found_hash_ have one writer per round.
FoundPair ==
  /\ \A v, w \in Workers : pc[v] \in {"nonce", "hashval"} /\ pc[w] \in {"nonce", "hashval"}
                             => v = w
  /\ \A w \in Workers : pc[w] = "nonce" => found_nonce = NoSolution /\ found_hash = NoSolution
  /\ \A w \in Workers : pc[w] = "hashval" => found_nonce = SolutionOf(w)
  /\ (\A w \in Workers : pc[w] # "hashval") => found_nonce = found_hash
  /\ found_nonce # NoSolution /\ mpc # "call" => found_nonce.job = call_job
  /\ ~found => found_nonce = NoSolution
  /\ found => \/ error
              \/ \E w \in Workers : pc[w] \in {"throw", "nonce"}
              \/ found_nonce # NoSolution

\* Why a round ends, as long as nobody asked for a stop.
Reasons ==
  /\ cpc # "idle" => stop
  /\ work_quit /\ ~stop => mpc \in Quitting
  /\ ~stop /\ mpc \in Published \cup {"returned"} =>
       \A w \in Workers : /\ observed[w] = generation
                          /\ pc[w] \in {"finish", "idle", "asleep", "exited"}
                          => found \/ cancelled

\* What a call is about to return, or has returned.
Returned ==
  /\ mpc \in {"init", "reset", "spawn"} => result = NoResult
  /\ mpc = "collect_hash" => found /\ result.nonce = found_nonce
  /\ result.nonce = result.hash \/ mpc = "collect_hash"
  /\ result.nonce # NoSolution => result.nonce.job = call_job
  /\ mpc \in {"clear", "returned"} /\ ~stop =>
       ~error /\ (found => result.nonce # NoSolution)

\* The whole: every conjunct is a fact about the pool that one action relies
\* on another to keep.
PoolInv ==
  /\ TypeOK /\ BeforeFirstCall /\ AllBorn /\ CallState /\ BusyWorkers /\ Barrier
  /\ FoundPair /\ Reasons /\ Returned
-----------------------------------------------------------------------------
(***************************************************************************)
(* Lost wakeups.  work_cv_ and work_done_cv_ remember nothing: a thread    *)
(* that goes to sleep after the notification it waits for sleeps on.       *)
(***************************************************************************)
\* A worker sleeps through a new generation, or through the end of the pool,
\* only until the thread that changed it gets to its notify_all.
WorkersHear == \A w \in Workers : pc[w] = "asleep" =>
  /\ generation # observed[w] => mpc = "notify"
  /\ work_stop => mpc = "quit_notify" \/ cpc = "notify"

\* mine_block does not sleep through the end of its round, and sleeps through
\* a stop only until request_stop gets to its notify_all.  Between the test of
\* the predicate and the sleep ("block") request_stop cannot have got past
\* work_mutex_, let alone have notified.
CallerHears ==
  /\ mpc \in {"block", "asleep"} => ~finished
  /\ mpc = "block" /\ stop => cpc \in {"quit", "lock"}
  /\ mpc = "asleep" /\ stop => cpc \in {"quit", "lock", "notify"}

\* What a thread that waits for others counts on.
OthersMove ==
  /\ generation > 0 => finished \/ completed < Cardinality(Workers)
  /\ work_stop => stop \/ mpc \in Quitting
  /\ mpc \in {"quit_notify", "join"} => work_stop
  /\ \A w \in Workers : pc[w] = "exited" => work_stop

WakeInv == WorkersHear /\ CallerHears /\ OthersMove

\* The threads that will run without anybody waking them.
Awake == {w \in Workers : pc[w] \in Busy \cup {"idle"}}

\* Nobody waits for ever on somebody who waits too: as long as mine_block
\* sleeps, a worker is awake or request_stop is on its way to wake it, and as
\* long as stop_mining_workers joins, a worker it waits for is awake or
\* request_stop is about to wake it.
SomebodyMoves ==
  /\ mpc = "asleep" => Awake # {} \/ cpc # "idle"
  /\ mpc = "join" => \A w \in Workers :
                       pc[w] \in {"unborn", "exited"} \/ w \in Awake \/ cpc = "notify"
=============================================================================

---------------------------- MODULE RewardMining ----------------------------
(***************************************************************************)
(* The proof of work of the reward transaction: mine_reward_transaction    *)
(* (src/miner.cpp), which run_solo calls for every job it builds.  It      *)
(* forks threads, each with a nonce space of its own, and joins them once  *)
(* one has found a solution, a hash has thrown or a stop was requested.    *)
(*                                                                         *)
(* The hash function is the set "good" of the nonces whose hash meets the  *)
(* target, and a hash is named by the nonce it was computed from; a nonce  *)
(* is its distance from 0x100000000, where the search begins.  RandomX's   *)
(* pipeline takes the next input as it hands out the hash of the one       *)
(* before.  mining_worker_loop (WorkerPool) has the same loop.  Placement  *)
(* of the threads, and a thread that cannot be created, which ends the     *)
(* process, are left out.                                                  *)
(***************************************************************************)
EXTENDS Naturals

CONSTANTS Threads,        \* thread_count
          Batch,          \* current_pipeline_batch()
          CheckInterval,  \* kHotLoopControlCheckInterval
          MaxNonce,       \* bound on the nonces: beyond it nothing is good
          NoNonce         \* no nonce, or Hash::zero()

ASSUME RewardAssumption ==
  /\ Threads \in Nat \ {0} /\ Batch \in Nat \ {0} /\ CheckInterval \in Nat \ {0}
  /\ MaxNonce \in Nat /\ NoNonce \notin Nat

VARIABLES
  good,         \* the nonces whose hash meets the target; never changes
  use_pipeline, \* use_pipeline; never changes
  stop,         \* stop_
  paused,       \* paused_
  found,        \* found
  found_nonce,  \* found_nonce
  found_hash,   \* found_hash, under found_lock
  error,        \* worker_error, under error_lock
  pc,           \* where each worker is
  skip,         \* iterations before the worker looks at the flags again
  nonce,        \* nonce
  first,        \* batch_nonces[0]
  i,            \* i
  pending,      \* the input in the worker's pipeline
  candidate,    \* what the worker has found: the nonce and the hash
  tested,       \* the nonces whose hash it has compared with the target
  mpc,          \* the caller: "join", or how the call has ended
  result        \* the reward transaction's nonce and hash

givenVars  == <<good, use_pipeline>>
userVars   == <<stop, paused>>
foundVars  == <<found, found_nonce, found_hash, error>>
batchVars  == <<first, i, pending>>
searchVars == <<nonce, tested, candidate>>
callVars   == <<mpc, result>>
vars == <<givenVars, userVars, foundVars, pc, skip, batchVars, searchVars, callVars>>

Workers == 0 .. Threads - 1
WorkerPC == {"control", "pause", "begin", "hash", "next", "last", "drain", "claim",
             "nonce", "hashval", "threw", "error", "exited"}
Nothing == [nonce |-> NoNonce, hash |-> NoNonce]

Init ==
  /\ good \in SUBSET (0 .. MaxNonce) /\ use_pipeline \in BOOLEAN
  /\ stop \in BOOLEAN /\ paused \in BOOLEAN
  /\ found = FALSE /\ found_nonce = NoNonce /\ found_hash = NoNonce /\ error = FALSE
  /\ pc = [w \in Workers |-> "control"]
  /\ skip = [w \in Workers |-> 0]
  /\ nonce = [w \in Workers |-> w]
  /\ first = [w \in Workers |-> w] /\ i = [w \in Workers |-> 0]
  /\ pending = [w \in Workers |-> NoNonce]
  /\ candidate = [w \in Workers |-> Nothing]
  /\ tested = [w \in Workers |-> {}]
  /\ mpc = "join" /\ result = Nothing

Go(w, there) == pc' = [pc EXCEPT ![w] = there]

(***************************************************************************)
(* A definition named D_<fault> is D with a plausible bug seeded; nothing  *)
(* of the specification uses it.  Each one breaks a property below.        *)
(***************************************************************************)

(***************************************************************************)
(* The loop of a worker.                                                   *)
(***************************************************************************)
StartHashing == IF use_pipeline THEN "begin" ELSE "hash"

SkipControl(w) ==
  /\ pc[w] = "control"
  /\ skip[w] > 0
  /\ skip' = [skip EXCEPT ![w] = @ - 1]
  /\ Go(w, StartHashing)
  /\ UNCHANGED <<givenVars, userVars, foundVars, batchVars, searchVars, callVars>>

MustLeave_OnlyOnStop == stop
MustLeave == stop \/ found

ControlFlags(w) ==
  /\ pc[w] = "control"
  /\ skip[w] = 0
  /\ skip' = [skip EXCEPT ![w] = CheckInterval - 1]
  /\ Go(w, IF MustLeave THEN "exited" ELSE "pause")
  /\ UNCHANGED <<givenVars, userVars, foundVars, batchVars, searchVars, callVars>>

\* Paused, the worker sleeps and goes back to the counter it has just reset.
ControlPause(w) ==
  /\ pc[w] = "pause"
  /\ Go(w, IF paused THEN "control" ELSE StartHashing)
  /\ UNCHANGED <<givenVars, userVars, foundVars, skip, batchVars, searchVars, callVars>>

\* The nonces of a batch are drawn before the first of them is hashed.
Stride_One == 1
Stride == Threads
BatchNonce(w, k) == first[w] + k * Stride

BeginBatch(w) ==
  /\ pc[w] = "begin"
  /\ nonce[w] <= MaxNonce
  /\ first' = [first EXCEPT ![w] = nonce[w]]
  /\ nonce' = [nonce EXCEPT ![w] = @ + Batch * Stride]
  /\ pending' = [pending EXCEPT ![w] = nonce[w]]
  /\ i' = [i EXCEPT ![w] = 1]
  /\ Go(w, IF Batch = 1 THEN "last" ELSE "next")
  /\ UNCHANGED <<givenVars, userVars, foundVars, skip, tested, candidate, callVars>>

\* The hash that comes out is that of the nonce before the one that goes in.
NonceOfOutput(w) == BatchNonce(w, i[w] - 1)

Test(w, n, hash) ==
  /\ tested' = [tested EXCEPT ![w] = @ \cup {hash}]
  /\ candidate' = [candidate EXCEPT ![w] =
                     IF hash \in good THEN [nonce |-> n, hash |-> hash] ELSE @]

NextHash(w) ==
  /\ pc[w] = "next"
  /\ pending' = [pending EXCEPT ![w] = BatchNonce(w, i[w])]
  /\ i' = [i EXCEPT ![w] = @ + 1]
  /\ Test(w, NonceOfOutput(w), pending[w])
  /\ Go(w, IF pending[w] \in good THEN "drain"
           ELSE IF i[w] + 1 = Batch THEN "last" ELSE "next")
  /\ UNCHANGED <<givenVars, userVars, foundVars, skip, nonce, first, callVars>>

LastHash(w) ==
  /\ pc[w] = "last"
  /\ Test(w, BatchNonce(w, Batch - 1), pending[w])
  /\ Go(w, IF pending[w] \in good THEN "claim" ELSE "control")
  /\ UNCHANGED <<givenVars, userVars, foundVars, skip, batchVars, nonce, callVars>>

\* After a hit in the middle of a batch the pipeline is emptied.
DrainPipeline(w) ==
  /\ pc[w] = "drain"
  /\ Go(w, "claim")
  /\ UNCHANGED <<givenVars, userVars, foundVars, skip, batchVars, searchVars, callVars>>

\* Without a pipeline: one nonce, hashed at once.
HashOne(w) ==
  /\ pc[w] = "hash"
  /\ nonce[w] <= MaxNonce
  /\ nonce' = [nonce EXCEPT ![w] = @ + Stride]
  /\ Test(w, nonce[w], nonce[w])
  /\ Go(w, IF nonce[w] \in good THEN "claim" ELSE "control")
  /\ UNCHANGED <<givenVars, userVars, foundVars, skip, batchVars, callVars>>

\* Beyond MaxNonce: hashing goes on and finds nothing.
HashInVain(w) ==
  /\ pc[w] \in {"begin", "hash"}
  /\ nonce[w] > MaxNonce
  /\ Go(w, "control")
  /\ UNCHANGED <<givenVars, userVars, foundVars, skip, batchVars, searchVars, callVars>>

(***************************************************************************)
(* A worker has found something, or a hash has thrown.                     *)
(***************************************************************************)
\* The compare_exchange on found.
MayClaim_PlainStore == TRUE
MayClaim == ~found

Claim(w) ==
  /\ pc[w] = "claim"
  /\ found' = TRUE
  /\ Go(w, IF MayClaim THEN "nonce" ELSE "exited")
  /\ UNCHANGED <<givenVars, userVars, found_nonce, found_hash, error, skip,
                 batchVars, searchVars, callVars>>

StoreNonce(w) ==
  /\ pc[w] = "nonce"
  /\ found_nonce' = candidate[w].nonce
  /\ Go(w, "hashval")
  /\ UNCHANGED <<givenVars, userVars, found, found_hash, error, skip, batchVars,
                 searchVars, callVars>>

StoreHash(w) ==
  /\ pc[w] = "hashval"
  /\ found_hash' = candidate[w].hash
  /\ Go(w, "exited")
  /\ UNCHANGED <<givenVars, userVars, found, found_nonce, error, skip, batchVars,
                 searchVars, callVars>>

HashThrows(w) ==
  /\ pc[w] \in {"begin", "hash", "next", "last", "drain"}
  /\ Go(w, "threw")
  /\ UNCHANGED <<givenVars, userVars, foundVars, skip, batchVars, searchVars, callVars>>

\* The catch block: found makes the other workers leave, then the error.
CatchError(w) ==
  /\ pc[w] = "threw"
  /\ found' = TRUE
  /\ Go(w, "error")
  /\ UNCHANGED <<givenVars, userVars, found_nonce, found_hash, error, skip,
                 batchVars, searchVars, callVars>>

StoreError(w) ==
  /\ pc[w] = "error"
  /\ error' = TRUE
  /\ Go(w, "exited")
  /\ UNCHANGED <<givenVars, userVars, found, found_nonce, found_hash, skip,
                 batchVars, searchVars, callVars>>

(***************************************************************************)
(* The caller, and the user.                                               *)
(***************************************************************************)
\* After the join an error is rethrown before found is looked at.
HasFailed == error

Join ==
  /\ mpc = "join"
  /\ \A w \in Workers : pc[w] = "exited"
  /\ \/ /\ HasFailed /\ mpc' = "rethrown" /\ UNCHANGED result
     \/ /\ ~HasFailed /\ ~found
        /\ mpc' = "interrupted" /\ UNCHANGED result
     \/ /\ ~HasFailed /\ found
        /\ mpc' = "returned"
        /\ result' = [nonce |-> found_nonce, hash |-> found_hash]
  /\ UNCHANGED <<givenVars, userVars, foundVars, pc, skip, batchVars, searchVars>>

Stop ==
  /\ ~stop
  /\ stop' = TRUE
  /\ UNCHANGED <<givenVars, paused, foundVars, pc, skip, batchVars, searchVars, callVars>>

PauseOrResume ==
  /\ paused' = ~paused
  /\ UNCHANGED <<givenVars, stop, foundVars, pc, skip, batchVars, searchVars, callVars>>
-----------------------------------------------------------------------------
Worker(w) ==
  \/ SkipControl(w) \/ ControlFlags(w) \/ ControlPause(w)
  \/ BeginBatch(w) \/ NextHash(w) \/ LastHash(w) \/ DrainPipeline(w)
  \/ HashOne(w) \/ HashInVain(w) \/ HashThrows(w)
  \/ Claim(w) \/ StoreNonce(w) \/ StoreHash(w) \/ CatchError(w) \/ StoreError(w)

Next == (\E w \in Workers : Worker(w)) \/ Join \/ Stop \/ PauseOrResume

Spec == Init /\ [][Next]_vars

\* The operating system runs every thread.
FairSpec == Spec /\ WF_vars(Join) /\ \A w \in Workers : WF_vars(Worker(w))
-----------------------------------------------------------------------------
NoncesOrNone == Nat \cup {NoNonce}
Found == [nonce : NoncesOrNone, hash : NoncesOrNone]

TypeOK ==
  /\ good \in SUBSET Nat /\ use_pipeline \in BOOLEAN
  /\ stop \in BOOLEAN /\ paused \in BOOLEAN
  /\ found \in BOOLEAN /\ error \in BOOLEAN
  /\ found_nonce \in NoncesOrNone /\ found_hash \in NoncesOrNone
  /\ pc \in [Workers -> WorkerPC]
  /\ skip \in [Workers -> 0 .. CheckInterval - 1]
  /\ nonce \in [Workers -> Nat] /\ first \in [Workers -> Nat]
  /\ i \in [Workers -> 0 .. Batch] /\ pending \in [Workers -> NoncesOrNone]
  /\ candidate \in [Workers -> Found] /\ tested \in [Workers -> SUBSET NoncesOrNone]
  /\ mpc \in {"join", "returned", "rethrown", "interrupted"} /\ result \in Found

\* The transaction gets a nonce that meets the target together with its own
\* hash, whichever of several finders was first, and with the pipeline
\* handing out each hash one call late.
ResultSolves ==
  mpc = "returned" => result.nonce \in good /\ result.hash = result.nonce

\* What it takes to keep that: the pipeline is one nonce behind, and only the
\* worker that has claimed the solution writes its two halves.
PipelineOneBehind == \A w \in Workers :
  /\ pc[w] = "next" => i[w] \in 1 .. Batch - 1 /\ pending[w] = BatchNonce(w, i[w] - 1)
  /\ pc[w] = "last" => pending[w] = BatchNonce(w, Batch - 1)
  /\ pc[w] \in {"drain", "claim", "nonce", "hashval"} =>
       candidate[w].nonce \in good /\ candidate[w].hash = candidate[w].nonce

OneClaim ==
  /\ \A v, w \in Workers :
       pc[v] \in {"nonce", "hashval"} /\ pc[w] \in {"nonce", "hashval"} => v = w
  /\ \A w \in Workers :
       /\ pc[w] \in {"nonce", "hashval", "error"} => found
       /\ pc[w] = "hashval" => found_nonce = candidate[w].nonce
  /\ found =>
       \/ error
       \/ \E w \in Workers : pc[w] \in {"nonce", "hashval", "error"}
       \/ found_nonce \in good /\ found_hash = found_nonce
  /\ ~found /\ ~stop => \A w \in Workers : pc[w] # "exited"

\* A call returns only without an error, rethrows only with one, and is
\* interrupted only by a stop.
OutcomeIsHonest ==
  /\ mpc = "returned" => found /\ ~error
  /\ mpc = "rethrown" => error
  /\ mpc = "interrupted" => stop

\* The inductive invariant.
RewardInv ==
  /\ TypeOK /\ PipelineOneBehind /\ OneClaim /\ OutcomeIsHonest /\ ResultSolves
  /\ mpc # "join" => \A w \in Workers : pc[w] = "exited"

\* The workers divide the nonces among themselves: none is hashed by two of
\* them, none of a worker's own is passed over, and no good one is missed.
NoncesCovered ==
  /\ \A v, w \in Workers : v # w => tested[v] \cap tested[w] = {}
  /\ \A w \in Workers : pc[w] \in {"control", "pause", "begin", "hash"} =>
       /\ tested[w] = {n \in 0 .. nonce[w] - 1 : n % Threads = w}
       /\ tested[w] \cap good = {}

\* Once a solution is found, a hash has thrown or a stop is requested, the
\* call ends, paused or not.
RewardEnds == found \/ stop ~> mpc # "join"
=============================================================================

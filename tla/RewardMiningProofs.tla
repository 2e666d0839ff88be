------------------------- MODULE RewardMiningProofs -------------------------
(***************************************************************************)
(* RewardInv is inductive, for any number of threads, any batch size and   *)
(* any set of good nonces; ResultSolves and OutcomeIsHonest follow.  So is *)
(* Coverage, which says how far each worker has come in its own nonces;    *)
(* NoncesCovered follows.                                                  *)
(***************************************************************************)
EXTENDS RewardMining, Integers, TLAPS

LEMMA ProductIsNat == \A a, b \in Nat : a * b \in Nat
  BY SMT

LEMMA BatchNonceIsNat ==
  ASSUME TypeOK, NEW w \in Workers, NEW k \in Nat
  PROVE  BatchNonce(w, k) \in Nat
<1>1. first[w] \in Nat /\ k * Stride \in Nat
  BY ProductIsNat, RewardAssumption DEF TypeOK, Stride
<1> QED BY <1>1 DEF BatchNonce

LEMMA InitEstablishes == Init => RewardInv
<1> SUFFICES ASSUME Init PROVE RewardInv OBVIOUS
<1>1. /\ \A w \in Workers : pc[w] = "control"
      /\ mpc = "join" /\ ~found
  BY DEF Init
<1>2. FALSE \in BOOLEAN BY Zenon
<1>3. Workers \subseteq Nat
  BY RewardAssumption DEF Workers
<1>4. 0 \in 0 .. CheckInterval - 1 /\ 0 \in 0 .. Batch
  BY RewardAssumption
<1>5. TypeOK
  <2>1. /\ good \in SUBSET Nat /\ use_pipeline \in BOOLEAN
        /\ stop \in BOOLEAN /\ paused \in BOOLEAN
        /\ found_nonce \in NoncesOrNone /\ found_hash \in NoncesOrNone
    BY RewardAssumption DEF Init, NoncesOrNone
  <2>2. found \in BOOLEAN /\ error \in BOOLEAN
    BY <1>2, Zenon DEF Init
  <2>3. /\ pc \in [Workers -> WorkerPC]
        /\ skip \in [Workers -> 0 .. CheckInterval - 1]
        /\ i \in [Workers -> 0 .. Batch]
    BY <1>4 DEF Init, WorkerPC
  <2>4. nonce \in [Workers -> Nat] /\ first \in [Workers -> Nat]
    BY <1>3 DEF Init
  <2>5. /\ pending \in [Workers -> NoncesOrNone]
        /\ candidate \in [Workers -> Found] /\ tested \in [Workers -> SUBSET NoncesOrNone]
    BY DEF Init, NoncesOrNone, Found, Nothing
  <2>6. mpc \in {"join", "returned", "rethrown", "interrupted"} /\ result \in Found
    BY DEF Init, Found, Nothing, NoncesOrNone
  <2> QED BY <2>1, <2>2, <2>3, <2>4, <2>5, <2>6 DEF TypeOK
<1>6. PipelineOneBehind BY <1>1 DEF PipelineOneBehind
<1>7. OneClaim BY <1>1 DEF OneClaim
<1>8. OutcomeIsHonest /\ ResultSolves BY <1>1 DEF OutcomeIsHonest, ResultSolves
<1> QED BY <1>1, <1>5, <1>6, <1>7, <1>8 DEF RewardInv

(***************************************************************************)
(* One step of one worker, conjunct by conjunct.                           *)
(***************************************************************************)
LEMMA WorkerTyped ==
  ASSUME RewardInv, NEW w \in Workers, Worker(w)
  PROVE  TypeOK'
<1> USE DEF RewardInv, TypeOK, Go, givenVars, userVars, foundVars, batchVars,
            searchVars, callVars, WorkerPC
<1>1. CASE SkipControl(w)
  BY <1>1, RewardAssumption DEF SkipControl, StartHashing
<1>2. CASE ControlFlags(w)
  BY <1>2, RewardAssumption DEF ControlFlags
<1>3. CASE ControlPause(w)
  BY <1>3 DEF ControlPause, StartHashing
<1>4. CASE BeginBatch(w)
  <2>1. Batch * Stride \in Nat
    BY ProductIsNat, RewardAssumption DEF Stride
  <2>2. nonce' \in [Workers -> Nat] /\ first' \in [Workers -> Nat]
    BY <1>4, <2>1 DEF BeginBatch
  <2>3. i' \in [Workers -> 0 .. Batch] /\ pending' \in [Workers -> NoncesOrNone]
    BY <1>4, RewardAssumption DEF BeginBatch, NoncesOrNone
  <2> QED BY <1>4, <2>2, <2>3 DEF BeginBatch
<1>5. CASE NextHash(w)
  <2>1. i[w] \in 1 .. Batch - 1 BY <1>5 DEF NextHash, PipelineOneBehind
  <2>2. NonceOfOutput(w) \in Nat /\ BatchNonce(w, i[w]) \in Nat
    BY <2>1, BatchNonceIsNat, RewardAssumption DEF NonceOfOutput
  <2>3. candidate' \in [Workers -> Found] /\ tested' \in [Workers -> SUBSET NoncesOrNone]
    BY <1>5, <2>2 DEF NextHash, Test, Found, NoncesOrNone
  <2>4. i' \in [Workers -> 0 .. Batch] /\ pending' \in [Workers -> NoncesOrNone]
    BY <1>5, <2>1, <2>2, RewardAssumption DEF NextHash, NoncesOrNone
  <2> QED BY <1>5, <2>3, <2>4 DEF NextHash
<1>6. CASE LastHash(w)
  <2>1. Batch - 1 \in Nat BY RewardAssumption
  <2>2. BatchNonce(w, Batch - 1) \in Nat BY <2>1, BatchNonceIsNat
  <2>3. candidate' \in [Workers -> Found] /\ tested' \in [Workers -> SUBSET NoncesOrNone]
    BY <1>6, <2>2 DEF LastHash, Test, Found, NoncesOrNone
  <2> QED BY <1>6, <2>3 DEF LastHash
<1>7. CASE DrainPipeline(w)
  BY <1>7 DEF DrainPipeline
<1>8. CASE HashOne(w)
  <2>1. nonce[w] \in Nat
    OBVIOUS
  <2>2. candidate' \in [Workers -> Found]
    BY <1>8, <2>1 DEF HashOne, Test, Found, NoncesOrNone
  <2>3. tested' \in [Workers -> SUBSET NoncesOrNone]
    BY <1>8, <2>1 DEF HashOne, Test, NoncesOrNone
  <2>4. nonce' \in [Workers -> Nat]
    BY <1>8, <2>1, RewardAssumption DEF HashOne, Stride
  <2> QED BY <1>8, <2>2, <2>3, <2>4 DEF HashOne
<1>9. CASE HashInVain(w)
  BY <1>9 DEF HashInVain
<1>10. CASE HashThrows(w)
  BY <1>10 DEF HashThrows
<1>11. CASE Claim(w)
  <2>1. found' \in BOOLEAN BY <1>11, Zenon DEF Claim
  <2> QED BY <1>11, <2>1 DEF Claim
<1>12. CASE StoreNonce(w)
  BY <1>12 DEF StoreNonce, Found
<1>13. CASE StoreHash(w)
  BY <1>13 DEF StoreHash, Found
<1>14. CASE CatchError(w)
  <2>1. found' \in BOOLEAN BY <1>14, Zenon DEF CatchError
  <2> QED BY <1>14, <2>1 DEF CatchError
<1>15. CASE StoreError(w)
  <2>1. error' \in BOOLEAN BY <1>15, Zenon DEF StoreError
  <2> QED BY <1>15, <2>1 DEF StoreError
<1> QED BY <1>1, <1>2, <1>3, <1>4, <1>5, <1>6, <1>7, <1>8, <1>9, <1>10, <1>11,
           <1>12, <1>13, <1>14, <1>15 DEF Worker

\* A worker touches only what is its own.
LEMMA OthersUnchanged ==
  ASSUME TypeOK, NEW w \in Workers, Worker(w), NEW v \in Workers, v # w
  PROVE  /\ pc'[v] = pc[v] /\ first'[v] = first[v] /\ i'[v] = i[v]
         /\ pending'[v] = pending[v] /\ candidate'[v] = candidate[v]
<1> USE DEF TypeOK, Go, foundVars, batchVars, searchVars
<1>1. CASE SkipControl(w) \/ ControlFlags(w) \/ ControlPause(w) \/ DrainPipeline(w)
  BY <1>1 DEF SkipControl, ControlFlags, ControlPause, DrainPipeline
<1>2. CASE BeginBatch(w)
  BY <1>2 DEF BeginBatch
<1>3. CASE NextHash(w) \/ LastHash(w) \/ HashOne(w)
  BY <1>3 DEF NextHash, LastHash, HashOne, Test
<1>4. CASE HashInVain(w) \/ HashThrows(w) \/ CatchError(w) \/ StoreError(w)
  BY <1>4 DEF HashInVain, HashThrows, CatchError, StoreError
<1>5. CASE Claim(w) \/ StoreNonce(w) \/ StoreHash(w)
  BY <1>5 DEF Claim, StoreNonce, StoreHash
<1> QED BY <1>1, <1>2, <1>3, <1>4, <1>5 DEF Worker

\* What PipelineOneBehind says of one worker.
OneBehind(w) ==
  /\ pc[w] = "next" => i[w] \in 1 .. Batch - 1 /\ pending[w] = BatchNonce(w, i[w] - 1)
  /\ pc[w] = "last" => pending[w] = BatchNonce(w, Batch - 1)
  /\ pc[w] \in {"drain", "claim", "nonce", "hashval"} =>
       candidate[w].nonce \in good /\ candidate[w].hash = candidate[w].nonce

\* The hash in hand is always that of the nonce filed with it.
LEMMA WorkerPipeline ==
  ASSUME RewardInv, NEW w \in Workers, Worker(w)
  PROVE  PipelineOneBehind'
<1> USE DEF RewardInv, TypeOK, Go, givenVars, batchVars, searchVars
<1>1. ASSUME NEW v \in Workers PROVE OneBehind(v)
  BY DEF PipelineOneBehind, OneBehind
<1>2. good' = good
  BY DEF Worker, SkipControl, ControlFlags, ControlPause, DrainPipeline, BeginBatch,
         NextHash, LastHash, HashOne, HashInVain, HashThrows, CatchError, StoreError,
         Claim, StoreNonce, StoreHash
<1>3. ASSUME NEW v \in Workers, v # w PROVE OneBehind(v)'
  BY <1>1, <1>2, <1>3, OthersUnchanged DEF OneBehind, BatchNonce
<1>4. OneBehind(w)'
  <2>1. CASE SkipControl(w) \/ ControlFlags(w) \/ ControlPause(w)
    BY <2>1 DEF SkipControl, ControlFlags, ControlPause, StartHashing, OneBehind
  <2>2. CASE BeginBatch(w)
    <3>1. first'[w] = nonce[w] /\ pending'[w] = nonce[w] /\ i'[w] = 1
      BY <2>2 DEF BeginBatch
    <3>2. BatchNonce(w, 0)' = nonce[w]
      BY <3>1, RewardAssumption DEF BatchNonce, Stride
    <3>3. pc'[w] = IF Batch = 1 THEN "last" ELSE "next"
      BY <2>2 DEF BeginBatch
    <3> QED BY <3>1, <3>2, <3>3, RewardAssumption DEF OneBehind
  <2>3. CASE NextHash(w)
    <3>1. /\ i[w] \in 1 .. Batch - 1 /\ pending[w] = BatchNonce(w, i[w] - 1)
          /\ i'[w] = i[w] + 1 /\ pending'[w] = BatchNonce(w, i[w])
          /\ first'[w] = first[w]
      BY <2>3, <1>1 DEF NextHash, OneBehind
    <3>2. i'[w] - 1 = i[w] BY <3>1, RewardAssumption
    <3>3. first'[w] + (i'[w] - 1) * Stride = BatchNonce(w, i[w])
      BY <3>1, <3>2 DEF BatchNonce
    <3>4. CASE pending[w] \in good
      <4>1. pc'[w] = "drain" BY <2>3, <3>4 DEF NextHash
      <4>2. candidate'[w] = [nonce |-> BatchNonce(w, i[w] - 1), hash |-> pending[w]]
        BY <2>3, <3>4 DEF NextHash, Test, NonceOfOutput
      <4> QED BY <4>1, <4>2, <3>1, <3>4, <1>2 DEF OneBehind
    <3>5. CASE pending[w] \notin good
      <4>1. pc'[w] = IF i[w] + 1 = Batch THEN "last" ELSE "next"
        BY <2>3, <3>5 DEF NextHash
      <4>2. CASE i[w] + 1 = Batch
        <5>1. i[w] = Batch - 1 BY <4>2, <3>1, RewardAssumption
        <5>2. BatchNonce(w, Batch - 1)' = BatchNonce(w, i[w])
          BY <3>1, <5>1 DEF BatchNonce
        <5> QED BY <4>1, <4>2, <3>1, <5>2 DEF OneBehind
      <4>3. CASE i[w] + 1 # Batch
        <5>1. i'[w] \in 1 .. Batch - 1 BY <3>1, <4>3, RewardAssumption
        <5> QED BY <4>1, <4>3, <3>1, <3>3, <5>1 DEF OneBehind, BatchNonce
      <4> QED BY <4>2, <4>3
    <3> QED BY <3>4, <3>5
  <2>4. CASE LastHash(w)
    <3>1. pending[w] = BatchNonce(w, Batch - 1)
      BY <2>4, <1>1 DEF LastHash, OneBehind
    <3> QED BY <2>4, <3>1, <1>2 DEF LastHash, Test, OneBehind
  <2>5. CASE HashOne(w)
    <3>1. nonce[w] \in Nat OBVIOUS
    <3> QED BY <2>5, <3>1, <1>2 DEF HashOne, Test, OneBehind
  <2>6. CASE DrainPipeline(w)
    BY <2>6, <1>1, <1>2 DEF DrainPipeline, OneBehind
  <2>7. CASE HashInVain(w) \/ HashThrows(w) \/ CatchError(w) \/ StoreError(w)
    BY <2>7 DEF HashInVain, HashThrows, CatchError, StoreError, OneBehind
  <2>8. CASE Claim(w) \/ StoreNonce(w) \/ StoreHash(w)
    BY <2>8, <1>1, <1>2 DEF Claim, StoreNonce, StoreHash, OneBehind
  <2> QED BY <2>1, <2>2, <2>3, <2>4, <2>5, <2>6, <2>7, <2>8 DEF Worker
<1> QED BY <1>3, <1>4 DEF PipelineOneBehind, OneBehind

\* At most one worker writes the solution, and what it has written is one.
LEMMA WorkerClaims ==
  ASSUME RewardInv, NEW w \in Workers, Worker(w)
  PROVE  OneClaim'
<1> USE DEF RewardInv, TypeOK, Go, givenVars, userVars, foundVars, searchVars
<1>1. \A v \in Workers : v # w => pc'[v] = pc[v] /\ candidate'[v] = candidate[v]
  BY OthersUnchanged
<1>2. OneClaim
  OBVIOUS
<1>3. CASE /\ pc'[w] \notin {"nonce", "hashval", "error", "exited"}
           /\ pc[w] \notin {"nonce", "hashval", "error"}
           /\ UNCHANGED <<foundVars, good, stop>>
  BY <1>1, <1>2, <1>3 DEF OneClaim
<1>4. CASE SkipControl(w) \/ ControlPause(w) \/ DrainPipeline(w) \/ HashInVain(w) \/ HashThrows(w)
  BY <1>3, <1>4 DEF SkipControl, ControlPause, StartHashing, DrainPipeline, HashInVain, HashThrows
<1>5. CASE BeginBatch(w) \/ NextHash(w) \/ LastHash(w) \/ HashOne(w)
  BY <1>3, <1>5 DEF BeginBatch, NextHash, LastHash, HashOne
<1>6. CASE ControlFlags(w)
  <2>1. /\ pc'[w] \in {"pause", "exited"} /\ pc[w] = "control"
        /\ pc'[w] = "exited" => stop \/ found
        /\ UNCHANGED <<foundVars, good, stop>>
    BY <1>6 DEF ControlFlags, MustLeave
  <2> QED BY <1>1, <1>2, <2>1 DEF OneClaim
<1>7. CASE Claim(w)
  <2>1. /\ found' /\ pc[w] = "claim" /\ pc'[w] = IF ~found THEN "nonce" ELSE "exited"
        /\ UNCHANGED <<found_nonce, found_hash, error, good, stop>>
    BY <1>7 DEF Claim, MayClaim
  <2>2. CASE found
    BY <1>1, <1>2, <2>1, <2>2 DEF OneClaim
  <2>3. CASE ~found
    BY <1>1, <1>2, <2>1, <2>3 DEF OneClaim
  <2> QED BY <2>2, <2>3
<1>8. CASE StoreNonce(w)
  <2>1. /\ pc[w] = "nonce" /\ pc'[w] = "hashval" /\ found_nonce' = candidate[w].nonce
        /\ UNCHANGED <<found, found_hash, error, good, stop, candidate>>
    BY <1>8 DEF StoreNonce
  <2> QED BY <1>1, <1>2, <2>1 DEF OneClaim
<1>9. CASE StoreHash(w)
  <2>1. /\ pc[w] = "hashval" /\ pc'[w] = "exited" /\ found_hash' = candidate[w].hash
        /\ UNCHANGED <<found, found_nonce, error, good, stop>>
    BY <1>9 DEF StoreHash
  <2>2. found /\ found_nonce \in good /\ found_hash' = found_nonce
    BY <1>2, <2>1 DEF OneClaim, PipelineOneBehind
  <2> QED BY <1>1, <1>2, <2>1, <2>2 DEF OneClaim
<1>10. CASE CatchError(w)
  <2>1. /\ found' /\ pc[w] = "threw" /\ pc'[w] = "error"
        /\ UNCHANGED <<found_nonce, found_hash, error, good, stop>>
    BY <1>10 DEF CatchError
  <2> QED BY <1>1, <1>2, <2>1 DEF OneClaim
<1>11. CASE StoreError(w)
  <2>1. /\ error' /\ pc[w] = "error" /\ pc'[w] = "exited"
        /\ UNCHANGED <<found, found_nonce, found_hash, good, stop>>
    BY <1>11 DEF StoreError
  <2> QED BY <1>1, <1>2, <2>1 DEF OneClaim
<1> QED BY <1>4, <1>5, <1>6, <1>7, <1>8, <1>9, <1>10, <1>11 DEF Worker

\* Once the call has ended no worker moves, so what it returned stands.
LEMMA WorkerStep ==
  ASSUME RewardInv, NEW w \in Workers, Worker(w)
  PROVE  RewardInv'
<1>1. pc[w] # "exited"
  BY DEF Worker, SkipControl, ControlFlags, ControlPause, BeginBatch, NextHash, LastHash,
         DrainPipeline, HashOne, HashInVain, HashThrows, Claim, StoreNonce, StoreHash,
         CatchError, StoreError
<1>2. mpc = "join"
  BY <1>1 DEF RewardInv
<1>3. mpc' = mpc
  BY DEF callVars, Worker, SkipControl, ControlFlags, ControlPause, BeginBatch, NextHash, LastHash,
         DrainPipeline, HashOne, HashInVain, HashThrows, Claim, StoreNonce, StoreHash,
         CatchError, StoreError
<1>4. TypeOK' /\ PipelineOneBehind' /\ OneClaim'
  BY WorkerTyped, WorkerPipeline, WorkerClaims
<1> QED BY <1>2, <1>3, <1>4 DEF RewardInv, OutcomeIsHonest, ResultSolves

\* After the join, no error and found mean that a whole solution was written.
LEMMA JoinStep ==
  ASSUME RewardInv, Join
  PROVE  RewardInv'
<1> USE DEF RewardInv, Join, HasFailed, givenVars, userVars, foundVars, batchVars, searchVars
<1>1. UNCHANGED <<givenVars, userVars, foundVars, pc, skip, batchVars, searchVars>>
  OBVIOUS
<1>2. ~error /\ found => found_nonce \in good /\ found_hash = found_nonce
  BY DEF OneClaim
<1>3. \/ error /\ mpc' = "rethrown" /\ result' = result
      \/ ~error /\ ~found /\ mpc' = "interrupted" /\ result' = result
      \/ /\ ~error /\ found /\ mpc' = "returned"
         /\ result' = [nonce |-> found_nonce, hash |-> found_hash]
  OBVIOUS
<1>4. TypeOK'
  BY <1>1, <1>3 DEF TypeOK, Found
<1>5. PipelineOneBehind'
  BY <1>1 DEF PipelineOneBehind, BatchNonce
<1>6. OneClaim'
  BY <1>1 DEF OneClaim
<1>7. ~found => stop
  <2>1. Workers # {}
    BY RewardAssumption DEF Workers
  <2> QED BY <2>1 DEF OneClaim
<1>8. OutcomeIsHonest' /\ ResultSolves'
  BY <1>1, <1>2, <1>3, <1>7 DEF OutcomeIsHonest, ResultSolves
<1>9. \A w \in Workers : pc'[w] = "exited"
  BY <1>1
<1> QED BY <1>4, <1>5, <1>6, <1>8, <1>9

LEMMA UserStep ==
  ASSUME RewardInv, Stop \/ PauseOrResume \/ UNCHANGED vars
  PROVE  RewardInv'
<1> USE DEF RewardInv, Stop, PauseOrResume, vars, givenVars, userVars, foundVars, batchVars,
            searchVars, callVars
<1>1. /\ UNCHANGED <<givenVars, foundVars, pc, skip, batchVars, searchVars, callVars>>
      /\ stop => stop'
  OBVIOUS
<1>2. stop' \in BOOLEAN
  BY Zenon DEF TypeOK
<1>3. paused' \in BOOLEAN
  BY Zenon DEF TypeOK
<1>4. TypeOK'
  BY <1>1, <1>2, <1>3 DEF TypeOK
<1>5. PipelineOneBehind' BY <1>1 DEF PipelineOneBehind, BatchNonce
<1>6. OneClaim' BY <1>1 DEF OneClaim
<1>7. OutcomeIsHonest' /\ ResultSolves' BY <1>1 DEF OutcomeIsHonest, ResultSolves
<1> QED BY <1>1, <1>4, <1>5, <1>6, <1>7

\* mine_reward_transaction keeps its invariant for any number of threads.
THEOREM RewardInvHolds == Spec => []RewardInv
<1>1. RewardInv /\ [Next]_vars => RewardInv'
  BY WorkerStep, JoinStep, UserStep DEF Next
<1> QED
  BY InitEstablishes, <1>1, PTL DEF Spec

\* The transaction never gets a nonce that misses the target, nor a hash that
\* is not that nonce's.
THEOREM ResultAlwaysSolves == Spec => []ResultSolves
<1>1. RewardInv => ResultSolves BY DEF RewardInv
<1> QED BY <1>1, RewardInvHolds, PTL

\* No error is swallowed, none invented, and only a stop interrupts.
THEOREM OutcomeAlwaysHonest == Spec => []OutcomeIsHonest
<1>1. RewardInv => OutcomeIsHonest BY DEF RewardInv
<1> QED BY <1>1, RewardInvHolds, PTL

(***************************************************************************)
(* The nonces of a worker are those that leave its number when they are    *)
(* divided by the number of workers.                                       *)
(***************************************************************************)
Own(w)      == {n \in Nat : n % Threads = w}
OwnUpTo(w, n) == {m \in Own(w) : m < n}

LEMMA RemainderIsUnique ==
  ASSUME NEW d \in Nat, d > 0, NEW q \in Int, NEW r \in Nat, r < d, NEW n \in Nat,
         n = d * q + r
  PROVE  n % d = r
OBVIOUS

LEMMA DivisionSplits ==
  ASSUME NEW n \in Nat, NEW d \in Nat, d > 0
  PROVE  /\ n \div d \in Nat /\ n % d \in Nat /\ n % d < d
         /\ n = d * (n \div d) + (n % d)
<1>1. n \div d \in Nat /\ n % d \in Nat
  OBVIOUS
<1>2. n % d < d
  OBVIOUS
<1>3. n = d * (n \div d) + (n % d)
  OBVIOUS
<1> QED BY <1>1, <1>2, <1>3

LEMMA OwnStays ==
  ASSUME NEW w \in Workers, NEW n \in Own(w), NEW k \in Nat
  PROVE  n + k * Stride \in Own(w)
<1> USE RewardAssumption DEF Own, Workers, Stride
<1>1. n = Threads * (n \div Threads) + w /\ n \div Threads \in Nat
  BY DivisionSplits
<1>2. k * Threads \in Nat /\ n + k * Threads \in Nat
  BY ProductIsNat
<1>3. n + k * Threads = Threads * ((n \div Threads) + k) + w
  <2>1. Threads * ((n \div Threads) + k) = Threads * (n \div Threads) + k * Threads
    BY <1>1
  <2> QED BY <1>1, <1>2, <2>1
<1>4. (n + k * Threads) % Threads = w
  <2> DEFINE m == n + k * Threads
             q == (n \div Threads) + k
  <2>1. /\ Threads \in Nat /\ Threads > 0 /\ w \in Nat /\ w < Threads
        /\ q \in Int /\ m \in Nat /\ m = Threads * q + w
    BY <1>1, <1>2, <1>3
  <2> HIDE DEF m, q
  <2> QED BY <2>1, RemainderIsUnique DEF m
<1> QED BY <1>2, <1>4

\* Between a nonce of a worker's own and the next one there is none.
LEMMA OwnAreStridesApart ==
  ASSUME NEW w \in Workers, NEW n \in Own(w), NEW m \in Own(w), n < m
  PROVE  n + Stride <= m
<1> USE RewardAssumption DEF Own, Workers, Stride
<1>1. /\ n = Threads * (n \div Threads) + w /\ n \div Threads \in Nat
      /\ m = Threads * (m \div Threads) + w /\ m \div Threads \in Nat
  BY DivisionSplits
<1>2. m - n = Threads * ((m \div Threads) - (n \div Threads))
  BY <1>1
<1>3. (m \div Threads) - (n \div Threads) >= 1
  BY <1>1, <1>2
<1> QED BY <1>2, <1>3

LEMMA OneMore ==
  ASSUME NEW w \in Workers, NEW n \in Own(w)
  PROVE  OwnUpTo(w, n + Stride) = OwnUpTo(w, n) \cup {n}
<1>1. n \in Nat /\ Stride \in Nat /\ Stride > 0
  BY RewardAssumption DEF Own, Stride
<1>2. \A m \in Own(w) : m \in Nat /\ (m < n + Stride <=> m <= n)
  BY <1>1, OwnAreStridesApart DEF Own
<1>3. \A m \in Own(w) : m < n + Stride <=> m < n \/ m = n
  BY <1>1, <1>2
<1> QED BY <1>3, Zenon DEF OwnUpTo

\* How far worker w has come: to the nonce it draws next, or, in a batch, to
\* the one whose hash comes out next.
Coverage(w) ==
  /\ nonce[w] \in Own(w) /\ tested[w] \subseteq Own(w)
  /\ pc[w] \in {"control", "pause", "begin", "hash"} => tested[w] = OwnUpTo(w, nonce[w])
  /\ pc[w] \in {"next", "last"} =>
       first[w] \in Own(w) /\ nonce[w] = first[w] + Batch * Stride
  /\ pc[w] = "next" => tested[w] = OwnUpTo(w, BatchNonce(w, i[w] - 1))
  /\ pc[w] = "last" => tested[w] = OwnUpTo(w, BatchNonce(w, Batch - 1))
  /\ pc[w] \in {"control", "pause", "begin", "hash", "next", "last"} =>
       tested[w] \cap good = {}

AllCovered == \A w \in Workers : Coverage(w)

LEMMA InitCovers == Init => AllCovered
<1> SUFFICES ASSUME Init, NEW w \in Workers PROVE Coverage(w)
  BY DEF AllCovered
<1>1. w \in Nat /\ w = Threads * 0 + w
  BY RewardAssumption DEF Workers
<1>2. w \in Own(w)
  BY <1>1, RemainderIsUnique, RewardAssumption DEF Workers, Own
<1>3. OwnUpTo(w, w) = {}
  <2>1. ASSUME NEW n \in Own(w), n < w PROVE FALSE
    <3>1. n + Stride <= w
      BY <1>2, <2>1, OwnAreStridesApart
    <3> QED BY <3>1, <1>1, RewardAssumption DEF Own, Workers, Stride
  <2> QED BY <2>1 DEF OwnUpTo
<1> QED BY <1>2, <1>3 DEF Init, Coverage

\* After hash n, worker w has tested its own nonces up to the one after n.
LEMMA Tested ==
  ASSUME NEW w \in Workers, NEW n \in Own(w), Coverage(w), TypeOK,
         tested[w] = OwnUpTo(w, n), Test(w, n, n)
  PROVE  tested'[w] = OwnUpTo(w, n + Stride) /\ tested'[w] \subseteq Own(w)
<1>1. tested'[w] = tested[w] \cup {n}
  BY DEF Test, TypeOK
<1> QED BY <1>1, OneMore DEF OwnUpTo

LEMMA WorkerCovers ==
  ASSUME RewardInv, AllCovered, NEW w \in Workers, Worker(w)
  PROVE  Coverage(w)'
<1> USE DEF RewardInv, TypeOK, Go, givenVars, batchVars, searchVars
<1>1. Coverage(w) /\ OneBehind(w)
  BY DEF AllCovered, PipelineOneBehind, OneBehind
<1>2. good' = good
  BY DEF Worker, SkipControl, ControlFlags, ControlPause, DrainPipeline, BeginBatch,
         NextHash, LastHash, HashOne, HashInVain, HashThrows, CatchError, StoreError,
         Claim, StoreNonce, StoreHash
<1>3. CASE SkipControl(w) \/ ControlFlags(w) \/ ControlPause(w) \/ DrainPipeline(w)
  BY <1>1, <1>2, <1>3
     DEF SkipControl, ControlFlags, ControlPause, StartHashing, DrainPipeline, Coverage
<1>4. CASE HashInVain(w) \/ HashThrows(w) \/ CatchError(w) \/ StoreError(w)
  BY <1>1, <1>2, <1>4 DEF HashInVain, HashThrows, CatchError, StoreError, Coverage
<1>5. CASE Claim(w) \/ StoreNonce(w) \/ StoreHash(w)
  BY <1>1, <1>2, <1>5 DEF Claim, StoreNonce, StoreHash, Coverage
<1>6. CASE BeginBatch(w)
  <2>1. /\ first'[w] = nonce[w] /\ nonce'[w] = nonce[w] + Batch * Stride /\ i'[w] = 1
        /\ pc[w] = "begin" /\ pc'[w] = IF Batch = 1 THEN "last" ELSE "next"
        /\ tested' = tested
    BY <1>6 DEF BeginBatch
  <2>2. nonce'[w] \in Own(w)
    BY <1>1, <2>1, OwnStays, RewardAssumption DEF Coverage
  <2>3. BatchNonce(w, 0)' = nonce[w]
    BY <2>1, RewardAssumption DEF BatchNonce, Stride
  <2> QED BY <1>1, <1>2, <2>1, <2>2, <2>3, RewardAssumption DEF Coverage
<1>7. CASE NextHash(w)
  <2> DEFINE n == BatchNonce(w, i[w] - 1)
  <2>1. /\ pc[w] = "next" /\ i[w] \in 1 .. Batch - 1 /\ pending[w] = n
        /\ first'[w] = first[w] /\ nonce' = nonce /\ i'[w] = i[w] + 1
    BY <1>1, <1>7 DEF NextHash, OneBehind
  <2>2. n \in Own(w)
    <3>1. first[w] \in Own(w) /\ i[w] - 1 \in Nat
      BY <1>1, <2>1 DEF Coverage
    <3> QED BY <3>1, OwnStays DEF BatchNonce
  <2>3. BatchNonce(w, i[w] - 1)' = n + Stride
    <3>1. first[w] \in Nat /\ i[w] - 1 \in Nat /\ Stride \in Nat
      BY <2>1, RewardAssumption DEF Stride
    <3>2. (i[w] - 1) * Stride \in Nat
      BY <3>1, ProductIsNat
    <3>3. i[w] * Stride = (i[w] - 1) * Stride + Stride
      BY <3>1, <2>1
    <3>4. i'[w] - 1 = i[w]
      BY <2>1
    <3> QED BY <2>1, <3>1, <3>2, <3>3, <3>4 DEF BatchNonce
  <2>4. tested'[w] = OwnUpTo(w, n + Stride) /\ tested'[w] \subseteq Own(w)
    BY <1>1, <1>7, <2>1, <2>2, Tested DEF NextHash, NonceOfOutput, Coverage
  <2>5. CASE n \in good
    <3>1. pc'[w] = "drain" BY <1>7, <2>1, <2>5 DEF NextHash
    <3> QED BY <1>1, <2>1, <2>4, <3>1 DEF Coverage
  <2>6. CASE n \notin good
    <3>1. tested'[w] \cap good' = {}
      BY <1>1, <1>2, <1>7, <2>1, <2>6 DEF NextHash, Test, Coverage
    <3>2. pc'[w] = IF i[w] + 1 = Batch THEN "last" ELSE "next"
      BY <1>7, <2>1, <2>6 DEF NextHash
    <3>3. i[w] + 1 = Batch => i'[w] - 1 = Batch - 1
      BY <2>1, RewardAssumption
    <3>4. /\ tested'[w] = OwnUpTo(w, BatchNonce(w, i[w] - 1)')
          /\ pc'[w] = "last" => tested'[w] = OwnUpTo(w, BatchNonce(w, Batch - 1)')
      BY <2>3, <2>4, <3>2, <3>3 DEF BatchNonce
    <3> QED BY <1>1, <2>1, <2>4, <3>1, <3>2, <3>4 DEF Coverage
  <2> QED BY <2>5, <2>6
<1>8. CASE LastHash(w)
  <2> DEFINE n == BatchNonce(w, Batch - 1)
  <2>1. /\ pc[w] = "last" /\ pending[w] = n /\ nonce' = nonce
        /\ pc'[w] = IF n \in good THEN "claim" ELSE "control"
    BY <1>1, <1>8 DEF LastHash, OneBehind
  <2>2. Batch - 1 \in Nat /\ n \in Own(w)
    BY <1>1, <2>1, OwnStays, RewardAssumption DEF Coverage, BatchNonce
  <2>3. n + Stride = nonce[w]
    <3>1. Batch * Stride = (Batch - 1) * Stride + Stride /\ Stride \in Nat
      BY RewardAssumption DEF Stride
    <3>2. first[w] \in Nat /\ (Batch - 1) * Stride \in Int
      BY <2>2, <3>1
    <3> QED BY <1>1, <2>1, <3>1, <3>2 DEF BatchNonce, Coverage
  <2>4. tested'[w] = OwnUpTo(w, nonce[w]) /\ tested'[w] \subseteq Own(w)
    BY <1>1, <1>8, <2>1, <2>2, <2>3, Tested DEF LastHash, Coverage
  <2>5. n \notin good => tested'[w] \cap good' = {}
    BY <1>1, <1>2, <1>8, <2>1 DEF LastHash, Test, Coverage
  <2> QED BY <1>1, <2>1, <2>4, <2>5 DEF Coverage
<1>9. CASE HashOne(w)
  <2>1. /\ pc[w] = "hash" /\ nonce[w] \in Own(w) /\ nonce'[w] = nonce[w] + Stride
        /\ pc'[w] = IF nonce[w] \in good THEN "claim" ELSE "control"
    BY <1>1, <1>9 DEF HashOne, Coverage
  <2>2. nonce'[w] \in Own(w)
    <3>1. 1 * Stride = Stride BY RewardAssumption DEF Stride
    <3> QED BY <2>1, <3>1, OwnStays
  <2>3. tested'[w] = OwnUpTo(w, nonce'[w]) /\ tested'[w] \subseteq Own(w)
    BY <1>1, <1>9, <2>1, Tested DEF HashOne, Coverage
  <2>4. nonce[w] \notin good => tested'[w] \cap good' = {}
    BY <1>1, <1>2, <1>9, <2>1 DEF HashOne, Test, Coverage
  <2> QED BY <1>1, <2>1, <2>2, <2>3, <2>4 DEF Coverage
<1> QED BY <1>3, <1>4, <1>5, <1>6, <1>7, <1>8, <1>9 DEF Worker

\* A worker's progress is its own affair.
LEMMA OthersKeepProgress ==
  ASSUME RewardInv, NEW w \in Workers, Worker(w), NEW v \in Workers, v # w, Coverage(v)
  PROVE  Coverage(v)'
<1> USE DEF RewardInv, TypeOK, Go, givenVars, batchVars, searchVars
<1>1. /\ pc'[v] = pc[v] /\ first'[v] = first[v] /\ i'[v] = i[v]
      /\ pending'[v] = pending[v] /\ candidate'[v] = candidate[v]
  BY OthersUnchanged
<1>2. nonce'[v] = nonce[v] /\ tested'[v] = tested[v] /\ good' = good
  <2>1. CASE SkipControl(w) \/ ControlFlags(w) \/ ControlPause(w) \/ DrainPipeline(w)
    BY <2>1 DEF SkipControl, ControlFlags, ControlPause, DrainPipeline
  <2>2. CASE BeginBatch(w)
    BY <2>2 DEF BeginBatch
  <2>3. CASE NextHash(w) \/ LastHash(w) \/ HashOne(w)
    BY <2>3 DEF NextHash, LastHash, HashOne, Test
  <2>4. CASE HashInVain(w) \/ HashThrows(w) \/ CatchError(w) \/ StoreError(w)
    BY <2>4 DEF HashInVain, HashThrows, CatchError, StoreError
  <2>5. CASE Claim(w) \/ StoreNonce(w) \/ StoreHash(w)
    BY <2>5 DEF Claim, StoreNonce, StoreHash
  <2> QED BY <2>1, <2>2, <2>3, <2>4, <2>5 DEF Worker
<1> QED BY <1>1, <1>2 DEF Coverage, BatchNonce

LEMMA StepCovers == RewardInv /\ AllCovered /\ [Next]_vars => AllCovered'
<1> SUFFICES ASSUME RewardInv, AllCovered, [Next]_vars, NEW v \in Workers
             PROVE  Coverage(v)'
  BY DEF AllCovered
<1>1. CASE \E w \in Workers : Worker(w)
  BY <1>1, WorkerCovers, OthersKeepProgress DEF AllCovered
<1>2. CASE Join \/ Stop \/ PauseOrResume \/ UNCHANGED vars
  <2>1. UNCHANGED <<pc, good, nonce, tested, first, i>>
    BY <1>2 DEF Join, Stop, PauseOrResume, vars, givenVars, batchVars, searchVars
  <2> QED BY <2>1 DEF AllCovered, Coverage, BatchNonce
<1> QED BY <1>1, <1>2 DEF Next

\* No nonce is hashed by two workers, none of a worker's own is passed over
\* and no good one is missed, for any number of threads and any batch size.
THEOREM NoncesAlwaysCovered == Spec => []NoncesCovered
<1>1. RewardInv /\ AllCovered => NoncesCovered
  <2> SUFFICES ASSUME RewardInv, AllCovered PROVE NoncesCovered
    OBVIOUS
  <2>1. \A v, w \in Workers : v # w => tested[v] \cap tested[w] = {}
    BY DEF AllCovered, Coverage, Own
  <2>2. ASSUME NEW w \in Workers, pc[w] \in {"control", "pause", "begin", "hash"}
        PROVE  /\ tested[w] = {n \in 0 .. nonce[w] - 1 : n % Threads = w}
               /\ tested[w] \cap good = {}
    <3>1. tested[w] = OwnUpTo(w, nonce[w]) /\ tested[w] \cap good = {}
      BY <2>2 DEF AllCovered, Coverage
    <3>2. nonce[w] \in Nat
      BY DEF RewardInv, TypeOK
    <3> QED BY <3>1, <3>2 DEF OwnUpTo, Own
  <2> QED BY <2>1, <2>2 DEF NoncesCovered
<1>2. RewardInv /\ AllCovered /\ [Next]_vars => AllCovered'
  BY StepCovers
<1> QED BY RewardInvHolds, InitCovers, <1>1, <1>2, PTL DEF Spec
=============================================================================

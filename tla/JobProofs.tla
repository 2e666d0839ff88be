------------------------------ MODULE JobProofs ------------------------------
(***************************************************************************)
(* Proofs about jobs: how they are asked for, built and handed over.       *)
(*                                                                         *)
(* SubmitClient and SoloJobs, which is built on it: for any number of      *)
(* dropped connections, the answer a request reads is its own, and a pool  *)
(* is greeted once on each connection, before anything else, whatever the  *)
(* requests are and whatever becomes of their answers.  For any sets of    *)
(* transactions, page size and number of pages, the cached mempool is what *)
(* its time stamp says, and the pages of a mempool that changes only       *)
(* behind what has been read add up.                                       *)
(*                                                                         *)
(* PoolJobs: for any number of blocks, PoolJobsInv is inductive, and the   *)
(* main loop never decides to submit a block older than the counted ones.  *)
(*                                                                         *)
(* PowBuffer: for any transactions, blocks and nonces that take 9 bytes,   *)
(* a nonce written over another gives the bytes that encoding it gives.    *)
(***************************************************************************)
EXTENDS SoloJobs, PoolJobs, PowBuffer, SequenceTheorems, FiniteSetTheorems,
        WellFoundedInduction, TLAPS

\* Whatever the client does about its connection in the middle of a request
\* keeps the flags, the answers and the greeting together.
LEMMA ClientStep == ClientInv /\ [Next]_vars => ClientInv'
<1> SUFFICES ASSUME ClientInv, [Next]_vars
             PROVE  ClientInv'
    OBVIOUS
<1> USE NodeClientAssumption
<1> USE DEF ClientInv, TypeOK, ClientTypeOK, FlagsTellTheTruth, AnswersPaired,
            GreetsFirst, clientVars, peerVars
<1>1. CASE SendRequest
      BY <1>1 DEF SendRequest
<1>2. CASE UseOpenSocket
      BY <1>2 DEF UseOpenSocket, MustGreet
<1>3. CASE Reopen
      BY <1>3 DEF Reopen, OpenSocket, MustGreet
<1>4. CASE ReopenFails
      BY <1>4 DEF ReopenFails, Fail
<1>5. CASE Greet
      BY <1>5 DEF Greet
<1>6. CASE GreetFails
      BY <1>6 DEF GreetFails, Fail
<1>7. CASE Write
      BY <1>7 DEF Write
<1>8. CASE Read
      BY <1>8 DEF Read
<1>12. CASE Refused
      BY <1>12 DEF Refused, Fail
<1>9. CASE ExchangeFails
  <2>1. ClientTypeOK'
    <3>1. subscribed' \in BOOLEAN /\ handshake_done' \in BOOLEAN
          BY <1>9, Zenon DEF ExchangeFails, AfterFailedExchange, CloseSocket
    <3> QED
        BY <1>9, <3>1 DEF ExchangeFails, AfterFailedExchange, CloseSocket
  <2> QED
      BY <1>9, <2>1 DEF ExchangeFails, AfterFailedExchange, Fail, CloseSocket
<1>10. CASE Peer
      BY <1>10 DEF Peer, PeerDrops, PeerReturns
<1>11. CASE UNCHANGED vars
      BY <1>11 DEF vars
<1> QED
    BY <1>1, <1>2, <1>3, <1>4, <1>5, <1>6, <1>7, <1>8, <1>9, <1>10, <1>11,
       <1>12
    DEF Next, Client

\* Before the first request nothing is owed.
LEMMA ClientInitInv == Init => ClientInv
<1> HAVE Init
<1>1. subscribed \in BOOLEAN /\ handshake_done \in BOOLEAN /\ greeted \in BOOLEAN
      BY Zenon DEF Init
<1> QED
    BY <1>1, NodeClientAssumption
    DEF Init, ClientInv, TypeOK, ClientTypeOK, FlagsTellTheTruth, AnswersPaired,
        GreetsFirst

\* send_request keeps its invariant whatever the peer does to connections.
THEOREM ClientInvHolds == Spec => []ClientInv
<1> QED
    BY ClientInitInv, ClientStep, PTL DEF Spec

\* No request ever reads the answer to another one.
THEOREM EveryAnswerPaired == Spec => []AnswersPaired
<1>1. ClientInv => AnswersPaired
      BY DEF ClientInv
<1> QED
    BY <1>1, ClientInvHolds, PTL

\* On no connection is a pool greeted twice, or sent a request ungreeted.
THEOREM PoolGreetedFirst == Spec => []GreetsFirst
<1>1. ClientInv => GreetsFirst
      BY DEF ClientInv
<1> QED
    BY <1>1, ClientInvHolds, PTL

\* Building, polling and submitting are requests one after the other: each
\* step of SoloJobs is a step of SubmitClient, or leaves it alone.
LEMMA JobsStep == [JobsNext]_allVars => [Next]_vars
<1> SUFFICES ASSUME [JobsNext]_allVars
             PROVE  [Next]_vars
    OBVIOUS
<1> USE DEF Next, Client
<1>1. CASE Ask
      BY <1>1 DEF Ask
<1>2. CASE Carry
      BY <1>2 DEF Carry
<1>3. CASE UseCache \/ Refresh
      BY <1>3 DEF UseCache, Refresh
<1>4. CASE Answers
  <2>1. Read
        BY <1>4 DEF Answers, CarelessAnswer, HeightAnswer, DifficultyAnswer,
                    RewardAnswer, PageAnswer, RefreshDone, PrevAnswer, Accepted,
                    Rejected, AskNext
  <2> QED
      BY <2>1
<1>5. CASE Failures
  <2>1. Throws
        BY <1>5 DEF Failures, CarelessFailure, RefreshFails, RequestFails
  <2> QED
      BY <2>1 DEF Throws
<1>6. CASE MineEnds
      BY <1>6 DEF MineEnds
<1>7. CASE Node
      BY <1>7 DEF Node, TxArrives, TxExpires, BlockArrives
<1>8. CASE Tick
      BY <1>8 DEF Tick
<1>9. CASE UNCHANGED allVars
      BY <1>9 DEF allVars
<1> QED
    BY <1>1, <1>2, <1>3, <1>4, <1>5, <1>6, <1>7, <1>8, <1>9 DEF JobsNext, Miner

\* What run_solo and run_pool do with the connection is what SubmitClient says.
THEOREM JobsAreRequests == JobsSpec => Spec
<1>1. JobsInit => Init
      BY DEF JobsInit
<1> QED
    BY <1>1, JobsStep, PTL DEF JobsSpec, Spec

\* So the answers, the greetings and the flags stay together while jobs are
\* built from many answers, and whichever of the requests fails.
THEOREM JobsKeepClient == JobsSpec => []ClientInv
<1> QED
    BY JobsAreRequests, ClientInvHolds, PTL
-----------------------------------------------------------------------------
(***************************************************************************)
(* Induction over the natural numbers, for a set of them: a predicate P is *)
(* the set of the n with P(n).  It rests on the well-foundedness of < and  *)
(* is what the facts about recursive definitions below are proved by.      *)
(***************************************************************************)
LEMMA NatInductionOnSets ==
  ASSUME NEW T, 0 \in T, \A n \in Nat : n \in T => n + 1 \in T
  PROVE  Nat \subseteq T
<1> DEFINE U == Nat \ T
           R == {p \in Nat \X Nat : p[1] < p[2]}
<1> SUFFICES ASSUME U # {} PROVE FALSE  OBVIOUS
<1>1. IsWellFoundedOn(R, Nat)  BY NatLessThanWellFounded DEF OpToRel
<1>2. \E x \in U : \A y \in U : <<y, x>> \notin R
  <2> U \subseteq Nat OBVIOUS
  <2> HIDE DEF R, U
  <2> QED BY <1>1, WFMin
<1>3. PICK x \in U : \A y \in U : ~(y < x)
  <2>1. \A y, x \in U : y < x => <<y, x>> \in R OBVIOUS
  <2> QED BY <1>2, <2>1
<1>4. x # 0 /\ x - 1 \in Nat /\ (x - 1) + 1 = x OBVIOUS
<1>5. x - 1 \notin U BY <1>3, <1>4
<1> QED BY <1>4, <1>5

\* f is the first n + 1 values of the recursion f[i] = step[i][f[i - 1]] from first.
Recurs(f, V, first, step, n) ==
  /\ f \in [0 .. n -> V]
  /\ f[0] = first /\ \A i \in 1 .. n : f[i] = step[i][f[i - 1]]

\* There is such a function: each is extended by one value.
LEMMA BoundedRecursion ==
  ASSUME NEW V, NEW first \in V, NEW step \in [Nat -> [V -> V]], NEW n \in Nat
  PROVE  \E f : Recurs(f, V, first, step, n)
<1> USE DEF Recurs
<1> DEFINE Fits(f, m) == Recurs(f, V, first, step, m)
           T == {m \in Nat : \E f : Fits(f, m)}
<1>1. 0 \in T
  <2>1. Fits([i \in 0 .. 0 |-> first], 0)
    OBVIOUS
  <2> QED BY <2>1
<1>2. ASSUME NEW m \in Nat, m \in T PROVE m + 1 \in T
  <2>1. PICK f : Fits(f, m)
    BY <1>2
  <2> DEFINE g == [i \in 0 .. m + 1 |-> IF i <= m THEN f[i] ELSE step[m + 1][f[m]]]
  <2>2. step[m + 1][f[m]] \in V
    BY <2>1
  <2>3. g \in [0 .. m + 1 -> V] /\ g[0] = first
    BY <2>1, <2>2
  <2>4. ASSUME NEW i \in 1 .. m + 1 PROVE g[i] = step[i][g[i - 1]]
    <3>1. CASE i \in 1 .. m
      <4>1. g[i] = f[i] /\ g[i - 1] = f[i - 1]
        BY <3>1
      <4> QED BY <2>1, <3>1, <4>1
    <3>2. CASE i = m + 1
      <4>1. g[i] = step[m + 1][f[m]] /\ g[i - 1] = f[m]
        BY <3>2
      <4> QED BY <3>2, <4>1
    <3> QED BY <3>1, <3>2
  <2>5. Fits(g, m + 1)
    BY <2>3, <2>4
  <2> HIDE DEF Fits, g
  <2> QED BY <2>5
<1>3. n \in T
  <2> HIDE DEF T
  <2> QED BY <1>1, <1>2, NatInductionOnSets
<1> QED BY <1>3

LEMMA MinOfTwo == \A a, b \in Int : Min({a, b}) = IF a <= b THEN a ELSE b
<1> SUFFICES ASSUME NEW a \in Int, NEW b \in Int
             PROVE  Min({a, b}) = IF a <= b THEN a ELSE b
  OBVIOUS
<1> DEFINE m == IF a <= b THEN a ELSE b
<1>1. m \in {a, b} /\ \A y \in {a, b} : m <= y
  OBVIOUS
<1>2. \A x \in {a, b} : (\A y \in {a, b} : x <= y) => x = m
  OBVIOUS
<1> QED BY <1>1, <1>2 DEF Min

\* kept[i] is what Without leaves of the first i elements.
KeptUpTo(kept, list, txs, n) ==
  kept = [i \in 0 .. n |->
            IF i = 0 THEN << >>
            ELSE IF list[i] \in txs THEN kept[i - 1] ELSE Append(kept[i - 1], list[i])]

\* There is such a function, and so Without computes what its recursion says.
LEMMA WithoutByKept ==
  ASSUME NEW S, NEW list \in Seq(S), NEW txs
  PROVE  \E kept : /\ Without(list, txs) = kept[Len(list)]
                   /\ kept[0] = << >>
                   /\ \A i \in 1 .. Len(list) :
                        kept[i] = IF list[i] \in txs THEN kept[i - 1]
                                  ELSE Append(kept[i - 1], list[i])
<1> DEFINE n == Len(list)
           k == CHOOSE kept : KeptUpTo(kept, list, txs, n)
           More(s, i) == IF list[i] \in txs THEN s ELSE Append(s, list[i])
           step == [i \in Nat |-> [s \in Seq(S) |-> IF i \in 1 .. n THEN More(s, i) ELSE s]]
<1>1. n \in Nat /\ \A i \in 1 .. n : list[i] \in S
  OBVIOUS
<1>2. Without(list, txs) = k[n]
  BY DEF Without, KeptUpTo
<1>3. \A f : KeptUpTo(f, list, txs, n)
               <=> f = [i \in 0 .. n |-> IF i = 0 THEN << >> ELSE More(f[i - 1], i)]
  BY Zenon DEF KeptUpTo
<1>4. << >> \in Seq(S) /\ \A i \in 1 .. n, s \in Seq(S) : More(s, i) \in Seq(S)
  BY <1>1
<1> HIDE DEF More, n
<1>5. step \in [Nat -> [Seq(S) -> Seq(S)]]
  BY <1>4
<1>6. ASSUME NEW i \in 1 .. n, NEW s \in Seq(S) PROVE step[i][s] = More(s, i)
  <2>1. i \in Nat
    BY <1>1
  <2>2. step[i] = [t \in Seq(S) |-> IF i \in 1 .. n THEN More(t, i) ELSE t]
    BY <2>1
  <2> QED BY <2>2
<1> HIDE DEF step
<1>7. PICK f : Recurs(f, Seq(S), << >>, step, n)
  BY <1>1, <1>4, <1>5, BoundedRecursion
<1>8. ASSUME NEW i \in 0 .. n
      PROVE  f[i] = IF i = 0 THEN << >> ELSE More(f[i - 1], i)
  <2>1. CASE i = 0
    BY <1>7, <2>1 DEF Recurs
  <2>2. CASE i # 0
    <3>1. i \in 1 .. n /\ f[i - 1] \in Seq(S)
      BY <1>1, <1>7, <2>2 DEF Recurs
    <3> QED BY <1>6, <1>7, <2>2, <3>1 DEF Recurs
  <2> QED BY <2>1, <2>2
<1>9. KeptUpTo(k, list, txs, n)
  <2>1. f = [i \in 0 .. n |-> f[i]]
    BY <1>7 DEF Recurs
  <2>2. f = [i \in 0 .. n |-> IF i = 0 THEN << >> ELSE More(f[i - 1], i)]
    BY <1>8, <2>1
  <2> QED BY <1>3, <2>2
<1> HIDE DEF k
<1>10. /\ k[0] = << >>
       /\ \A i \in 1 .. n : k[i] = More(k[i - 1], i)
  <2>1. k = [i \in 0 .. n |-> IF i = 0 THEN << >> ELSE More(k[i - 1], i)]
    BY <1>3, <1>9
  <2>2. 0 \in 0 .. n /\ \A i \in 1 .. n : i \in 0 .. n /\ i # 0
    BY <1>1
  <2> QED BY <2>1, <2>2
<1> QED BY <1>2, <1>10 DEF More, n

\* The elements of what Append makes, and of a list that repeats nothing.
LEMMA Appended ==
  ASSUME NEW S, NEW list \in Seq(S), NEW e \in S
  PROVE  /\ ToSet(Append(list, e)) = ToSet(list) \cup {e}
         /\ IsInjective(list) /\ e \notin ToSet(list) => IsInjective(Append(list, e))
<1> DEFINE a == Append(list, e)
<1>1. /\ DOMAIN list = 1 .. Len(list) /\ DOMAIN a = 1 .. Len(list) + 1 /\ Len(list) \in Nat
      /\ \A i \in 1 .. Len(list) : a[i] = list[i]
      /\ a[Len(list) + 1] = e
  BY AppendProperties, LenProperties
<1> HIDE DEF a
<1>2. ToSet(a) = ToSet(list) \cup {e}
  BY <1>1 DEF ToSet
<1>3. IsInjective(list) /\ e \notin ToSet(list) => IsInjective(a)
  BY <1>1 DEF IsInjective, ToSet
<1> QED BY <1>2, <1>3 DEF a

\* Without takes out the given transactions, no others, and repeats none.
LEMMA WithoutKeeps ==
  ASSUME NEW S, NEW list \in Seq(S), NEW txs
  PROVE  /\ Without(list, txs) \in Seq(S \ txs)
         /\ ToSet(Without(list, txs)) = ToSet(list) \ txs
         /\ IsInjective(list) => IsInjective(Without(list, txs))
<1>1. PICK kept : /\ Without(list, txs) = kept[Len(list)]
                  /\ kept[0] = << >>
                  /\ \A i \in 1 .. Len(list) :
                       kept[i] = IF list[i] \in txs THEN kept[i - 1]
                                 ELSE Append(kept[i - 1], list[i])
  BY WithoutByKept
<1>2. Len(list) \in Nat /\ DOMAIN list = 1 .. Len(list) /\ \A i \in 1 .. Len(list) : list[i] \in S
  OBVIOUS
<1> DEFINE Fine(n) == /\ kept[n] \in Seq(S \ txs)
                      /\ ToSet(kept[n]) = {list[i] : i \in 1 .. n} \ txs
                      /\ IsInjective(list) => IsInjective(kept[n])
           T == {n \in Nat : n <= Len(list) => Fine(n)}
<1>3. 0 \in T
  <2>1. << >> \in Seq(S \ txs) /\ ToSet(<< >>) = {} /\ IsInjective(<< >>)
    BY DEF ToSet, IsInjective
  <2>2. {list[i] : i \in 1 .. 0} = {}
    OBVIOUS
  <2> QED BY <1>1, <2>1, <2>2
<1>4. ASSUME NEW n \in Nat, n \in T PROVE n + 1 \in T
  <2> SUFFICES ASSUME n + 1 <= Len(list) PROVE Fine(n + 1)
    OBVIOUS
  <2>1. Fine(n)
    BY <1>2, <1>4
  <2>2. n + 1 \in 1 .. Len(list) /\ (n + 1) - 1 = n
    BY <1>2
  <2>3. {list[i] : i \in 1 .. n + 1} = {list[i] : i \in 1 .. n} \cup {list[n + 1]}
    OBVIOUS
  <2>4. CASE list[n + 1] \in txs
    <3>1. kept[n + 1] = kept[n]
      BY <1>1, <2>2, <2>4
    <3> QED BY <2>1, <2>3, <2>4, <3>1
  <2>5. CASE list[n + 1] \notin txs
    <3>1. kept[n + 1] = Append(kept[n], list[n + 1]) /\ list[n + 1] \in S \ txs
      BY <1>1, <1>2, <2>2, <2>5
    <3>2. /\ kept[n + 1] \in Seq(S \ txs)
          /\ ToSet(kept[n + 1]) = ToSet(kept[n]) \cup {list[n + 1]}
          /\ IsInjective(kept[n]) /\ list[n + 1] \notin ToSet(kept[n]) => IsInjective(kept[n + 1])
      BY <2>1, <3>1, Appended, AppendProperties
    <3>3. IsInjective(list) => list[n + 1] \notin {list[i] : i \in 1 .. n}
      BY <1>2, <2>2 DEF IsInjective
    <3> QED BY <2>1, <2>3, <2>5, <3>2, <3>3
  <2> QED BY <2>4, <2>5
<1>5. Fine(Len(list))
  <2> HIDE DEF Fine
  <2>1. Len(list) \in T
    <3> HIDE DEF T
    <3> QED BY <1>2, <1>3, <1>4, NatInductionOnSets
  <2> QED BY <1>2, <2>1
<1>6. ToSet(list) = {list[i] : i \in 1 .. Len(list)}
  BY <1>2 DEF ToSet
<1> QED BY <1>1, <1>5, <1>6

\* Elements of concatenations and of parts.
LEMMA Concatenated ==
  ASSUME NEW S, NEW s \in Seq(S), NEW t \in Seq(S)
  PROVE  ToSet(s \o t) = ToSet(s) \cup ToSet(t)
<1> DEFINE c == s \o t
<1>1. /\ DOMAIN s = 1 .. Len(s) /\ DOMAIN t = 1 .. Len(t)
      /\ DOMAIN c = 1 .. Len(s) + Len(t) /\ Len(s) \in Nat /\ Len(t) \in Nat
      /\ \A i \in 1 .. Len(s) + Len(t) : c[i] = IF i <= Len(s) THEN s[i] ELSE t[i - Len(s)]
  BY ConcatProperties, LenProperties
<1> HIDE DEF c
<1>2. \A i \in 1 .. Len(s) : c[i] = s[i] /\ i \in DOMAIN c
  BY <1>1
<1>3. \A i \in 1 .. Len(t) : c[i + Len(s)] = t[i] /\ i + Len(s) \in DOMAIN c
  BY <1>1
<1>4. ToSet(c) \subseteq ToSet(s) \cup ToSet(t)
  <2> SUFFICES ASSUME NEW i \in DOMAIN c PROVE c[i] \in ToSet(s) \cup ToSet(t)
    BY DEF ToSet
  <2>1. CASE i <= Len(s)  BY <1>1, <2>1 DEF ToSet
  <2>2. CASE ~(i <= Len(s))
    <3>1. i - Len(s) \in 1 .. Len(t) /\ c[i] = t[i - Len(s)]
      BY <1>1, <2>2
    <3> QED BY <1>1, <3>1 DEF ToSet
  <2> QED BY <2>1, <2>2
<1>5. ToSet(s) \subseteq ToSet(c)
  BY <1>1, <1>2 DEF ToSet
<1>6. ToSet(t) \subseteq ToSet(c)
  <2> SUFFICES ASSUME NEW i \in 1 .. Len(t) PROVE t[i] \in ToSet(c)
    BY <1>1 DEF ToSet
  <2> QED BY <1>3 DEF ToSet
<1> QED BY <1>4, <1>5, <1>6 DEF c

LEMMA PartOf ==
  ASSUME NEW S, NEW s \in Seq(S), NEW m \in Nat, NEW n \in Nat, m > 0, n <= Len(s)
  PROVE  /\ SubSeq(s, m, n) \in Seq(S)
         /\ ToSet(SubSeq(s, m, n)) = {s[i] : i \in m .. n}
         /\ IsInjective(s) => IsInjective(SubSeq(s, m, n))
<1> DEFINE p == SubSeq(s, m, n)
<1>1. /\ p \in Seq(S) /\ DOMAIN s = 1 .. Len(s) /\ DOMAIN p = 1 .. Len(p)
      /\ Len(s) \in Nat /\ Len(p) = IF m <= n THEN n - m + 1 ELSE 0
      /\ \A i \in 1 .. n - m + 1 : p[i] = s[m + i - 1]
  BY SubSeqProperties
<1> HIDE DEF p
<1>2. \A i \in m .. n : i - m + 1 \in DOMAIN p /\ p[i - m + 1] = s[i]
  BY <1>1
<1>3. \A i \in DOMAIN p : m + i - 1 \in m .. n /\ p[i] = s[m + i - 1]
  BY <1>1
<1>4. ToSet(p) = {s[i] : i \in m .. n}
  <2>1. ASSUME NEW i \in DOMAIN p PROVE p[i] \in {s[j] : j \in m .. n}
    BY <1>3
  <2>2. ASSUME NEW i \in m .. n PROVE s[i] \in ToSet(p)
    <3>1. i - m + 1 \in DOMAIN p /\ p[i - m + 1] = s[i]
      BY <1>2
    <3> QED BY <3>1 DEF ToSet
  <2> QED BY <2>1, <2>2 DEF ToSet
<1>5. ASSUME IsInjective(s) PROVE IsInjective(p)
  <2> SUFFICES ASSUME NEW i \in DOMAIN p, NEW j \in DOMAIN p, p[i] = p[j]
               PROVE  i = j
    BY DEF IsInjective
  <2>1. m + i - 1 \in DOMAIN s /\ m + j - 1 \in DOMAIN s
    BY <1>1, <1>3
  <2>2. m + i - 1 = m + j - 1
    BY <1>3, <1>5, <2>1 DEF IsInjective
  <2> QED BY <1>1, <2>2
<1> QED BY <1>1, <1>4, <1>5 DEF p

\* A transaction may be put anywhere in a list.
LEMMA Inserted ==
  ASSUME NEW S, NEW s \in Seq(S), NEW k \in 1 .. Len(s) + 1, NEW e \in S
  PROVE  /\ InsertAt(s, k, e) \in Seq(S)
         /\ ToSet(InsertAt(s, k, e)) = ToSet(s) \cup {e}
         /\ IsInjective(s) /\ e \notin ToSet(s) => IsInjective(InsertAt(s, k, e))
<1> DEFINE a == SubSeq(s, 1, k - 1)
           b == SubSeq(s, k, Len(s))
           c == InsertAt(s, k, e)
           ae == a \o << e >>
<1>1. Len(s) \in Nat /\ DOMAIN s = 1 .. Len(s) /\ k - 1 \in Nat /\ k - 1 <= Len(s)
  OBVIOUS
<1>2. /\ a \in Seq(S) /\ Len(a) = k - 1 /\ \A i \in 1 .. k - 1 : a[i] = s[i]
      /\ b \in Seq(S) /\ Len(b) = Len(s) - k + 1
      /\ \A i \in 1 .. Len(s) - k + 1 : b[i] = s[k + i - 1]
  BY <1>1, SubSeqProperties
<1>3. << e >> \in Seq(S) /\ Len(<< e >>) = 1 /\ << e >>[1] = e
  OBVIOUS
<1>4. c = ae \o b
  BY DEF InsertAt
<1> HIDE DEF a, b, c
<1>5. /\ ae \in Seq(S) /\ Len(ae) = k
      /\ \A i \in 1 .. k : ae[i] = IF i <= k - 1 THEN a[i] ELSE e
  BY <1>1, <1>2, <1>3, ConcatProperties
<1> HIDE DEF ae
<1>6. /\ c \in Seq(S) /\ Len(c) = Len(s) + 1
      /\ \A i \in 1 .. Len(s) + 1 :
           c[i] = IF i <= k THEN ae[i] ELSE b[i - k]
  <2>1. Len(ae) = k /\ Len(ae) + Len(b) = Len(s) + 1
    BY <1>1, <1>2, <1>5
  <2>2. /\ c \in Seq(S) /\ Len(c) = Len(ae) + Len(b)
        /\ \A i \in 1 .. Len(ae) + Len(b) :
             c[i] = IF i <= Len(ae) THEN ae[i] ELSE b[i - Len(ae)]
    BY <1>2, <1>4, <1>5, ConcatProperties
  <2> QED BY <2>1, <2>2
<1>7. /\ DOMAIN c = 1 .. Len(s) + 1
      /\ \A i \in 1 .. Len(s) + 1 :
           c[i] = IF i < k THEN s[i] ELSE IF i = k THEN e ELSE s[i - 1]
  <2>1. DOMAIN c = 1 .. Len(s) + 1
    BY <1>6
  <2> SUFFICES ASSUME NEW i \in 1 .. Len(s) + 1
               PROVE  c[i] = IF i < k THEN s[i] ELSE IF i = k THEN e ELSE s[i - 1]
    BY <2>1
  <2>2. CASE i < k
    <3>1. i \in 1 .. k - 1 /\ i \in 1 .. k
      BY <1>1, <2>2
    <3> QED BY <1>2, <1>5, <1>6, <2>2, <3>1
  <2>3. CASE i = k
    BY <1>1, <1>5, <1>6, <2>3
  <2>4. CASE i > k
    <3>1. i - k \in 1 .. Len(s) - k + 1 /\ k + (i - k) - 1 = i - 1
      BY <1>1, <2>4
    <3>2. b[i - k] = s[i - 1]
      BY <1>2, <3>1
    <3> QED BY <1>1, <1>6, <2>4, <3>2
  <2> QED BY <1>1, <2>2, <2>3, <2>4
<1>8. ToSet(c) = ToSet(s) \cup {e}
  <2>1. \A i \in DOMAIN s : s[i] \in ToSet(c)
    <3> SUFFICES ASSUME NEW i \in DOMAIN s PROVE s[i] \in ToSet(c)
      OBVIOUS
    <3>1. CASE i < k
      BY <1>1, <1>7, <3>1 DEF ToSet
    <3>2. CASE i >= k
      <4>1. i + 1 \in DOMAIN c /\ c[i + 1] = s[i]
        BY <1>1, <1>7, <3>2
      <4> QED BY <4>1 DEF ToSet
    <3> QED BY <1>1, <3>1, <3>2
  <2>2. e \in ToSet(c)
    BY <1>1, <1>7 DEF ToSet
  <2>3. \A i \in DOMAIN c : c[i] \in ToSet(s) \cup {e}
    <3> SUFFICES ASSUME NEW i \in DOMAIN c, i # k PROVE c[i] \in ToSet(s)
      BY <1>1, <1>7
    <3>1. CASE i < k
      <4>1. i \in DOMAIN s /\ c[i] = s[i]
        BY <1>1, <1>7, <3>1
      <4> QED BY <4>1 DEF ToSet
    <3>2. CASE i > k
      <4>1. i - 1 \in DOMAIN s /\ c[i] = s[i - 1]
        BY <1>1, <1>7, <3>2
      <4> QED BY <4>1 DEF ToSet
    <3> QED BY <1>1, <1>7, <3>1, <3>2
  <2> QED BY <2>1, <2>2, <2>3 DEF ToSet
<1>9. IsInjective(s) /\ e \notin ToSet(s) => IsInjective(c)
  BY <1>1, <1>7 DEF IsInjective, ToSet
<1> QED BY <1>6, <1>8, <1>9 DEF c

\* As many elements as places, when nothing is repeated.
LEMMA CountedOnce ==
  ASSUME NEW S, NEW s \in Seq(S), IsInjective(s)
  PROVE  IsFiniteSet(ToSet(s)) /\ Cardinality(ToSet(s)) = Len(s)
<1>1. Len(s) \in Nat /\ s \in [1 .. Len(s) -> ToSet(s)] /\ DOMAIN s = 1 .. Len(s)
  BY DEF ToSet
<1>2. s \in Bijection(1 .. Len(s), ToSet(s))
  BY <1>1 DEF Bijection, Injection, Surjection, IsInjective, ToSet
<1>3. ExistsBijection(1 .. Len(s), ToSet(s))
  BY <1>2 DEF ExistsBijection
<1> QED BY <1>1, <1>3, FS_CountingElements, FS_NatBijection

\* A page is a part of the node's mempool.
LEMMA PagesAreParts ==
  ASSUME JobsTypeOK, NEW n \in Nat
  PROVE  /\ n * PageSize \in Nat /\ (n + 1) * PageSize = n * PageSize + PageSize
         /\ PageOf(n) \in Seq(Txs \ gone)
<1> USE SoloJobsAssumption
<1>1. n * PageSize \in Nat /\ (n + 1) * PageSize = n * PageSize + PageSize
  OBVIOUS
<1>2. Len(mempool) \in Nat /\ mempool \in Seq(Txs \ gone)
  BY DEF JobsTypeOK
<1> DEFINE m == Min({(n + 1) * PageSize, Len(mempool)})
<1>3. m \in Nat /\ m <= Len(mempool)
  BY <1>1, <1>2, MinOfTwo
<1> HIDE DEF m
<1>4. SubSeq(mempool, n * PageSize + 1, m) \in Seq(Txs \ gone)
  BY <1>1, <1>2, <1>3, PartOf
<1> QED BY <1>1, <1>4 DEF PageOf, m

\* Transactions leave the node's mempool and its order stays as it was.
LEMMA LeavesKeeps ==
  ASSUME JobsTypeOK, FetchInOrder, NEW txs \in SUBSET ToSet(mempool), Leaves(txs)
  PROVE  /\ mempool' \in Seq(Txs \ gone') /\ IsInjective(mempool')
         /\ gone \subseteq gone' /\ (still' => still /\ PagesKept)
<1>1. mempool \in Seq(Txs \ gone) /\ IsInjective(mempool)
  BY DEF JobsTypeOK
<1>2. mempool' \in Seq((Txs \ gone) \ txs) /\ IsInjective(mempool')
  BY <1>1, WithoutKeeps DEF Leaves
<1>3. (Txs \ gone) \ txs = Txs \ gone'
  BY DEF Leaves
<1>4. still' => still /\ PagesKept
  BY DEF Leaves
<1> QED BY <1>2, <1>3, <1>4 DEF Leaves

\* While the pages that have been read stay as they are, they are the first ones.
LEMMA ReadStaysRead ==
  ASSUME JobsTypeOK, FetchInOrder, mempool' \in Seq(Txs \ gone'), still' => still /\ PagesKept,
         UNCHANGED <<at, page, all, gone_asked>>
  PROVE  FetchInOrder'
<1> SUFFICES ASSUME still'
             PROVE  /\ at = "page" /\ page * PageSize <= Len(mempool')
                    /\ all = SubSeq(mempool', 1, page * PageSize)
  BY DEF FetchInOrder
<1> DEFINE k == page * PageSize
<1>1. k \in Nat
  BY PagesAreParts, SoloJobsAssumption DEF JobsTypeOK
<1>2. /\ at = "page" /\ k <= Len(mempool) /\ all = SubSeq(mempool, 1, k)
      /\ k <= Len(mempool') /\ \A i \in 1 .. k : mempool'[i] = mempool[i]
  BY DEF FetchInOrder, PagesKept
<1> HIDE DEF k
<1>3. /\ SubSeq(mempool, 1, k) \in Seq(Txs) /\ SubSeq(mempool', 1, k) \in Seq(Txs)
      /\ Len(SubSeq(mempool, 1, k)) = k /\ Len(SubSeq(mempool', 1, k)) = k
      /\ \A i \in 1 .. k : SubSeq(mempool, 1, k)[i] = SubSeq(mempool', 1, k)[i]
  BY <1>1, <1>2 DEF JobsTypeOK
<1>4. SubSeq(mempool, 1, k) = SubSeq(mempool', 1, k)
  BY <1>1, <1>3, SeqEqual
<1> QED BY <1>2, <1>4 DEF k

\* What filter_mempool keeps is of the list it is given.
LEMMA FilteredKeeps ==
  ASSUME NEW S, NEW list \in Seq(S), case \in Cases
  PROVE  /\ Filtered(list) \in Seq(S)
         /\ ToSet(Filtered(list)) \subseteq ToSet(list) \ case.early
         /\ IsInjective(list) =>
              /\ IsInjective(Filtered(list))
              /\ Len(Filtered(list)) =
                   Min({Cardinality(ToSet(list) \ case.early), case.max_txs - 1})
<1> DEFINE kept_txs == Without(list, case.early)
           room == Min({Len(kept_txs), case.max_txs - 1})
<1>1. /\ kept_txs \in Seq(S \ case.early)
      /\ ToSet(kept_txs) = ToSet(list) \ case.early
      /\ IsInjective(list) => IsInjective(kept_txs)
  BY WithoutKeeps
<1>2. case.max_txs - 1 \in Nat
  BY SoloJobsAssumption
<1>3. Filtered(list) = SubSeq(kept_txs, 1, room)
  BY DEF Filtered
<1> HIDE DEF kept_txs
<1>4. room \in Nat /\ room <= Len(kept_txs) /\ Len(kept_txs) \in Nat
  <2>1. Len(kept_txs) \in Nat
    BY <1>1
  <2> HIDE DEF kept_txs
  <2> QED BY <1>2, <2>1, MinOfTwo
<1> HIDE DEF room
<1>5. /\ Filtered(list) \in Seq(S \ case.early)
      /\ ToSet(Filtered(list)) = {kept_txs[i] : i \in 1 .. room}
      /\ IsInjective(kept_txs) => IsInjective(Filtered(list))
  <2>1. kept_txs \in Seq(S \ case.early)
    BY <1>1
  <2> QED BY <2>1, <1>3, <1>4, PartOf
<1>6. {kept_txs[i] : i \in 1 .. room} \subseteq ToSet(kept_txs)
  BY <1>1, <1>4 DEF ToSet
<1>7. Filtered(list) \in Seq(S)
  BY <1>5, SeqMonotonic
<1>8. ASSUME IsInjective(list)
      PROVE  Len(Filtered(list)) = Min({Cardinality(ToSet(list) \ case.early), case.max_txs - 1})
  <2>1. Cardinality(ToSet(list) \ case.early) = Len(kept_txs)
    BY <1>1, <1>8, CountedOnce
  <2>2. Len(Filtered(list)) = room
    BY <1>1, <1>3, <1>4, SubSeqProperties
  <2> QED BY <2>1, <2>2 DEF room
<1> QED BY <1>1, <1>5, <1>6, <1>7, <1>8

\* The miner starts with no job.
LEMMA JobsInitInv == JobsInit => JobsInv /\ CacheIsDated
<1> SUFFICES ASSUME JobsInit PROVE JobsInv /\ CacheIsDated
  OBVIOUS
<1> USE SoloJobsAssumption DEF JobsInit
<1>1. ClientInv
  BY ClientInitInv
<1>2. << >> \in Seq(Txs \ gone) /\ << >> \in Seq(Txs) /\ IsInjective(<< >>) /\ ToSet(<< >>) = {}
  BY DEF IsInjective, ToSet
<1>3. JobsTypeOK
  BY <1>2 DEF JobsTypeOK, Asking, Careless, RefreshAge
<1>4. FetchInOrder /\ CacheIsDated
  BY <1>2 DEF FetchInOrder, CacheIsDated
<1> QED BY <1>1, <1>3, <1>4 DEF JobsInv

\* A page read is added to the pages before it.
LEMMA AnotherPage ==
  ASSUME JobsTypeOK, FetchInOrder, at = "page"
  PROVE  /\ all \o PageOf(page) \in Seq(Txs)
         /\ ToSet(all \o PageOf(page)) \cap gone_asked = {}
         /\ still => all \o PageOf(page) =
                       SubSeq(mempool, 1, Min({(page + 1) * PageSize, Len(mempool)}))
<1>1. page \in Nat /\ all \in Seq(Txs) /\ mempool \in Seq(Txs \ gone) /\ gone_asked \subseteq gone
  BY DEF JobsTypeOK
<1>2. /\ page * PageSize \in Nat /\ (page + 1) * PageSize = page * PageSize + PageSize
      /\ PageOf(page) \in Seq(Txs \ gone)
  BY <1>1, PagesAreParts
<1>3. PageOf(page) \in Seq(Txs)
  BY <1>2, SeqMonotonic
<1>4. all \o PageOf(page) \in Seq(Txs)
      /\ ToSet(all \o PageOf(page)) = ToSet(all) \cup ToSet(PageOf(page))
  BY <1>1, <1>3, Concatenated, ConcatProperties
<1>5. ToSet(PageOf(page)) \subseteq Txs \ gone
  BY <1>2 DEF ToSet
<1>6. ASSUME still
      PROVE  all \o PageOf(page) =
               SubSeq(mempool, 1, Min({(page + 1) * PageSize, Len(mempool)}))
  <2> DEFINE k == page * PageSize
             n == Min({(page + 1) * PageSize, Len(mempool)})
  <2>1. k \in Nat /\ k <= Len(mempool) /\ all = SubSeq(mempool, 1, k) /\ Len(mempool) \in Nat
    BY <1>1, <1>2, <1>6 DEF FetchInOrder
  <2>2. PageOf(page) = SubSeq(mempool, k + 1, n)
    BY DEF PageOf
  <2>3. n \in k .. Len(mempool)
    BY <1>2, <2>1, MinOfTwo, SoloJobsAssumption
  <2> HIDE DEF k, n
  <2>4. SubSeq(mempool, 1, k) \o SubSeq(mempool, k + 1, n) = SubSeq(mempool, 1, n)
    BY <1>1, <2>1, <2>3, ConcatAdjacentSubSeq
  <2> QED BY <2>1, <2>2, <2>4 DEF n
<1> QED BY <1>1, <1>4, <1>5, <1>6 DEF FetchInOrder

\* Every step of the node, of the miner and of time keeps the invariant.
LEMMA JobsStepInv == JobsInv /\ [JobsNext]_allVars => JobsInv'
<1> SUFFICES ASSUME JobsInv, [JobsNext]_allVars PROVE JobsInv'
  OBVIOUS
<1> DEFINE Safe == JobsTypeOK /\ FetchInOrder /\ (at = "submit" => height < MaxHeight)
<1>1. ClientInv'
  BY JobsStep, ClientStep DEF JobsInv
<1>2. JobsTypeOK /\ FetchInOrder /\ (at = "submit" => height < MaxHeight)
  BY DEF JobsInv
<1> SUFFICES Safe'
  BY <1>1 DEF JobsInv
<1> USE <1>2, SoloJobsAssumption
<1> USE DEF JobsTypeOK, FetchInOrder, Asking, Careless, RefreshAge, jobVars, configVars,
            nodeVars, buildVars, ghostVars, AskNext, FetchOver
<1>3. CASE UNCHANGED jobVars
  BY <1>3
<1>4. CASE TxArrives
  <2>1. PICK t \in Txs \ (ToSet(mempool) \cup gone), k \in 1 .. Len(mempool) + 1 :
               mempool' = InsertAt(mempool, k, t)
    BY <1>4 DEF TxArrives
  <2>2. mempool' \in Seq(Txs \ gone) /\ IsInjective(mempool')
    BY <2>1, Inserted
  <2>3. /\ UNCHANGED <<configVars, chain, gone, at, buildVars, gone_asked, outdated>>
        /\ still' => still /\ PagesKept
    BY <1>4 DEF TxArrives
  <2>4. FetchInOrder'
    BY <2>2, <2>3, ReadStaysRead
  <2> QED BY <2>2, <2>3, <2>4
<1>5. CASE TxExpires \/ BlockArrives
  <2>1. PICK txs \in SUBSET ToSet(mempool) : Leaves(txs)
    <3>1. CASE TxExpires
      <4>1. PICK t \in ToSet(mempool) : Leaves({t})
        BY <3>1 DEF TxExpires
      <4> QED BY <4>1
    <3>2. CASE BlockArrives  BY <3>2 DEF BlockArrives
    <3> QED BY <1>5, <3>1, <3>2
  <2>2. /\ mempool' \in Seq(Txs \ gone') /\ IsInjective(mempool')
        /\ gone \subseteq gone' /\ (still' => still /\ PagesKept)
    BY <2>1, LeavesKeeps
  <2>3. /\ UNCHANGED <<configVars, at, buildVars, gone_asked, outdated>>
        /\ chain' \in 0 .. MaxHeight /\ chain <= chain'
    BY <1>5 DEF TxExpires, BlockArrives
  <2>4. FetchInOrder'
    BY <2>2, <2>3, ReadStaysRead
  <2> QED BY <2>2, <2>3, <2>4
<1>6. CASE Tick
  BY <1>6 DEF Tick, OneMore
<1>7. CASE \/ CarelessAnswer \/ HeightAnswer \/ DifficultyAnswer \/ RewardAnswer
           \/ UseCache \/ PrevAnswer
  BY <1>7 DEF CarelessAnswer, HeightAnswer, DifficultyAnswer, RewardAnswer, UseCache, PrevAnswer,
              AfterMempool
<1>8. CASE Refresh
  <2>1. << >> \in Seq(Txs) /\ ToSet(<< >>) = {} /\ SubSeq(mempool, 1, 0) = << >>
    BY SubSeqEmpty DEF ToSet
  <2> QED BY <1>8, <2>1 DEF Refresh
<1>9. CASE PageAnswer
  <2>1. /\ all' \in Seq(Txs) /\ ToSet(all') \cap gone_asked = {}
        /\ still => all' = SubSeq(mempool, 1, Min({(page + 1) * PageSize, Len(mempool)}))
    BY <1>9, AnotherPage DEF PageAnswer
  <2>2. page' = page + 1 /\ page < MaxPages /\ (page + 1) * PageSize < Len(mempool)
    BY <1>9 DEF PageAnswer, LastPage, HasNext, NextPage
  <2>3. Min({(page + 1) * PageSize, Len(mempool)}) = (page + 1) * PageSize
    <3>1. page \in Nat /\ Len(mempool) \in Nat
      OBVIOUS
    <3>2. (page + 1) * PageSize \in Nat
      BY <3>1, PagesAreParts
    <3> QED BY <2>2, <3>1, <3>2, MinOfTwo
  <2>4. /\ at' = "page" /\ still' = still /\ gone_asked' = gone_asked
        /\ UNCHANGED <<configVars, nodeVars, height, cache, age, asked, outdated>>
    BY <1>9 DEF PageAnswer
  <2>5. JobsTypeOK'
    BY <2>1, <2>2, <2>4
  <2>6. FetchInOrder'
    <3> DEFINE reach == (page + 1) * PageSize
    <3>1. page' * PageSize = reach /\ reach < Len(mempool)
      BY <2>2
    <3>2. still => all' = SubSeq(mempool, 1, reach)
      BY <2>1, <2>3
    <3>3. reach \in Nat
      BY PagesAreParts
    <3> HIDE DEF reach
    <3> QED BY <2>1, <2>4, <3>1, <3>2, <3>3
  <2> QED BY <2>4, <2>5, <2>6
<1>10. CASE RefreshDone
  <2>1. cache' \in Seq(Txs)
    BY <1>10, AnotherPage, FilteredKeeps DEF RefreshDone
  <2>2. << >> \in Seq(Txs) /\ ToSet(<< >>) = {}
    BY DEF ToSet
  <2> QED BY <1>10, <2>1, <2>2 DEF RefreshDone, AfterMempool
<1>11. CASE MineEnds
  BY <1>11 DEF MineEnds, Found, NextJob
<1>12. CASE Accepted
  <2>1. Leaves(ToSet(cache)) /\ ToSet(cache) \subseteq ToSet(mempool)
    BY <1>12 DEF Accepted, Valid
  <2>2. /\ mempool' \in Seq(Txs \ gone') /\ IsInjective(mempool')
        /\ gone \subseteq gone' /\ (still' => still)
    BY <2>1, LeavesKeeps
  <2> QED BY <1>12, <2>2 DEF Accepted, Valid, NextJob
<1>13. CASE Rejected
  BY <1>13 DEF Rejected, NextJob
<1>14. CASE CarelessFailure \/ RequestFails
  BY <1>14 DEF CarelessFailure, RequestFails
<1>15. CASE RefreshFails
  <2>1. << >> \in Seq(Txs) /\ ToSet(<< >>) = {}
    BY DEF ToSet
  <2> QED BY <1>15, <2>1 DEF RefreshFails, AfterFailedRefresh, AfterMempool
<1> QED
  BY <1>3, <1>4, <1>5, <1>6, <1>7, <1>8, <1>9, <1>10, <1>11, <1>12, <1>13, <1>14, <1>15
  DEF JobsNext, Miner, Node, Answers, Failures, Ask, Carry, allVars

\* Only a refresh changes what the cache holds and how old it is.
LEMMA StaysDated == JobsInv /\ CacheIsDated /\ [JobsNext]_allVars => CacheIsDated'
<1> SUFFICES ASSUME JobsInv, CacheIsDated, [JobsNext]_allVars PROVE outdated' = {}
  BY DEF CacheIsDated
<1>1. JobsTypeOK /\ FetchInOrder /\ outdated = {} /\ case \in Cases
  BY DEF JobsInv, JobsTypeOK, CacheIsDated
<1>2. CASE RefreshDone
  <2> DEFINE list == all \o PageOf(page)
  <2>1. list \in Seq(Txs) /\ ToSet(list) \cap gone_asked = {}
    BY <1>1, <1>2, AnotherPage DEF RefreshDone
  <2>2. ToSet(Filtered(list)) \subseteq ToSet(list)
    BY <1>1, <2>1, FilteredKeeps
  <2>3. cache' = Filtered(list) /\ outdated' = ToSet(cache') \cap gone_asked
    BY <1>2 DEF RefreshDone
  <2> QED BY <2>1, <2>2, <2>3
<1>3. CASE ~RefreshDone
  <2>1. outdated' = outdated
    BY <1>3 DEF JobsNext, Miner, Ask, Carry, Node, TxArrives, TxExpires, BlockArrives, Tick,
                Answers, Failures, UseCache, Refresh, CarelessAnswer, HeightAnswer,
                DifficultyAnswer, RewardAnswer, PageAnswer, PrevAnswer, Accepted, Rejected,
                MineEnds, CarelessFailure, RefreshFails, AfterFailedRefresh, RequestFails,
                allVars, jobVars, ghostVars
  <2> QED BY <1>1, <2>1
<1> QED BY <1>2, <1>3

\* The list of a mempool, read page by page, is what the pages reach in the end.
LEMMA RefreshReaches ==
  ASSUME JobsInv, RefreshDone, still
  PROVE  /\ cache' = Filtered(Reached)
         /\ Reached \in Seq(Txs) /\ IsInjective(Reached)
<1>1. JobsTypeOK /\ FetchInOrder /\ at = "page" /\ LastPage(page)
  BY DEF JobsInv, RefreshDone
<1>2. /\ page \in 0 .. MaxPages /\ mempool \in Seq(Txs \ gone) /\ IsInjective(mempool)
      /\ Len(mempool) \in Nat /\ MaxPages \in Nat
  BY <1>1, SoloJobsAssumption DEF JobsTypeOK
<1>3. (MaxPages + 1) * PageSize \in Nat /\ (page + 1) * PageSize <= (MaxPages + 1) * PageSize
      /\ (page + 1) * PageSize \in Nat
  BY <1>2, SoloJobsAssumption
<1>4. Min({(page + 1) * PageSize, Len(mempool)}) = Min({Len(mempool), (MaxPages + 1) * PageSize})
  <2>1. CASE page = MaxPages
    BY <1>2, <1>3, <2>1, MinOfTwo
  <2>2. CASE page < MaxPages
    <3>1. Len(mempool) <= (page + 1) * PageSize
      BY <1>1, <1>2, <1>3, <2>2 DEF LastPage, HasNext
    <3> QED BY <1>2, <1>3, <3>1, MinOfTwo
  <2> QED BY <1>2, <2>1, <2>2
<1>5. all \o PageOf(page) = Reached
  BY <1>1, <1>4, AnotherPage DEF Reached
<1>6. Reached \in Seq(Txs \ gone) /\ IsInjective(Reached)
  <2> DEFINE n == Min({Len(mempool), (MaxPages + 1) * PageSize})
  <2>1. n \in Nat /\ n <= Len(mempool)
    BY <1>2, <1>3, MinOfTwo
  <2> HIDE DEF n
  <2>2. SubSeq(mempool, 1, n) \in Seq(Txs \ gone) /\ IsInjective(SubSeq(mempool, 1, n))
    BY <1>2, <2>1, PartOf
  <2> QED BY <2>2 DEF Reached, n
<1>7. Reached \in Seq(Txs)
  BY <1>6, SeqMonotonic
<1> QED BY <1>5, <1>6, <1>7 DEF RefreshDone

\* filter_mempool takes as many of them as a block has room for.
LEMMA PagesDoAddUp ==
  ASSUME JobsInv, RefreshDone, still
  PROVE  /\ IsInjective(cache')
         /\ ToSet(cache') \subseteq ToSet(Reached) \ case.early
         /\ Len(cache') = Min({Cardinality(ToSet(Reached) \ case.early), case.max_txs - 1})
<1>1. case \in Cases
  BY DEF JobsInv, JobsTypeOK
<1> QED BY <1>1, RefreshReaches, FilteredKeeps

\* Whatever the node does to its chain and its mempool while a job is built,
\* page by page, and whichever request fails, the client's answers stay
\* paired, lists stay lists of transactions, and a fetch stays in order.
THEOREM JobsInvHolds == JobsSpec => []JobsInv
<1> QED
    BY JobsInitInv, JobsStepInv, PTL DEF JobsSpec

\* No transaction in the cache had left the mempool before cached_mempool_at_.
THEOREM CacheAlwaysDated == JobsSpec => []CacheIsDated
<1> QED
    BY JobsInvHolds, JobsInitInv, StaysDated, PTL DEF JobsSpec

\* mempool_all: as long as what has been read of the mempool does not move, the
\* pages neither repeat a transaction nor miss one, and filter_mempool takes as
\* many as a block has room for.
THEOREM PagesAlwaysAddUp == JobsSpec => PagesAddUp
<1> DEFINE AddUp ==
      RefreshDone /\ still =>
        /\ IsInjective(cache')
        /\ ToSet(cache') \subseteq ToSet(Reached) \ case.early
        /\ Len(cache') = Min({Cardinality(ToSet(Reached) \ case.early), case.max_txs - 1})
<1>1. JobsInv /\ [JobsNext]_allVars => [AddUp]_allVars
  BY PagesDoAddUp
<1>2. JobsSpec => [][AddUp]_allVars
  <2> HIDE DEF AddUp
  <2> QED BY <1>1, JobsInvHolds, PTL DEF JobsSpec
<1> QED
    BY <1>2 DEF PagesAddUp
-----------------------------------------------------------------------------
(***************************************************************************)
(* Jobs from a pool that speaks the node protocol (PoolJobs).              *)
(***************************************************************************)
LEMMA PoolJobsInitInv == PoolJobsInit => PoolJobsInv
<1>1. PoolJobsInit => stop \in BOOLEAN /\ paused \in BOOLEAN
  BY Zenon DEF PoolJobsInit
<1>2. PoolJobsInit => prepared \in [version : Blocks, block : Blocks]
  BY PoolJobsAssumption DEF PoolJobsInit, Blocks
<1>3. PoolJobsInit => PoolJobsTypeOK
  BY <1>1, <1>2, PoolJobsAssumption DEF PoolJobsInit, PoolJobsTypeOK, Blocks, MainPC
<1>. QED
  BY <1>3 DEF PoolJobsInit, PoolJobsInv, StoredBeforeCounted, NeverBehindItsVersion,
     MinesThePreparedJob

\* The event thread: the block first, then its number.
LEMMA EventStepInv ==
  ASSUME PoolJobsInv, StoreBlock \/ CountBlock
  PROVE  PoolJobsInv'
<1>. USE PoolJobsAssumption DEF PoolJobsInv, PoolJobsTypeOK, Blocks, MainPC
<1>1. CASE StoreBlock
  <2>1. PoolJobsTypeOK' /\ StoredBeforeCounted'
    BY <1>1 DEF StoreBlock, StoredBeforeCounted, mainVars, userVars
  <2>2. NeverBehindItsVersion' /\ MinesThePreparedJob'
    BY <1>1 DEF StoreBlock, NeverBehindItsVersion, MinesThePreparedJob, mainVars, userVars
  <2>. QED
    BY <1>1, <2>1, <2>2 DEF StoreBlock, mainVars
<1>2. CASE CountBlock
  <2>1. job_version' = latest_job
    BY <1>2 DEF CountBlock, StoredBeforeCounted
  <2>2. PoolJobsTypeOK' /\ StoredBeforeCounted'
    BY <1>2, <2>1 DEF CountBlock, StoredBeforeCounted, mainVars, userVars
  <2>3. NeverBehindItsVersion' /\ MinesThePreparedJob'
    BY <1>2 DEF CountBlock, NeverBehindItsVersion, MinesThePreparedJob, mainVars, userVars
  <2>. QED
    BY <1>2, <2>2, <2>3 DEF CountBlock, mainVars
<1>. QED
  BY <1>1, <1>2

\* The steps that change what the main loop has read or prepared.
LEMMA ReadJobInv ==
  ASSUME PoolJobsInv, ReadJob
  PROVE  PoolJobsInv'
<1>. USE PoolJobsAssumption DEF PoolJobsInv, ReadJob, eventVars, userVars
<1>1. PoolJobsTypeOK'
  BY DEF PoolJobsTypeOK, MainPC
<1>2. StoredBeforeCounted'
  BY DEF StoredBeforeCounted
<1>3. NeverBehindItsVersion'
  BY DEF PoolJobsTypeOK, Blocks, StoredBeforeCounted, NeverBehindItsVersion
<1>4. MinesThePreparedJob'
  BY DEF MinesThePreparedJob
<1>. QED
  BY <1>1, <1>2, <1>3, <1>4

LEMMA PrepareInv ==
  ASSUME PoolJobsInv, Prepare
  PROVE  PoolJobsInv'
<1>. USE PoolJobsAssumption DEF PoolJobsInv, Prepare, eventVars, userVars
<1>1. prepared' \in [version : Blocks, block : Blocks]
  BY DEF PoolJobsTypeOK
<1>2. prepared'.version = version
  BY DEF PoolJobsTypeOK, NeedsPreparing
<1>3. /\ prepared'.block \in {version, version + 1}
      /\ prepared'.block <= latest_job
  BY DEF PoolJobsTypeOK, NeedsPreparing, NeverBehindItsVersion
<1>4. PoolJobsTypeOK'
  BY <1>1 DEF PoolJobsTypeOK, MainPC
<1>5. StoredBeforeCounted' /\ NeverBehindItsVersion' /\ MinesThePreparedJob'
  BY <1>2, <1>3 DEF PoolJobsTypeOK, Blocks, StoredBeforeCounted, NeverBehindItsVersion,
     MinesThePreparedJob
<1>. QED
  BY <1>4, <1>5

\* Every other step only moves the main loop, or sets a flag.
LEMMA MoveInv ==
  ASSUME PoolJobsInv,
         \/ Leave \/ StartIteration \/ MineNothing \/ CheckVersion \/ Submit
         \/ MineSolution \/ Stop \/ PauseOrResume \/ UNCHANGED poolJobsVars
  PROVE  PoolJobsInv'
<1>. USE DEF PoolJobsInv
<1>1. UNCHANGED <<eventVars, block, version, prepared, job>>
  BY DEF Leave, StartIteration, MineNothing, CheckVersion, Submit, MineSolution,
     Stop, PauseOrResume, poolJobsVars, mainVars
<1>2. /\ mpc' \in {"prepare"} => mpc' = mpc
      /\ mpc' \in {"mine", "check", "submit"} => mpc \in {"mine", "check", "submit"}
      /\ mpc' = "read" => mpc = "read" \/ job_version > 0
      /\ mpc' \in MainPC
  BY DEF Leave, StartIteration, MineNothing, CheckVersion, Submit, MineSolution,
     Stop, PauseOrResume, poolJobsVars, mainVars, PoolJobsTypeOK, MainPC
<1>3. stop' \in BOOLEAN /\ paused' \in BOOLEAN
  BY Zenon DEF Leave, StartIteration, MineNothing, CheckVersion, Submit, MineSolution,
     Stop, PauseOrResume, poolJobsVars, userVars, PoolJobsTypeOK
<1>4. PoolJobsTypeOK'
  BY <1>1, <1>2, <1>3 DEF PoolJobsTypeOK, eventVars
<1>5. StoredBeforeCounted' /\ NeverBehindItsVersion' /\ MinesThePreparedJob'
  BY <1>1, <1>2 DEF StoredBeforeCounted, NeverBehindItsVersion,
     MinesThePreparedJob, eventVars
<1>. QED
  BY <1>1, <1>2, <1>4, <1>5 DEF eventVars

\* What the main loop caches is never behind the version it is filed under.
THEOREM PoolJobsInvHolds == PoolJobsSpec => []PoolJobsInv
<1>1. PoolJobsInv /\ [PoolJobsNext]_poolJobsVars => PoolJobsInv'
  BY EventStepInv, ReadJobInv, PrepareInv, MoveInv DEF PoolJobsNext, MainSteps
<1>. QED
  BY PoolJobsInitInv, <1>1, PTL DEF PoolJobsSpec

LEMMA CheckedIsFresh ==
  ASSUME PoolJobsInv, [PoolJobsNext]_poolJobsVars, mpc = "check", mpc' = "submit"
  PROVE  job >= job_version /\ job >= latest_job - 1
<1>1. CheckVersion
  BY DEF PoolJobsNext, MainSteps, StoreBlock, CountBlock, Leave, StartIteration, ReadJob,
     Prepare, MineNothing, MineSolution, Submit, Stop, PauseOrResume, mainVars, poolJobsVars
<1>2. job_version = version
  BY <1>1 DEF CheckVersion, StillCurrent
<1>3. job \in {version, version + 1} /\ latest_job <= job_version + 1
  BY DEF PoolJobsInv, PoolJobsTypeOK, Blocks, MinesThePreparedJob, NeverBehindItsVersion,
     StoredBeforeCounted
<1>. QED
  BY <1>2, <1>3 DEF PoolJobsInv, PoolJobsTypeOK, Blocks

\* The comparison of versions in run_pool is enough to keep old blocks from
\* being submitted, although block and version do not change together.
THEOREM NoOldBlockSubmitted == PoolJobsSpec => SubmitsNoOldBlock
<1>1. PoolJobsInv /\ [PoolJobsNext]_poolJobsVars =>
        [mpc = "check" /\ mpc' = "submit" => job >= job_version /\ job >= latest_job - 1]_poolJobsVars
  BY CheckedIsFresh
<1>. QED
  BY <1>1, PoolJobsInvHolds, PTL DEF PoolJobsSpec, SubmitsNoOldBlock
-----------------------------------------------------------------------------
(***************************************************************************)
(* The bytes that are hashed (PowBuffer).                                  *)
(***************************************************************************)
\* What the bytes of a number count for: positive, and not decreasing.
LEMMA Weights ==
  /\ \A k \in 0 .. 8 : Power[k] \in Nat /\ Power[k] > 0
  /\ Follow2 < Power[2] /\ Power[2] <= Power[4]
<1> USE PowBufferAssumption
<1>1. Power[1] = Byte * Power[0] /\ Power[1] = Byte
  OBVIOUS
<1>2. \A a \in Nat, b \in Nat : a > 0 /\ b > 0 => a * b \in Nat /\ a * b > 0 /\ b <= a * b
  <2> SUFFICES ASSUME NEW a \in Nat, NEW b \in Nat, a > 0, b > 0
               PROVE  a * b \in Nat /\ a * b > 0 /\ b <= a * b
    OBVIOUS
  <2>1. a * b = (a - 1) * b + b /\ (a - 1) * b \in Nat
    OBVIOUS
  <2> QED BY <2>1
<1>3. ASSUME NEW k \in 0 .. 7, Power[k] > 0
      PROVE  Power[k + 1] > 0 /\ Power[k] <= Power[k + 1]
  BY <1>2, <1>3
<1>4. Power[0] > 0 /\ Power[1] > 0
  BY <1>1
<1>5. Power[2] > 0 /\ Power[1] <= Power[2]
  BY <1>3, <1>4
<1>6. Power[3] > 0 /\ Power[2] <= Power[3]
  BY <1>3, <1>5
<1>7. Power[4] > 0 /\ Power[3] <= Power[4]
  BY <1>3, <1>6
<1>8. Power[5] > 0
  BY <1>3, <1>7
<1>9. Power[6] > 0
  BY <1>3, <1>8
<1>10. Power[7] > 0
  BY <1>3, <1>9
<1>11. Power[8] > 0
  BY <1>3, <1>10
<1>12. \A k \in 0 .. 8 : Power[k] \in Nat
  OBVIOUS
<1>13. \A k \in 0 .. 8 : k \in {0, 1, 2, 3, 4, 5, 6, 7, 8}
  OBVIOUS
<1> QED BY <1>1, <1>4, <1>5, <1>6, <1>7, <1>8, <1>9, <1>10, <1>11, <1>12, <1>13 DEF Follow2

LEMMA ByteRemains ==
  ASSUME NEW a \in Nat, NEW b \in Nat, b > 0
  PROVE  a \div b \in Nat /\ a % b \in 0 .. b - 1
OBVIOUS

\* The fixed-width numbers (write_le_u16 to write_le_u64).
LEMMA LittleEndianIsBytes ==
  ASSUME NEW value \in Nat, NEW width \in 0 .. 9
  PROVE  /\ LittleEndian(value, width) \in ByteString
         /\ Len(LittleEndian(value, width)) = width
<1> DEFINE byte(i) == (value \div Power[i - 1]) % Byte
<1>1. ASSUME NEW i \in 1 .. width PROVE byte(i) \in 0 .. Byte - 1
  <2>1. Power[i - 1] \in Nat /\ Power[i - 1] > 0
    BY Weights
  <2>2. value \div Power[i - 1] \in Nat
    BY <2>1, ByteRemains
  <2> QED BY <2>2, ByteRemains, PowBufferAssumption
<1>2. LittleEndian(value, width) = [i \in 1 .. width |-> byte(i)]
  BY DEF LittleEndian
<1> HIDE DEF byte
<1>3. [i \in 1 .. width |-> byte(i)] \in [1 .. width -> 0 .. Byte - 1]
  BY <1>1
<1> QED BY <1>2, <1>3 DEF ByteString

\* Every number is written as bytes.
LEMMA VarUintIsBytes ==
  ASSUME NEW value \in Nat
  PROVE  VarUint(value) \in ByteString
<1>1. Byte \in Nat /\ Byte > 5
  BY PowBufferAssumption
<1>2. /\ <<Follow2>> \in ByteString /\ <<Follow4>> \in ByteString /\ <<Follow8>> \in ByteString
      /\ value < Follow2 => <<value>> \in ByteString
  BY <1>1 DEF ByteString, Follow2, Follow4, Follow8
<1>3. /\ LittleEndian(value, 2) \in ByteString /\ LittleEndian(value, 4) \in ByteString
      /\ LittleEndian(value, 8) \in ByteString
  <2>1. 2 \in 0 .. 9 /\ 4 \in 0 .. 9 /\ 8 \in 0 .. 9
    OBVIOUS
  <2> QED BY <2>1, LittleEndianIsBytes
<1>4. /\ <<Follow2>> \o LittleEndian(value, 2) \in ByteString
      /\ <<Follow4>> \o LittleEndian(value, 4) \in ByteString
      /\ <<Follow8>> \o LittleEndian(value, 8) \in ByteString
  BY <1>2, <1>3, ConcatProperties DEF ByteString
<1> QED BY <1>2, <1>4 DEF VarUint

\* A nonce of a search takes 9 bytes: one that says so, and 8 for the number.
LEMMA WideVarUint ==
  ASSUME NEW value \in Nat, value >= TemplateNonce
  PROVE  \E wide \in ByteString :
           /\ VarUint(value) = wide /\ <<Follow8>> \o LittleEndian(value, 8) = wide
           /\ Len(wide) = 9 /\ wide[1] = Follow8
           /\ \A i \in 1 .. 8 : wide[i + 1] = LittleEndian(value, 8)[i]
<1>1. Power[2] \in Nat /\ Power[4] \in Nat
  BY Weights
<1>2. ~(value < Follow2) /\ ~(value < Power[2]) /\ ~(value < Power[4])
  BY <1>1, Weights, PowBufferAssumption DEF TemplateNonce, Follow2
<1>3. VarUint(value) = <<Follow8>> \o LittleEndian(value, 8)
  BY <1>2 DEF VarUint
<1>4. VarUint(value) \in ByteString
  BY VarUintIsBytes
<1>5. <<Follow8>> \in ByteString /\ Len(<<Follow8>>) = 1 /\ <<Follow8>>[1] = Follow8
  BY PowBufferAssumption DEF ByteString, Follow8
<1>6. LittleEndian(value, 8) \in ByteString /\ Len(LittleEndian(value, 8)) = 8
  BY LittleEndianIsBytes
<1> DEFINE first == <<Follow8>>
           rest == LittleEndian(value, 8)
<1>7. /\ Len(first \o rest) = Len(first) + Len(rest)
      /\ \A i \in 1 .. Len(first) + Len(rest) :
           (first \o rest)[i] = IF i <= Len(first) THEN first[i] ELSE rest[i - Len(first)]
  BY <1>5, <1>6, ConcatProperties DEF ByteString
<1> HIDE DEF first, rest
<1>8. Len(first \o rest) = 9 /\ (first \o rest)[1] = Follow8
  <2>1. Len(first) = 1 /\ Len(rest) = 8 /\ first[1] = Follow8
    BY <1>5, <1>6 DEF first, rest
  <2> QED BY <1>7, <2>1
<1>9. \A i \in 1 .. 8 : (first \o rest)[i + 1] = rest[i]
  <2> SUFFICES ASSUME NEW i \in 1 .. 8 PROVE (first \o rest)[i + 1] = rest[i]
    OBVIOUS
  <2>1. Len(first) = 1 /\ Len(rest) = 8
    BY <1>5, <1>6 DEF first, rest
  <2>2. i + 1 \in 1 .. Len(first) + Len(rest) /\ ~(i + 1 <= Len(first))
        /\ (i + 1) - Len(first) = i
    BY <2>1
  <2> QED BY <1>7, <2>2
<1> QED BY <1>3, <1>4, <1>8, <1>9 DEF first, rest

\* flat[i] is the first i lists of seqs, put one behind the other.
FlattenedUpTo(flat, seqs, n) ==
  flat = [i \in 1 .. n |-> IF i = 1 THEN seqs[i] ELSE flat[i - 1] \o seqs[i]]

\* Lists put one behind the other are a list of what they are lists of.
LEMMA Flattened ==
  ASSUME NEW S, NEW seqs \in Seq(Seq(S))
  PROVE  FlattenSeq(seqs) \in Seq(S)
<1> DEFINE n == Len(seqs)
<1>1. n \in Nat /\ \A i \in 1 .. n : seqs[i] \in Seq(S)
  OBVIOUS
<1>2. CASE n = 0
  BY <1>2 DEF FlattenSeq
<1>3. CASE n # 0
  <2> DEFINE step == [i \in Nat |-> [v \in Seq(S) |->
                        IF i \in 1 .. n THEN v \o seqs[i] ELSE v]]
             chosen == CHOOSE flat : FlattenedUpTo(flat, seqs, n)
  <2>1. <<>> \in Seq(S)
    OBVIOUS
  <2>2. step \in [Nat -> [Seq(S) -> Seq(S)]]
    BY <1>1, ConcatProperties
  <2>3. \A i \in 1 .. n, v \in Seq(S) : step[i][v] = v \o seqs[i]
    <3> SUFFICES ASSUME NEW i \in 1 .. n, NEW v \in Seq(S) PROVE step[i][v] = v \o seqs[i]
      OBVIOUS
    <3>1. i \in Nat
      BY <1>1
    <3>2. step[i] = [w \in Seq(S) |-> IF i \in 1 .. n THEN w \o seqs[i] ELSE w]
      BY <3>1
    <3> HIDE DEF step
    <3> QED BY <3>2
  <2> HIDE DEF step
  <2>4. PICK f \in [0 .. n -> Seq(S)] :
          f[0] = <<>> /\ \A i \in 1 .. n : f[i] = step[i][f[i - 1]]
    <3> HIDE DEF n
    <3>1. \E f : Recurs(f, Seq(S), <<>>, step, n)
      BY <1>1, <2>1, <2>2, BoundedRecursion
    <3> QED BY <3>1 DEF Recurs
  <2> DEFINE g == [i \in 1 .. n |-> f[i]]
  <2>5. ASSUME NEW i \in 1 .. n
        PROVE  g[i] = IF i = 1 THEN seqs[i] ELSE g[i - 1] \o seqs[i]
    <3>1. f[i - 1] \in Seq(S)
      <4>1. i - 1 \in 0 .. n
        BY <1>1
      <4> QED BY <2>4, <4>1
    <3>2. g[i] = f[i - 1] \o seqs[i]
      BY <2>3, <2>4, <3>1
    <3>3. CASE i = 1
      <4>1. f[i - 1] = <<>> /\ seqs[i] \in Seq(S)
        BY <1>1, <2>4, <3>3
      <4> QED BY <3>2, <3>3, <4>1, ConcatEmptySeq
    <3>4. CASE i # 1
      <4>1. i - 1 \in 1 .. n
        BY <1>1, <3>4
      <4> QED BY <3>2, <3>4, <4>1
    <3> QED BY <3>3, <3>4
  <2>6. FlattenedUpTo(g, seqs, n)
    <3>1. g = [i \in 1 .. n |-> g[i]]
      OBVIOUS
    <3> HIDE DEF g
    <3>2. [i \in 1 .. n |-> g[i]]
            = [i \in 1 .. n |-> IF i = 1 THEN seqs[i] ELSE g[i - 1] \o seqs[i]]
      BY <2>5
    <3> QED BY <3>1, <3>2 DEF FlattenedUpTo
  <2> HIDE DEF g
  <2>7. FlattenedUpTo(chosen, seqs, n)
    BY <2>6
  <2>8. FlattenSeq(seqs) = chosen[n]
    BY <1>3 DEF FlattenSeq, FlattenedUpTo
  <2> HIDE DEF chosen
  <2>9. \A i \in 1 .. n :
          chosen[i] = IF i = 1 THEN seqs[i] ELSE chosen[i - 1] \o seqs[i]
    BY <2>7 DEF FlattenedUpTo
  <2> DEFINE T == {i \in Nat : i + 1 \in 1 .. n => chosen[i + 1] \in Seq(S)}
  <2>10. 0 \in T
    <3>1. 1 \in 1 .. n => chosen[1] = seqs[1] /\ seqs[1] \in Seq(S)
      BY <1>1, <2>9
    <3> QED BY <3>1
  <2>11. ASSUME NEW i \in Nat, i \in T PROVE i + 1 \in T
    <3>1. SUFFICES ASSUME i + 2 \in 1 .. n PROVE chosen[i + 2] \in Seq(S)
      BY <1>1
    <3>2. chosen[i + 1] \in Seq(S)
      BY <1>1, <2>11, <3>1
    <3>3. chosen[i + 2] = chosen[i + 1] \o seqs[i + 2]
      <4>1. i + 2 # 1 /\ (i + 2) - 1 = i + 1
        OBVIOUS
      <4> QED BY <2>9, <3>1, <4>1
    <3> QED BY <1>1, <3>1, <3>2, <3>3, ConcatProperties
  <2>12. n - 1 \in T
    <3> HIDE DEF T
    <3>1. n - 1 \in Nat
      BY <1>1, <1>3
    <3> QED BY <2>10, <2>11, <3>1, NatInductionOnSets
  <2> QED BY <1>1, <1>3, <2>8, <2>12
<1> QED BY <1>2, <1>3

\* Bytes put together: bytes again, and which is where.
LEMMA Joined ==
  ASSUME NEW a \in ByteString, NEW b \in ByteString
  PROVE  a \o b \in ByteString
BY ConcatProperties DEF ByteString

LEMMA JoinedAt ==
  ASSUME NEW a \in ByteString, NEW b \in ByteString
  PROVE  /\ Len(a) \in Nat /\ Len(b) \in Nat /\ Len(a \o b) = Len(a) + Len(b)
         /\ \A i \in 1 .. Len(a) + Len(b) :
              (a \o b)[i] = IF i <= Len(a) THEN a[i] ELSE b[i - Len(a)]
<1> DEFINE bytes == 0 .. Byte - 1
<1>1. a \in Seq(bytes) /\ b \in Seq(bytes)
  BY DEF ByteString
<1> HIDE DEF bytes
<1>2. Len(a) \in Nat /\ Len(b) \in Nat
  BY <1>1
<1> QED BY <1>1, <1>2, ConcatProperties

LEMMA Regrouped ==
  ASSUME NEW a \in ByteString, NEW b \in ByteString, NEW c \in ByteString
  PROVE  (a \o b) \o c = a \o (b \o c)
BY ConcatAssociative DEF ByteString

LEMMA OneByOne ==
  ASSUME NEW S, NEW s \in Seq(S)
  PROVE  [i \in DOMAIN s |-> <<s[i]>>] \in Seq(Seq(S))
<1> DEFINE single(e) == <<e>>
           Lists == Seq(S)
<1>1. \A e \in S : single(e) \in Lists
  OBVIOUS
<1> HIDE DEF single, Lists
<1>2. [i \in DOMAIN s |-> single(s[i])] \in Seq(Lists)
  <2>1. DOMAIN s = 1 .. Len(s) /\ Len(s) \in Nat /\ \A i \in 1 .. Len(s) : s[i] \in S
    OBVIOUS
  <2>2. \A i \in 1 .. Len(s) : single(s[i]) \in Lists
    BY <1>1, <2>1
  <2> QED BY <2>1, <2>2
<1> QED BY <1>2 DEF single, Lists

\* What encode_transaction and encode_block write is bytes, part by part.
LEMMA VectorIsBytes ==
  ASSUME NEW encodings \in Seq(ByteString)
  PROVE  EncodeAll(encodings) \in ByteString
<1>1. FlattenSeq(encodings) \in ByteString
  BY Flattened DEF ByteString
<1>2. VarUint(Len(encodings)) \in ByteString
  <2>1. Len(encodings) \in Nat
    OBVIOUS
  <2> QED BY <2>1, VarUintIsBytes
<1> QED BY <1>1, <1>2, Joined DEF EncodeAll

LEMMA OptionIsBytes ==
  ASSUME NEW option \in Option(ByteString)
  PROVE  EncodeOption(option) \in ByteString
<1>1. option \in Seq(ByteString)
  BY DEF Option
<1> QED BY <1>1, VectorIsBytes DEF EncodeOption, EncodeAll

LEMMA TransactionIsBytes ==
  ASSUME NEW tx \in Transaction
  PROVE  /\ EncodeTxInputs(tx) \in ByteString
         /\ BeforeNonce(tx) \in ByteString
         /\ EncodeTransaction(tx) \in ByteString
<1>1. /\ tx.inputs \in Seq(TxInput) /\ tx.outputs \in Seq(TxOutput)
      /\ tx.transaction_id \in Option(ByteString) /\ tx.nonce \in Nat /\ tx.timestamp \in Nat
  BY DEF Transaction
<1>2. ASSUME NEW input \in TxInput PROVE EncodeTxInput(input) \in ByteString
  <2>1. /\ input.transaction_id \in ByteString /\ input.output_index \in Nat
        /\ input.signature \in Option(ByteString) /\ input.output_owner \in ByteString
    BY DEF TxInput
  <2> QED BY <2>1, VarUintIsBytes, OptionIsBytes, Joined DEF EncodeTxInput
<1>3. ASSUME NEW output \in TxOutput PROVE EncodeTxOutput(output) \in ByteString
  <2>1. output.amount \in Nat /\ output.receiver \in ByteString
    BY DEF TxOutput
  <2> QED BY <2>1, VarUintIsBytes, Joined DEF EncodeTxOutput
<1>4. [i \in DOMAIN tx.inputs |-> EncodeTxInput(tx.inputs[i])] \in Seq(ByteString)
  BY <1>1, <1>2
<1>5. [i \in DOMAIN tx.outputs |-> EncodeTxOutput(tx.outputs[i])] \in Seq(ByteString)
  BY <1>1, <1>3
<1>6. EncodeTxInputs(tx) \in ByteString
  BY <1>4, VectorIsBytes DEF EncodeTxInputs
<1>7. BeforeNonce(tx) \in ByteString
  BY <1>1, <1>5, <1>6, VectorIsBytes, OptionIsBytes, Joined DEF BeforeNonce
<1> QED BY <1>1, <1>6, <1>7, VarUintIsBytes, Joined DEF EncodeTransaction

LEMMA MetaIsBytes ==
  ASSUME NEW meta \in BlockMeta
  PROVE  EncodeBlockMeta(meta) \in ByteString
<1> DEFINE filter == meta.address_inclusion_filter
<1>1. /\ meta.block_pow_difficulty \in ByteString /\ meta.tx_pow_difficulty \in ByteString
      /\ meta.previous_block \in ByteString /\ meta.hash \in Option(ByteString)
      /\ meta.merkle_tree_root \in ByteString /\ filter \in AddressFilter
  BY DEF BlockMeta
<1>2. filter.bits \in ByteString /\ filter.num_bits \in Nat /\ filter.num_hashes \in Nat
  BY <1>1 DEF AddressFilter
<1> HIDE DEF filter
<1>3. [i \in DOMAIN filter.bits |-> <<filter.bits[i]>>] \in Seq(ByteString)
  BY <1>2, OneByOne DEF ByteString
<1>4. EncodeAddressFilter(filter) \in ByteString
  BY <1>2, <1>3, VectorIsBytes, VarUintIsBytes, Joined DEF EncodeAddressFilter
<1> QED BY <1>1, <1>4, OptionIsBytes, Joined DEF EncodeBlockMeta, filter

LEMMA BeforeBlockNonceIsBytes ==
  ASSUME NEW b, b.transactions \in Seq(Transaction), b.timestamp \in Nat
  PROVE  BeforeBlockNonce(b) \in ByteString
<1>1. [i \in DOMAIN b.transactions |-> EncodeTransaction(b.transactions[i])]
        \in Seq(ByteString)
  BY TransactionIsBytes
<1> QED BY <1>1, VectorIsBytes, VarUintIsBytes, Joined DEF BeforeBlockNonce

\* digest[i] is the state of the digest after i bytes.
DigestUpTo(digest, bytes, n) ==
  digest = [i \in 0 .. n |->
              IF i = 0 THEN 1 ELSE (digest[i - 1] * 3 + bytes[i]) % Power[2]]

\* A digest is bytes, by induction over the bytes it digests.
LEMMA DigestIsBytes ==
  ASSUME NEW bytes \in ByteString
  PROVE  Sha256(bytes) \in ByteString
<1> DEFINE n == Len(bytes)
           chosen == CHOOSE digest : DigestUpTo(digest, bytes, n)
           mixed(i, v) == (v * 3 + bytes[i]) % Power[2]
           step == [i \in Nat |-> [v \in Nat |-> IF i \in 1 .. n THEN mixed(i, v) ELSE v]]
<1>1. n \in Nat /\ \A i \in 1 .. n : bytes[i] \in Nat
  <2>1. Byte \in Nat
    BY PowBufferAssumption
  <2> QED BY <2>1 DEF ByteString
<1>2. ASSUME NEW i \in 1 .. n, NEW v \in Nat PROVE mixed(i, v) \in Nat
  <2>1. v * 3 + bytes[i] \in Nat
    BY <1>1
  <2>2. Power[2] \in Nat /\ Power[2] > 0
    BY Weights
  <2> HIDE DEF n
  <2> QED BY <2>1, <2>2, ByteRemains
<1>3. DigestUpTo(chosen, bytes, n) <=> chosen = [i \in 0 .. n |-> IF i = 0 THEN 1 ELSE mixed(i, chosen[i - 1])]
  BY DEF DigestUpTo
<1> HIDE DEF mixed, n
<1>4. step \in [Nat -> [Nat -> Nat]]
  BY <1>2
<1>5. ASSUME NEW i \in 1 .. n, NEW v \in Nat PROVE step[i][v] = mixed(i, v)
  <2>1. i \in Nat
    BY <1>1
  <2>2. step[i] = [w \in Nat |-> IF i \in 1 .. n THEN mixed(i, w) ELSE w]
    BY <2>1
  <2> QED BY <2>2
<1> HIDE DEF step
<1>6. PICK f : Recurs(f, Nat, 1, step, n)
  <2>1. 1 \in Nat
    OBVIOUS
  <2> QED BY <1>1, <1>4, <2>1, BoundedRecursion
<1>7. ASSUME NEW i \in 0 .. n
      PROVE  f[i] = IF i = 0 THEN 1 ELSE mixed(i, f[i - 1])
  <2>1. CASE i = 0
    BY <1>6, <2>1 DEF Recurs
  <2>2. CASE i # 0
    <3>1. i \in 1 .. n /\ f[i - 1] \in Nat
      BY <1>1, <1>6, <2>2 DEF Recurs
    <3> QED BY <1>5, <1>6, <2>2, <3>1 DEF Recurs
  <2> QED BY <2>1, <2>2
<1>8. DigestUpTo(f, bytes, n)
  <2>1. f = [i \in 0 .. n |-> f[i]]
    BY <1>6 DEF Recurs
  <2>2. f = [i \in 0 .. n |-> IF i = 0 THEN 1 ELSE mixed(i, f[i - 1])]
    BY <1>7, <2>1
  <2> QED BY <2>2 DEF DigestUpTo, mixed
<1>9. Sha256(bytes) = LittleEndian(chosen[n], 2)
  BY DEF Sha256, DigestUpTo, n
<1>10. chosen = [i \in 0 .. n |-> IF i = 0 THEN 1 ELSE mixed(i, chosen[i - 1])]
  <2>1. DigestUpTo(chosen, bytes, n)
    BY <1>8
  <2> QED BY <1>3, <2>1
<1> HIDE DEF chosen
<1>11. chosen[n] \in Nat
  <2> DEFINE T == {i \in Nat : i \in 0 .. n => chosen[i] \in Nat}
  <2>1. 0 \in T
    BY <1>1, <1>10
  <2>2. ASSUME NEW i \in Nat, i \in T PROVE i + 1 \in T
    <3> SUFFICES ASSUME i + 1 \in 0 .. n PROVE chosen[i + 1] \in Nat
      OBVIOUS
    <3>1. chosen[i] \in Nat /\ i + 1 \in 1 .. n
      BY <1>1, <2>2
    <3>2. chosen[i + 1] = mixed(i + 1, chosen[(i + 1) - 1])
      BY <1>1, <1>10
    <3>3. (i + 1) - 1 = i
      OBVIOUS
    <3> QED BY <1>2, <3>1, <3>2, <3>3
  <2> HIDE DEF T
  <2>3. n \in T
    BY <1>1, <2>1, <2>2, NatInductionOnSets
  <2> QED BY <1>1, <2>3 DEF T
<1> QED BY <1>9, <1>11, LittleEndianIsBytes

LEMMA InputDigestIsBytes ==
  ASSUME NEW tx \in Transaction
  PROVE  InputDigest(tx) \in ByteString
BY TransactionIsBytes, Joined, DigestIsBytes DEF InputDigest

\* The buffer before and after the nonce.
Whole(front, value, back) == (front \o VarUint(value)) \o back

FrontOfTransaction(tx) == BeforeNonce([tx EXCEPT !.transaction_id = <<>>])
BackOfTransaction(tx) == VarUint(tx.timestamp)

FrontOfBlock(b) ==
  BeforeBlockNonce([b EXCEPT
    !.transactions = [i \in DOMAIN b.transactions |->
                        [b.transactions[i] EXCEPT !.inputs = <<>>, !.outputs = <<>>]]])
BackOfBlock(b) ==
  EncodeBlockMeta([b.meta EXCEPT !.hash = <<>>])
    \o (IF b.timestamp > Migration
        THEN FlattenSeq([i \in DOMAIN b.transactions |-> InputDigest(b.transactions[i])])
        ELSE <<>>)

Before == IF mined.kind = "transaction" THEN FrontOfTransaction(mined.of) ELSE FrontOfBlock(mined.of)
After == IF mined.kind = "transaction" THEN BackOfTransaction(mined.of) ELSE BackOfBlock(mined.of)

\* transaction_pow_buffer: nothing but the nonce's own bytes depends on the nonce,
\* and nothing on the id.
LEMMA TransactionParts ==
  ASSUME NEW tx \in Transaction, NEW optional, NEW value \in Nat
  PROVE  /\ FrontOfTransaction(tx) \in ByteString /\ BackOfTransaction(tx) \in ByteString
         /\ TransactionPowBuffer([tx EXCEPT !.transaction_id = optional, !.nonce = value])
              = [bytes        |-> Whole(FrontOfTransaction(tx), value, BackOfTransaction(tx)),
                 nonce_offset |-> Len(FrontOfTransaction(tx))]
<1> DEFINE bare == [tx EXCEPT !.transaction_id = <<>>]
           sent == [tx EXCEPT !.transaction_id = optional, !.nonce = value]
           normalized == [sent EXCEPT !.transaction_id = <<>>]
<1>1. <<>> \in Option(ByteString)
  BY DEF Option
<1>2. /\ bare \in Transaction /\ tx.timestamp \in Nat
      /\ normalized.inputs = bare.inputs /\ normalized.outputs = bare.outputs
      /\ normalized.transaction_id = bare.transaction_id
      /\ normalized.nonce = value /\ normalized.timestamp = tx.timestamp
  BY <1>1 DEF Transaction
<1>3. TransactionPowBuffer(sent) = [bytes        |-> EncodeTransaction(normalized),
                                    nonce_offset |-> Len(BeforeNonce(normalized))]
  BY DEF TransactionPowBuffer
<1> HIDE DEF bare, sent, normalized
<1>4. BeforeNonce(normalized) = BeforeNonce(bare)
  BY <1>2 DEF BeforeNonce, EncodeTxInputs
<1>5. EncodeTransaction(normalized) = (BeforeNonce(bare) \o VarUint(value)) \o VarUint(tx.timestamp)
  BY <1>2, <1>4 DEF EncodeTransaction
<1>6. BeforeNonce(bare) \in ByteString /\ VarUint(tx.timestamp) \in ByteString
  BY <1>2, TransactionIsBytes, VarUintIsBytes
<1> QED BY <1>3, <1>4, <1>5, <1>6
        DEF bare, sent, Whole, FrontOfTransaction, BackOfTransaction

\* block_pow_buffer: the same for a block, whatever its hash.
LEMMA BlockParts ==
  ASSUME NEW b \in Block, NEW optional, NEW value \in Nat
  PROVE  /\ FrontOfBlock(b) \in ByteString /\ BackOfBlock(b) \in ByteString
         /\ BlockPowBuffer([b EXCEPT !.meta.hash = optional, !.nonce = value])
              = [bytes        |-> Whole(FrontOfBlock(b), value, BackOfBlock(b)),
                 nonce_offset |-> Len(FrontOfBlock(b))]
<1> DEFINE short(txs) == [i \in DOMAIN txs |-> [txs[i] EXCEPT !.inputs = <<>>, !.outputs = <<>>]]
           bare == [b EXCEPT !.transactions = short(b.transactions)]
           meta == [b.meta EXCEPT !.hash = <<>>]
           sent == [b EXCEPT !.meta.hash = optional, !.nonce = value]
           stripped == [sent EXCEPT !.meta.hash = <<>>, !.transactions = short(sent.transactions)]
           digests(txs) == FlattenSeq([i \in DOMAIN txs |-> InputDigest(txs[i])])
           Appendix(of) == IF of.timestamp > Migration THEN digests(of.transactions) ELSE <<>>
<1>1. /\ b.transactions \in Seq(Transaction) /\ b.timestamp \in Nat /\ b.meta \in BlockMeta
      /\ sent.transactions = b.transactions /\ sent.timestamp = b.timestamp
  BY DEF Block
<1>2. meta \in BlockMeta
  <2>1. <<>> \in Option(ByteString)
    BY DEF Option
  <2> QED BY <1>1, <2>1 DEF BlockMeta
<1>3. short(b.transactions) \in Seq(Transaction)
  <2>1. ASSUME NEW tx \in Transaction
        PROVE  [tx EXCEPT !.inputs = <<>>, !.outputs = <<>>] \in Transaction
    <3>1. <<>> \in Seq(TxInput) /\ <<>> \in Seq(TxOutput)
      OBVIOUS
    <3> QED BY <3>1 DEF Transaction
  <2>2. \A i \in DOMAIN b.transactions : b.transactions[i] \in Transaction
    BY <1>1
  <2> DEFINE Bare(tx) == [tx EXCEPT !.inputs = <<>>, !.outputs = <<>>]
  <2>3. \A tx \in Transaction : Bare(tx) \in Transaction
    BY <2>1
  <2> HIDE DEF Bare
  <2>4. [i \in DOMAIN b.transactions |-> Bare(b.transactions[i])] \in Seq(Transaction)
    BY <1>1, <2>2, <2>3
  <2> QED BY <2>4 DEF Bare
<1>4. /\ bare.transactions = short(b.transactions) /\ bare.timestamp = b.timestamp
  BY <1>1 DEF Block
<1>5. /\ stripped.transactions = bare.transactions /\ stripped.timestamp = bare.timestamp
      /\ stripped.nonce = value
  BY <1>1, <1>4 DEF Block
<1>6. stripped.meta = meta
  BY DEF Block, BlockMeta
<1>7. BlockPowBuffer(sent) = [bytes        |-> EncodeBlock(stripped) \o Appendix(sent),
                              nonce_offset |-> Len(BeforeBlockNonce(stripped))]
  BY DEF BlockPowBuffer
<1>8. digests(b.transactions) \in ByteString
  <2>1. [i \in DOMAIN b.transactions |-> InputDigest(b.transactions[i])] \in Seq(ByteString)
    BY <1>1, InputDigestIsBytes
  <2> HIDE DEF InputDigest
  <2> QED BY <2>1, Flattened DEF ByteString
<1>9. Appendix(sent) = Appendix(b) /\ Appendix(b) \in ByteString
  <2>1. <<>> \in ByteString
    BY DEF ByteString
  <2> HIDE DEF digests, sent
  <2> QED BY <1>1, <1>8, <2>1
<1>10. BeforeBlockNonce(bare) \in ByteString
  <2> HIDE DEF bare, short
  <2> QED BY <1>1, <1>3, <1>4, BeforeBlockNonceIsBytes
<1>11. EncodeBlockMeta(meta) \in ByteString
  BY <1>2, MetaIsBytes
<1>12. BeforeBlockNonce(stripped) = BeforeBlockNonce(bare)
  <2> HIDE DEF bare, stripped
  <2> QED BY <1>5 DEF BeforeBlockNonce
<1>13. EncodeBlock(stripped) = (BeforeBlockNonce(bare) \o VarUint(value)) \o EncodeBlockMeta(meta)
  <2> HIDE DEF bare, stripped, meta
  <2> QED BY <1>5, <1>6, <1>12 DEF EncodeBlock
<1> HIDE DEF bare, stripped, meta, sent, Appendix
<1>14. EncodeBlock(stripped) \o Appendix(b)
         = (BeforeBlockNonce(bare) \o VarUint(value)) \o (EncodeBlockMeta(meta) \o Appendix(b))
  <2>1. BeforeBlockNonce(bare) \o VarUint(value) \in ByteString
    BY <1>10, VarUintIsBytes, Joined
  <2> QED BY <1>9, <1>11, <1>13, <2>1, Regrouped
<1>15. EncodeBlockMeta(meta) \o Appendix(b) \in ByteString
  BY <1>9, <1>11, Joined
<1>16. FrontOfBlock(b) = BeforeBlockNonce(bare)
  BY DEF bare, FrontOfBlock
<1>17. BackOfBlock(b) = EncodeBlockMeta(meta) \o Appendix(b)
  BY DEF meta, Appendix, BackOfBlock
<1>18. BlockPowBuffer(sent)
         = [bytes        |-> Whole(BeforeBlockNonce(bare), value, EncodeBlockMeta(meta) \o Appendix(b)),
            nonce_offset |-> Len(BeforeBlockNonce(bare))]
  BY <1>7, <1>9, <1>12, <1>14 DEF Whole
<1> QED BY <1>10, <1>15, <1>16, <1>17, <1>18 DEF sent

\* Which byte of a buffer is where, and that a sequence is known by its bytes.
LEMMA BufferParts ==
  ASSUME NEW front \in ByteString, NEW wide \in ByteString, NEW back \in ByteString,
         Len(wide) = 9
  PROVE  LET buffer == (front \o wide) \o back
         IN  /\ buffer \in ByteString /\ Len(front) \in Nat /\ Len(back) \in Nat
             /\ Len(buffer) = Len(front) + 9 + Len(back)
             /\ \A i \in 1 .. Len(buffer) :
                  buffer[i] = IF i <= Len(front) THEN front[i]
                              ELSE IF i <= Len(front) + 9 THEN wide[i - Len(front)]
                              ELSE back[i - (Len(front) + 9)]
<1> DEFINE both == front \o wide
<1>1. /\ both \in ByteString /\ Len(both) = Len(front) + 9
      /\ \A i \in 1 .. Len(front) + 9 :
           both[i] = IF i <= Len(front) THEN front[i] ELSE wide[i - Len(front)]
  <2>1. /\ Len(front \o wide) = Len(front) + Len(wide)
        /\ \A i \in 1 .. Len(front) + Len(wide) :
             (front \o wide)[i] = IF i <= Len(front) THEN front[i] ELSE wide[i - Len(front)]
    BY JoinedAt, Zenon
  <2>2. front \o wide \in ByteString
    BY Joined
  <2> HIDE DEF both
  <2> QED BY <2>1, <2>2 DEF both
<1>2. Len(front) \in Nat /\ Len(back) \in Nat
  BY JoinedAt
<1> HIDE DEF both
<1>3. /\ both \o back \in ByteString /\ Len(both \o back) = Len(both) + Len(back)
      /\ \A i \in 1 .. Len(both) + Len(back) :
           (both \o back)[i] = IF i <= Len(both) THEN both[i] ELSE back[i - Len(both)]
  BY <1>1, Joined, JoinedAt
<1>4. ASSUME NEW i \in 1 .. Len(both) + Len(back)
      PROVE  (both \o back)[i] = IF i <= Len(front) THEN front[i]
                                 ELSE IF i <= Len(front) + 9 THEN wide[i - Len(front)]
                                 ELSE back[i - (Len(front) + 9)]
  <2>1. CASE i <= Len(both)
    <3>1. i \in 1 .. Len(front) + 9
      BY <1>1, <1>2, <2>1
    <3> QED BY <1>1, <1>2, <1>3, <2>1, <3>1
  <2>2. CASE ~(i <= Len(both))
    BY <1>1, <1>2, <1>3, <2>2
  <2> QED BY <2>1, <2>2
<1> QED BY <1>1, <1>2, <1>3, <1>4 DEF both

LEMMA SameBytes ==
  ASSUME NEW s \in ByteString, NEW length \in Nat, Len(s) = length,
         NEW t, t = [i \in 1 .. length |-> t[i]],
         \A i \in 1 .. length : t[i] = s[i]
  PROVE  t = s
<1>1. s = [i \in 1 .. length |-> s[i]]
  BY DEF ByteString
<1> QED BY <1>1

\* Written over one nonce that takes 9 bytes, by either function, the other
\* gives the buffer that is encoded with it.
LEMMA NonceOverwritten ==
  ASSUME NEW front \in ByteString, NEW back \in ByteString,
         NEW old \in Nat, NEW new \in Nat, old >= TemplateNonce, new >= TemplateNonce
  PROVE  /\ Whole(front, new, back) \in ByteString
         /\ [i \in DOMAIN Whole(front, old, back) |->
               IF i - (Len(front) + 1) \in 1 .. 8
               THEN LittleEndian(new, 8)[i - (Len(front) + 1)] ELSE Whole(front, old, back)[i]]
              = Whole(front, new, back)
         /\ PatchNonceInPowBuffer(Whole(front, old, back), Len(front), new)
              = Whole(front, new, back)
<1> DEFINE buffer(n) == (front \o VarUint(n)) \o back
           offset == Len(front)
           length == offset + 9 + Len(back)
           Part(n, i) == IF i <= offset THEN front[i]
                         ELSE IF i <= offset + 9 THEN VarUint(n)[i - offset]
                         ELSE back[i - (offset + 9)]
<1>1. ASSUME NEW n \in Nat, n >= TemplateNonce
      PROVE  /\ buffer(n) \in ByteString /\ Len(buffer(n)) = length
             /\ \A i \in 1 .. length : buffer(n)[i] = Part(n, i)
  <2>1. VarUint(n) \in ByteString /\ Len(VarUint(n)) = 9
    BY <1>1, WideVarUint
  <2> DEFINE wide == VarUint(n)
  <2> HIDE DEF wide
  <2>2. /\ (front \o wide) \o back \in ByteString
        /\ Len((front \o wide) \o back) = length
        /\ \A i \in 1 .. length :
             ((front \o wide) \o back)[i] = IF i <= offset THEN front[i]
                                           ELSE IF i <= offset + 9 THEN wide[i - offset]
                                           ELSE back[i - (offset + 9)]
    <3>1. wide \in ByteString /\ Len(wide) = 9
      BY <2>1 DEF wide
    <3> DEFINE whole == (front \o wide) \o back
    <3>2. /\ whole \in ByteString /\ Len(whole) = Len(front) + 9 + Len(back)
          /\ \A i \in 1 .. Len(whole) :
               whole[i] = IF i <= Len(front) THEN front[i]
                          ELSE IF i <= Len(front) + 9 THEN wide[i - Len(front)]
                          ELSE back[i - (Len(front) + 9)]
      BY <3>1, BufferParts, Zenon
    <3> HIDE DEF whole
    <3>3. Len(whole) = length
      BY <3>2
    <3> QED BY <3>2, <3>3 DEF whole
  <2> QED BY <2>2 DEF wide
<1>2. offset \in Nat /\ Len(back) \in Nat /\ length \in Nat
  BY DEF ByteString
<1>3. DOMAIN buffer(old) = 1 .. length
  <2>1. buffer(old) \in ByteString /\ Len(buffer(old)) = length
    BY <1>1
  <2> HIDE DEF buffer, length
  <2> QED BY <2>1 DEF ByteString
<1>4. /\ <<Follow8>> \o LittleEndian(new, 8) = VarUint(new)
      /\ VarUint(new)[1] = Follow8 /\ VarUint(old)[1] = Follow8
      /\ \A i \in 1 .. 8 : VarUint(new)[i + 1] = LittleEndian(new, 8)[i]
  BY WideVarUint
<1> DEFINE written == [i \in DOMAIN buffer(old) |->
                         IF i - (offset + 1) \in 1 .. 8
                         THEN LittleEndian(new, 8)[i - (offset + 1)] ELSE buffer(old)[i]]
           patched == [i \in DOMAIN buffer(old) |->
                         IF i - offset \in 1 .. 9 THEN VarUint(new)[i - offset]
                         ELSE buffer(old)[i]]
<1>5. written = buffer(new)
  <2>1. ASSUME NEW i \in 1 .. length PROVE written[i] = buffer(new)[i]
    <3>1. buffer(old)[i] = Part(old, i) /\ buffer(new)[i] = Part(new, i)
      BY <1>1
    <3>2. i \in DOMAIN buffer(old)
      BY <1>3
    <3> HIDE DEF buffer, length
    <3>3. CASE i - (offset + 1) \in 1 .. 8
      <4>1. written[i] = LittleEndian(new, 8)[i - (offset + 1)]
        BY <3>2, <3>3
      <4>2. Part(new, i) = VarUint(new)[i - offset] /\ i - offset = (i - (offset + 1)) + 1
        BY <1>2, <3>3
      <4> QED BY <1>4, <3>1, <3>3, <4>1, <4>2
    <3>4. CASE i - (offset + 1) \notin 1 .. 8
      <4>1. written[i] = Part(old, i)
        BY <3>1, <3>2, <3>4
      <4>2. CASE i = offset + 1
        <5>1. i - offset = 1 /\ ~(i <= offset) /\ i <= offset + 9
          BY <1>2, <4>2
        <5> QED BY <1>4, <3>1, <4>1, <5>1
      <4>3. CASE i # offset + 1
        <5>1. i <= offset \/ ~(i <= offset + 9)
          BY <1>2, <3>4, <4>3
        <5>2. i <= offset => i <= offset + 9
          BY <1>2
        <5> QED BY <3>1, <4>1, <5>1, <5>2
      <4> QED BY <4>2, <4>3
    <3> QED BY <3>3, <3>4
  <2>2. written = [i \in 1 .. length |-> written[i]]
    BY <1>3
  <2>3. buffer(new) \in ByteString /\ Len(buffer(new)) = length
    BY <1>1
  <2> HIDE DEF written, buffer, length
  <2> QED BY <1>2, <2>1, <2>2, <2>3, SameBytes
<1>6. patched = buffer(new)
  <2>1. ASSUME NEW i \in 1 .. length PROVE patched[i] = buffer(new)[i]
    <3>1. buffer(old)[i] = Part(old, i) /\ buffer(new)[i] = Part(new, i)
      BY <1>1
    <3>2. i \in DOMAIN buffer(old)
      BY <1>3
    <3> HIDE DEF buffer, length
    <3>3. CASE i - offset \in 1 .. 9
      <4>1. ~(i <= offset) /\ i <= offset + 9
        BY <1>2, <3>3
      <4> QED BY <3>1, <3>2, <3>3, <4>1
    <3>4. CASE i - offset \notin 1 .. 9
      <4>1. i <= offset \/ ~(i <= offset + 9)
        BY <1>2, <3>4
      <4>2. i <= offset => i <= offset + 9
        BY <1>2
      <4> QED BY <3>1, <3>2, <3>4, <4>1, <4>2
    <3> QED BY <3>3, <3>4
  <2>2. patched = [i \in 1 .. length |-> patched[i]]
    BY <1>3
  <2>3. buffer(new) \in ByteString /\ Len(buffer(new)) = length
    BY <1>1
  <2> HIDE DEF patched, buffer, length
  <2> QED BY <1>2, <2>1, <2>2, <2>3, SameBytes
<1>7. PatchNonceInPowBuffer(buffer(old), offset, new) = patched
  <2>1. Len(buffer(old)) = length
    BY <1>1
  <2>2. buffer(old)[offset + 1] = Follow8
    <3>1. offset + 1 \in 1 .. length /\ ~(offset + 1 <= offset) /\ offset + 1 <= offset + 9
          /\ (offset + 1) - offset = 1
      BY <1>2
    <3>2. buffer(old)[offset + 1] = Part(old, offset + 1)
      BY <1>1, <3>1
    <3> HIDE DEF buffer, length
    <3> QED BY <1>4, <3>1, <3>2
  <2>3. ~(offset >= length) /\ ~(offset + 9 > length)
    BY <1>2
  <2> HIDE DEF buffer, length
  <2> QED BY <1>4, <2>1, <2>2, <2>3 DEF PatchNonceInPowBuffer
<1>8. buffer(new) \in ByteString
  BY <1>1
<1> QED BY <1>5, <1>6, <1>7, <1>8 DEF Whole

\* The buffer is at all times what would be encoded with the nonce, for any id
\* or hash: its bytes before and after the nonce never change.
PowInv ==
  /\ PowTypeOK
  /\ nonce_offset = Len(Before)
  /\ local_buffer = Whole(Before, nonce, After)

\* What the constants give.
LEMMA WhatIsMined ==
  ASSUME mined \in Mined
  PROVE  \/ mined.kind = "transaction" /\ mined.of \in Transaction
         \/ mined.kind = "block" /\ mined.of \in Block
BY PowBufferAssumption DEF Mined

LEMMA TriedNonces ==
  /\ TemplateNonce \in Nat
  /\ \A n \in Nonces : n \in Nat /\ n >= TemplateNonce
BY PowBufferAssumption, Weights DEF TemplateNonce

\* A template, and what is encoded with the current nonce, have the same bytes
\* before and after the nonce.
LEMMA EncodedParts ==
  ASSUME mined \in Mined,
         nonce \in Nonces
  PROVE  /\ Before \in ByteString /\ After \in ByteString
         /\ Template.bytes = Whole(Before, TemplateNonce, After)
         /\ Template.nonce_offset = Len(Before)
         /\ \A optional : Encoded(optional) = Whole(Before, nonce, After)
<1>1. TemplateNonce \in Nat /\ nonce \in Nat
  BY TriedNonces
<1>2. CASE mined.kind = "transaction" /\ mined.of \in Transaction
  <2> DEFINE Buffer(optional, value) ==
               TransactionPowBuffer([mined.of EXCEPT !.transaction_id = optional, !.nonce = value])
  <2>1. /\ Before = FrontOfTransaction(mined.of) /\ After = BackOfTransaction(mined.of)
        /\ Template = Buffer(<<>>, TemplateNonce)
        /\ \A optional : Encoded(optional) = Buffer(optional, nonce).bytes
    BY <1>2 DEF Template, Encoded, Before, After
  <2>2. \A optional : \A value \in Nat :
          /\ FrontOfTransaction(mined.of) \in ByteString /\ BackOfTransaction(mined.of) \in ByteString
          /\ Buffer(optional, value)
               = [bytes        |-> Whole(FrontOfTransaction(mined.of), value, BackOfTransaction(mined.of)),
                  nonce_offset |-> Len(FrontOfTransaction(mined.of))]
    BY <1>2, TransactionParts, Zenon
  <2> HIDE DEF Buffer
  <2> QED BY <1>1, <2>1, <2>2
<1>3. CASE mined.kind = "block" /\ mined.of \in Block
  <2> DEFINE Buffer(optional, value) ==
               BlockPowBuffer([mined.of EXCEPT !.meta.hash = optional, !.nonce = value])
  <2>1. /\ Before = FrontOfBlock(mined.of) /\ After = BackOfBlock(mined.of)
        /\ Template = Buffer(<<>>, TemplateNonce)
        /\ \A optional : Encoded(optional) = Buffer(optional, nonce).bytes
    BY <1>3 DEF Template, Encoded, Before, After
  <2>2. \A optional : \A value \in Nat :
          /\ FrontOfBlock(mined.of) \in ByteString /\ BackOfBlock(mined.of) \in ByteString
          /\ Buffer(optional, value)
               = [bytes        |-> Whole(FrontOfBlock(mined.of), value, BackOfBlock(mined.of)),
                  nonce_offset |-> Len(FrontOfBlock(mined.of))]
    BY <1>3, BlockParts, Zenon
  <2> HIDE DEF Buffer
  <2> QED BY <1>1, <2>1, <2>2
<1> QED BY <1>2, <1>3, WhatIsMined

LEMMA PowInitInv == PowInit => PowInv
<1> SUFFICES ASSUME PowInit PROVE PowInv
  OBVIOUS
<1>1. /\ mined \in Mined
      /\ nonce \in Nonces /\ nonce_offset = Template.nonce_offset
      /\ local_buffer = PatchNonceInPowBuffer(Template.bytes, nonce_offset, nonce)
  BY DEF PowInit
<1>2. nonce \in Nat /\ nonce >= TemplateNonce /\ TemplateNonce \in Nat
      /\ TemplateNonce >= TemplateNonce
  BY <1>1, TriedNonces
<1>3. /\ Before \in ByteString /\ After \in ByteString
      /\ Template.bytes = Whole(Before, TemplateNonce, After)
      /\ nonce_offset = Len(Before)
  BY <1>1, EncodedParts
<1>4. local_buffer = Whole(Before, nonce, After)
  BY <1>1, <1>2, <1>3, NonceOverwritten
<1>5. nonce_offset \in Nat
  BY <1>3, JoinedAt
<1>6. local_buffer \in ByteString
  BY <1>2, <1>3, <1>4, NonceOverwritten
<1> QED BY <1>1, <1>3, <1>4, <1>5, <1>6 DEF PowInv, PowTypeOK

LEMMA PowStepInv == PowInv /\ [WriteNonce]_powVars => PowInv'
<1> SUFFICES ASSUME PowInv, [WriteNonce]_powVars PROVE PowInv'
  OBVIOUS
<1>1. CASE UNCHANGED powVars
  BY <1>1 DEF powVars, PowInv, PowTypeOK, Before, After, Mined
<1>2. CASE WriteNonce
  <2>1. /\ mined' = mined /\ nonce_offset' = nonce_offset /\ nonce' \in Nonces
        /\ local_buffer' = [i \in DOMAIN local_buffer |->
                              IF i - NoncePtr \in 1 .. 8
                              THEN LittleEndian(nonce', 8)[i - NoncePtr]
                              ELSE local_buffer[i]]
    BY <1>2 DEF WriteNonce
  <2>2. /\ PowTypeOK /\ nonce_offset = Len(Before) /\ NoncePtr = Len(Before) + 1
        /\ local_buffer = Whole(Before, nonce, After)
    BY DEF PowInv, NoncePtr
  <2>3. /\ nonce \in Nat /\ nonce >= TemplateNonce
        /\ nonce' \in Nat /\ nonce' >= TemplateNonce
    BY <2>1, <2>2, TriedNonces DEF PowTypeOK
  <2>4. Before \in ByteString /\ After \in ByteString
    BY <2>2, EncodedParts DEF PowTypeOK
  <2>5. Before' = Before /\ After' = After
    BY <2>1 DEF Before, After
  <2>6. local_buffer' = Whole(Before, nonce', After)
    <3>1. local_buffer' = [i \in DOMAIN Whole(Before, nonce, After) |->
                             IF i - (Len(Before) + 1) \in 1 .. 8
                             THEN LittleEndian(nonce', 8)[i - (Len(Before) + 1)]
                             ELSE Whole(Before, nonce, After)[i]]
      BY <2>1, <2>2, Zenon
    <3>2. [i \in DOMAIN Whole(Before, nonce, After) |->
             IF i - (Len(Before) + 1) \in 1 .. 8
             THEN LittleEndian(nonce', 8)[i - (Len(Before) + 1)]
             ELSE Whole(Before, nonce, After)[i]] = Whole(Before, nonce', After)
      BY <2>3, <2>4, NonceOverwritten, Zenon
    <3> QED BY <3>1, <3>2
  <2>7. local_buffer' \in ByteString
    BY <2>3, <2>4, <2>6, NonceOverwritten
  <2>8. PowTypeOK'
    BY <2>1, <2>2, <2>7 DEF PowTypeOK
  <2> QED BY <2>1, <2>2, <2>5, <2>6, <2>8 DEF PowInv
<1> QED BY <1>1, <1>2

\* The hash that is compared with the target is, for any transaction or block,
\* any order of nonces, and whatever id or hash is filled in afterwards, the one
\* the network computes: writing a nonce over another is as good as encoding again.
THEOREM HashAlwaysAsSent == PowSpec => []HashedAsSent
<1>1. PowInv => HashedAsSent
  <2> SUFFICES ASSUME PowInv, NEW filled_in \in Hashes PROVE Hashed = Encoded(<<filled_in>>)
    BY DEF HashedAsSent
  <2>1. \A optional : Encoded(optional) = local_buffer
    BY EncodedParts DEF PowInv, PowTypeOK
  <2> QED BY <2>1 DEF Hashed
<1> QED BY <1>1, PowInitInv, PowStepInv, PTL DEF PowSpec
==============================================================================

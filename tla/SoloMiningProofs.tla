--------------------------- MODULE SoloMiningProofs ---------------------------
(***************************************************************************)
(* Proofs about a round of solo mining: when its job is stale, and what    *)
(* its hashes are compared with.                                           *)
(*                                                                         *)
(* SoloMining: SoloInv is inductive, for a chain of any height: the        *)
(* watcher stays in its round, the count of events behind the chain, and   *)
(* by polling no job is given up without reason.                           *)
(*                                                                         *)
(* BlockTarget: the target of a job is exact, whatever the size of a byte  *)
(* and of a target.                                                        *)
(*                                                                         *)
(* Base36: keys, hashes and signatures are read back from their texts; a   *)
(* text means its number, or is refused, for arrays of any length and      *)
(* digits of any size.                                                     *)
(***************************************************************************)
EXTENDS SoloMining, BlockTarget, Base36, SequenceTheorems, WellFoundedInduction, TLAPS

\* A step of the main loop, the watcher, the event thread, the node or the user.
LEMMA SoloStep ==
  ASSUME SoloInv, [Next]_vars
  PROVE  SoloInv'
<1> USE SoloAssumption
<1> USE DEF SoloInv, TypeOK, Heights, MainPC, InRound, WatcherPC, WatcherInsideRound,
            CountsBlocks, NoFalseAlarm, RoundStartsClean, eventVars, roundVars, userVars
<1>1. CASE NewBlock
  BY <1>1 DEF NewBlock
<1>2. CASE LinkBreaks
  BY <1>2 DEF LinkBreaks
<1>3. CASE Connect
  BY <1>3 DEF Connect
<1>4. CASE Activate
  <2>1. active' \in BOOLEAN
    BY <1>4, Zenon DEF Activate
  <2> QED BY <1>4, <2>1 DEF Activate
<1>5. CASE ReceiveEvent
  BY <1>5 DEF ReceiveEvent
<1>6. CASE NoticeBreak
  <2>1. active' \in BOOLEAN
    BY <1>6, Zenon DEF NoticeBreak
  <2> QED BY <1>6, <2>1 DEF NoticeBreak
<1>7. CASE Leave
  BY <1>7 DEF Leave
<1>8. CASE FetchHeight
  BY <1>8 DEF FetchHeight
<1>9. CASE FinishBuilding
  <2>1. stale' \in BOOLEAN /\ stop_watcher' \in BOOLEAN /\ found' \in BOOLEAN
    BY <1>9, Zenon DEF FinishBuilding
  <2> QED BY <1>9, <2>1 DEF FinishBuilding
<1>10. CASE StartWatcher
  BY <1>10 DEF StartWatcher
<1>11. CASE MineNothing
  BY <1>11 DEF MineNothing
<1>12. CASE MineSolution
  <2>1. found' \in BOOLEAN
    BY <1>12, Zenon DEF MineSolution
  <2> QED BY <1>12, <2>1 DEF MineSolution
<1>13. CASE StopWatcher
  <2>1. stop_watcher' \in BOOLEAN
    BY <1>13, Zenon DEF StopWatcher
  <2> QED BY <1>13, <2>1 DEF StopWatcher
<1>14. CASE JoinWatcher
  BY <1>14 DEF JoinWatcher, WatcherJoined
<1>15. CASE Decide
  BY <1>15 DEF Decide
<1>16. CASE Submit
  BY <1>16 DEF Submit
<1>17. CASE WatcherHead
  BY <1>17 DEF WatcherHead, WatcherMustLeave
<1>18. CASE WatchEvents
  <2>1. stale' \in BOOLEAN
    BY <1>18, Zenon DEF WatchEvents, CountMoved
  <2> QED BY <1>18, <2>1 DEF WatchEvents, CountMoved
<1>19. CASE PollHeight
  <2>1. stale' \in BOOLEAN
    BY <1>19, Zenon DEF PollHeight, ChainGrew
  <2> QED BY <1>19, <2>1 DEF PollHeight, ChainGrew
<1>20. CASE PollFails
  BY <1>20 DEF PollFails
<1>21. CASE Stop
  <2>1. stop' \in BOOLEAN
    BY <1>21, Zenon DEF Stop
  <2> QED BY <1>21, <2>1 DEF Stop
<1>22. CASE PauseOrResume
  <2>1. paused' \in BOOLEAN
    BY <1>22, Zenon DEF PauseOrResume
  <2> QED BY <1>22, <2>1 DEF PauseOrResume
<1>23. CASE UNCHANGED vars
  BY <1>23 DEF vars
<1> QED
  BY <1>1, <1>2, <1>3, <1>4, <1>5, <1>6, <1>7, <1>8, <1>9, <1>10, <1>11,
     <1>12, <1>13, <1>14, <1>15, <1>16, <1>17, <1>18, <1>19, <1>20, <1>21, <1>22, <1>23
  DEF Next, MainSteps, WatcherSteps, EventSteps

\* The three threads of solo mining keep their invariant on every chain.
THEOREM SoloInvHolds == Spec => []SoloInv
<1>1. Init => SoloInv
  <2> SUFFICES ASSUME Init PROVE SoloInv OBVIOUS
  <2>1. /\ use_events \in BOOLEAN /\ stop \in BOOLEAN /\ paused \in BOOLEAN
        /\ active \in BOOLEAN /\ found \in BOOLEAN /\ stale \in BOOLEAN
        /\ stop_watcher \in BOOLEAN
    BY Zenon DEF Init
  <2> QED
    BY <2>1, SoloAssumption
    DEF Init, SoloInv, TypeOK, Heights, MainPC, InRound, WatcherPC, WatcherInsideRound,
        CountsBlocks, NoFalseAlarm, RoundStartsClean
<1> QED
  BY <1>1, SoloStep, PTL DEF Spec

\* By polling, a job is given up only when the chain has grown beyond it.
THEOREM NeverAFalseAlarm == Spec => []NoFalseAlarm
<1>1. SoloInv => NoFalseAlarm BY DEF SoloInv
<1> QED BY <1>1, SoloInvHolds, PTL

\* No watcher outlives the round whose locals it reads.
THEOREM WatcherNeverOutlives == Spec => []WatcherInsideRound
<1>1. SoloInv => WatcherInsideRound BY DEF SoloInv
<1> QED BY <1>1, SoloInvHolds, PTL
-----------------------------------------------------------------------------
\* Rules of arithmetic the provers do not find by themselves.
LEMMA Distributes ==
  ASSUME NEW a \in Int, NEW b \in Int, NEW c \in Int
  PROVE  (a + b) * c = a * c + b * c /\ c * (a + b) = c * a + c * b
OBVIOUS

LEMMA ProductOfNats ==
  ASSUME NEW a \in Nat, NEW b \in Nat
  PROVE  a * b \in Nat
OBVIOUS

LEMMA MonotoneProduct ==
  ASSUME NEW a \in Int, NEW b \in Int, NEW c \in Nat, a <= b
  PROVE  a * c <= b * c
OBVIOUS

LEMMA Regroup ==
  ASSUME NEW a \in Int, NEW b \in Int, NEW c \in Int
  PROVE  (a * b) * c = a * (b * c) /\ (a * b) * c = (a * c) * b
OBVIOUS

LEMMA DivisionSplits ==
  ASSUME NEW a \in Nat, NEW n \in Nat, n > 0
  PROVE  /\ a \div n \in Nat /\ a % n \in Nat /\ a % n < n
         /\ a = n * (a \div n) + (a % n)
OBVIOUS

LEMMA QuotientBelow ==
  ASSUME NEW a \in Nat, NEW n \in Nat, NEW m \in Nat, n > 0, a < n * m
  PROVE  a \div n < m
OBVIOUS

\* One byte of the first loop: the product of a byte and the multiplier is
\* split between the byte written and the carry.
LEMMA ByteMultiplied ==
  ASSUME NEW t \in Nat, NEW s \in Nat, NEW l \in Nat, NEW k \in Nat, NEW i \in Nat,
         NEW w \in Nat, NEW b \in Nat, NEW c \in Nat, NEW d \in Nat,
         t * s = l + k * w, i * s + k = b * c + d
  PROVE  (t + i * w) * s = (l + d * w) + c * (b * w)
<1>1. (i * s + k) * w = (b * c + d) * w
  OBVIOUS
<1>2. (i * s + k) * w = (i * w) * s + k * w
  OBVIOUS
<1>3. (b * c + d) * w = c * (b * w) + d * w
  OBVIOUS
<1>4. (t + i * w) * s = t * s + (i * w) * s
  OBVIOUS
<1> QED BY <1>1, <1>2, <1>3, <1>4

\* A byte more stays below the weight of the next place.
LEMMA StaysBelow ==
  ASSUME NEW l \in Nat, NEW w \in Nat, NEW b \in Nat, NEW d \in Nat, l < w, d < b
  PROVE  l + d * w < b * w
<1>1. (d + 1) * w <= b * w
  BY MonotoneProduct
<1>2. (d + 1) * w = d * w + w
  OBVIOUS
<1> QED BY <1>1, <1>2

\* One byte of the second loop: the dividend moves from what is to come to what
\* was divided, and is split between the quotient and the remainder.
LEMMA ByteMoved ==
  ASSUME NEW h \in Nat, NEW b \in Nat, NEW w \in Nat, NEW l \in Nat, NEW m \in Nat
  PROVE  h * (b * w) + (l + m * w) = (h * b + m) * w + l
<1>1. h * (b * w) = (h * b) * w
  OBVIOUS
<1>2. (h * b + m) * w = (h * b) * w + m * w
  OBVIOUS
<1> QED BY <1>1, <1>2

LEMMA ByteDivided ==
  ASSUME NEW h \in Nat, NEW f \in Nat, NEW n \in Nat, NEW r \in Nat, NEW b \in Nat,
         NEW m \in Nat, NEW q \in Nat, NEW x \in Nat,
         h = f * n + r, r * b + m = n * q + x
  PROVE  h * b + m = (f * b + q) * n + x
<1>1. h * b = (f * n) * b + r * b
  OBVIOUS
<1>2. (f * b + q) * n = (f * n) * b + n * q
  OBVIOUS
<1> QED BY <1>1, <1>2

(***************************************************************************)
(* The target of a block (BlockTarget).                                    *)
(***************************************************************************)
LEMMA TargetInitInv == TargetInit => TargetInv
<1> SUFFICES ASSUME TargetInit PROVE TargetInv
  OBVIOUS
<1> USE TargetAssumption, WeightAssumption DEF TargetInit, Places, Bytes
<1>1. TargetTypeOK
  BY DEF TargetTypeOK
<1>2. Multiplying
  BY DEF Multiplying
<1>3. Written
  BY DEF Written
<1>4. Dividing /\ NotYetDividing
  BY DEF Dividing, NotYetDividing
<1> QED BY <1>1, <1>2, <1>3, <1>4 DEF TargetInv

\* The first loop keeps the account: what a byte yields is split between the
\* byte written and the carry, and neither loses anything.
LEMMA MultiplyByteInv == TargetInv /\ MultiplyByte => TargetInv'
<1> SUFFICES ASSUME TargetInv, MultiplyByte PROVE TargetInv'
  OBVIOUS
<1> DEFINE d == Product % Base
           c == Product \div Base
           i == input[place]
           w == Weight[place]
<1>1. /\ place \in Places /\ i \in Nat /\ w \in Nat /\ scale \in Nat /\ carry \in Nat
      /\ low[place] \in Nat /\ total \in Nat /\ Size \in Nat /\ place + 1 \in 0 .. Size
      /\ Base \in Nat /\ Base > 0 /\ Weight[place + 1] = Base * w
  BY TargetAssumption, WeightAssumption
     DEF TargetInv, TargetTypeOK, MultiplyByte, Places, Bytes
<1>2. Product = i * scale + carry /\ Product \in Nat
  <2>1. i * scale \in Nat
    BY <1>1, ProductOfNats
  <2> QED BY <2>1, <1>1 DEF Product
<1>3. d \in Nat /\ d < Base /\ c \in Nat /\ i * scale + carry = Base * c + d
  <2>1. d \in Nat /\ d < Base /\ c \in Nat /\ Product = Base * c + d
    BY ONLY <1>1, <1>2, DivisionSplits
  <2> QED BY ONLY <2>1, <1>2
<1>4. /\ place' = place + 1 /\ carry' = c /\ total' = total + i * w
      /\ phase = "multiply" /\ UNCHANGED <<phase, input, scale, remainder, quotient, high>>
      /\ multiplied' = [multiplied EXCEPT ![place] = d]
      /\ low' = [low EXCEPT ![place + 1] = low[place] + d * w]
  BY DEF MultiplyByte
<1> HIDE DEF c, d, i, w
<1>5. d * w \in Nat /\ i * w \in Nat
  BY <1>1, <1>3, ProductOfNats
<1>6. /\ multiplied \in [Places -> Bytes] /\ low \in [0 .. Size -> Nat]
      /\ place # place + 1 /\ d \in Bytes
  <2>1. place # place + 1
    BY <1>1 DEF Places
  <2>2. d \in Bytes
    BY <1>1, <1>3 DEF Bytes
  <2> QED BY <2>1, <2>2 DEF TargetInv, TargetTypeOK
<1>7. /\ low'[place + 1] = low[place] + d * w
      /\ \A p \in 0 .. Size : p # place + 1 => low'[p] = low[p]
      /\ multiplied'[place] = d
      /\ \A p \in Places : p # place => multiplied'[p] = multiplied[p]
  BY <1>1, <1>4, <1>6 DEF Places
<1>8. TargetTypeOK'
  <2> DEFINE n == low[place] + d * w
  <2>1. n \in Nat /\ total + i * w \in Nat
    BY <1>1, <1>5
  <2>2. low' = [low EXCEPT ![place + 1] = n]
    BY <1>4
  <2> HIDE DEF n
  <2>3. low' \in [0 .. Size -> Nat]
    BY <2>1, <2>2, <1>1, <1>6
  <2>4. multiplied' \in [Places -> Bytes]
    BY <1>4, <1>6, <1>1
  <2>5. total' \in Nat /\ place' \in 0 .. Size /\ carry' \in Nat
    BY <1>1, <1>3, <1>4, <2>1
  <2> QED BY <2>3, <2>4, <2>5, <1>4 DEF TargetInv, TargetTypeOK
<1>9. Multiplying'
  <2>1. total * scale = low[place] + carry * w
    BY <1>4 DEF TargetInv, Multiplying, w
  <2>2. (total + i * w) * scale = (low[place] + d * w) + c * (Base * w)
    BY <2>1, <1>1, <1>3, ByteMultiplied
  <2>3. total' * scale' = low'[place'] + carry' * Weight[place']
    BY <2>2, <1>1, <1>4, <1>7
  <2> QED BY <2>3, <1>4 DEF Multiplying
<1>10. Written'
  <2>1. low'[0] = 0
    BY <1>1, <1>7 DEF TargetInv, Written, Places
  <2>2. ASSUME NEW p \in Places, p < place + 1
        PROVE  low'[p + 1] = low'[p] + multiplied'[p] * Weight[p]
    <3>1. CASE p = place
      <4>1. low'[p] = low[place] /\ low'[p + 1] = low[place] + d * w
        BY <3>1, <1>1, <1>7 DEF Places
      <4>2. multiplied'[p] = d /\ Weight[p] = w
        BY <3>1, <1>7 DEF w
      <4> QED BY <4>1, <4>2
    <3>2. CASE p # place
      <4>1. p \in 0 .. Size /\ p + 1 \in 0 .. Size /\ p + 1 # place + 1 /\ p # place + 1
        BY <3>2, <2>2, <1>1 DEF Places
      <4>2. low'[p + 1] = low[p + 1] /\ low'[p] = low[p] /\ multiplied'[p] = multiplied[p]
        BY <4>1, <3>2, <1>7
      <4>3. p < place
        BY <3>2, <2>2, <1>1 DEF Places
      <4>4. low[p + 1] = low[p] + multiplied[p] * Weight[p]
        BY <4>3, <1>4 DEF TargetInv, Written
      <4> QED BY <4>2, <4>4
    <3> QED BY <3>1, <3>2
  <2>3. low'[place + 1] < Weight[place + 1]
    <3>1. low[place] < w
      BY <1>1, <1>4 DEF TargetInv, Written, Places, w
    <3>2. low[place] + d * w < Base * w
      BY <3>1, <1>1, <1>3, StaysBelow
    <3> QED BY <3>2, <1>1, <1>7
  <2>4. ASSUME NEW p \in 0 .. Size, p <= place + 1
        PROVE  low'[p] < Weight[p]
    <3>1. CASE p = place + 1
      BY <3>1, <2>3
    <3>2. CASE p # place + 1
      <4>1. p <= place
        BY <3>2, <2>4, <1>1 DEF Places
      <4> QED BY <4>1, <3>2, <1>4, <1>7 DEF TargetInv, Written
    <3> QED BY <3>1, <3>2
  <2> QED BY <2>1, <2>2, <2>4, <1>4 DEF Written
<1>11. Dividing' /\ NotYetDividing'
  BY <1>4 DEF TargetInv, Dividing, NotYetDividing
<1> QED BY <1>8, <1>9, <1>10, <1>11 DEF TargetInv

\* Between the loops: a carry of 0 leaves the product as it was written.
LEMMA BetweenLoopsInv == TargetInv /\ (Saturate \/ StartDividing) => TargetInv'
<1> USE TargetAssumption, WeightAssumption
<1>1. ASSUME TargetInv, Saturate PROVE TargetInv'
  <2>1. /\ phase = "multiply" /\ phase' = "saturated" /\ place = Size /\ carry > 0
        /\ UNCHANGED <<input, scale, place, carry, multiplied, remainder, quotient>>
        /\ UNCHANGED <<total, low, high>>
    BY <1>1 DEF Saturate, loopVars, accountVars
  <2>2. TargetTypeOK' /\ Multiplying'
    BY <1>1, <2>1 DEF TargetInv, TargetTypeOK, Multiplying
  <2>3. Written'
    BY <1>1, <2>1 DEF TargetInv, Written
  <2>4. Dividing' /\ NotYetDividing'
    BY <2>1 DEF Dividing, NotYetDividing
  <2> QED BY <2>2, <2>3, <2>4 DEF TargetInv
<1>2. ASSUME TargetInv, StartDividing PROVE TargetInv'
  <2>1. /\ phase = "multiply" /\ phase' = "divide" /\ place = Size /\ carry = 0
        /\ UNCHANGED <<input, scale, place, carry, multiplied, remainder, quotient>>
        /\ UNCHANGED <<total, low, high>>
    BY <1>2 DEF StartDividing, loopVars, accountVars
  <2>2. /\ low[Size] \in Nat /\ Weight[Size] \in Nat /\ total * scale = low[Size]
        /\ high = 0 /\ quotient = 0 /\ remainder = 0
    BY <1>2, <2>1 DEF TargetInv, TargetTypeOK, Multiplying, NotYetDividing
  <2>3. TargetTypeOK' /\ Multiplying' /\ NotYetDividing'
    BY <1>2, <2>1 DEF TargetInv, TargetTypeOK, Multiplying, NotYetDividing
  <2>4. Written'
    BY <1>2, <2>1 DEF TargetInv, Written
  <2>5. Dividing'
    BY <2>1, <2>2 DEF Dividing
  <2> QED BY <2>3, <2>4, <2>5 DEF TargetInv
<1> QED BY <1>1, <1>2

\* The second loop: the remainder is below the divisor, so that each quotient
\* fits into a byte, and the cast to one changes nothing.
LEMMA DivideByteInv == TargetInv /\ DivideByte => TargetInv'
<1> SUFFICES ASSUME TargetInv, DivideByte PROVE TargetInv'
  OBVIOUS
<1> DEFINE p == place - 1
           m == multiplied[p]
           w == Weight[p]
           q == Dividend \div Divide
           x == Dividend % Divide
<1>1. /\ p \in Places /\ p + 1 = place /\ m \in Nat /\ m < Base /\ w \in Nat
      /\ remainder \in Nat /\ remainder < Divide /\ quotient \in Nat /\ high \in Nat
      /\ low[p] \in Nat /\ Base \in Nat /\ Divide \in Nat /\ Divide > 0
      /\ Weight[p + 1] = Base * w /\ p \in 0 .. Size /\ Size \in Nat
  <2>1. /\ p \in Places /\ p + 1 = place /\ p \in 0 .. Size
        /\ Base \in Nat /\ Divide \in Nat /\ Divide > 0 /\ Size \in Nat
    BY TargetAssumption DEF TargetInv, TargetTypeOK, DivideByte, Places
  <2>2. w \in Nat /\ Weight[p + 1] = Base * w
    BY <2>1, WeightAssumption
  <2>3. m \in Nat /\ m < Base /\ low[p] \in Nat
    BY <2>1 DEF TargetInv, TargetTypeOK, Bytes
  <2>4. remainder \in Nat /\ remainder < Divide /\ quotient \in Nat /\ high \in Nat
    BY <2>1 DEF TargetInv, TargetTypeOK
  <2> QED BY <2>1, <2>2, <2>3, <2>4
<1>2. /\ phase = "divide" /\ place' = p /\ high' = high * Base + m
      /\ quotient' = quotient * Base + (q % Base) /\ remainder' = x
      /\ UNCHANGED <<phase, input, scale, carry, multiplied, total, low>>
  BY DEF DivideByte
<1>3. Dividend = remainder * Base + m /\ Dividend \in Nat
  <2>1. remainder * Base \in Nat
    BY <1>1, ProductOfNats
  <2> QED BY <2>1, <1>1 DEF Dividend
<1>4. q \in Nat /\ x \in Nat /\ x < Divide /\ remainder * Base + m = Divide * q + x
  <2>1. q \in Nat /\ x \in Nat /\ x < Divide /\ Dividend = Divide * q + x
    BY ONLY <1>1, <1>3, DivisionSplits
  <2> QED BY ONLY <2>1, <1>3
<1>5. q < Base
  <2>1. m + remainder * Base < Divide * Base
    BY <1>1, StaysBelow
  <2>2. Dividend < Divide * Base
    BY <2>1, <1>1, <1>3, ProductOfNats
  <2> QED BY <2>2, <1>1, <1>3, QuotientBelow
<1> HIDE DEF p, m, w, q, x
<1>6. q % Base = q
  BY <1>1, <1>4, <1>5
<1>7. high * Base + m \in Nat /\ quotient * Base + q \in Nat
  <2>1. high * Base \in Nat /\ quotient * Base \in Nat
    BY <1>1, ProductOfNats
  <2> QED BY <2>1, <1>1, <1>4
<1>8. TargetTypeOK'
  <2>1. /\ high' \in Nat /\ quotient' \in Nat /\ place' \in 0 .. Size
        /\ remainder' \in 0 .. Divide - 1
    BY <1>1, <1>2, <1>4, <1>6, <1>7
  <2> QED BY <2>1, <1>2 DEF TargetInv, TargetTypeOK
<1>9. Multiplying' /\ NotYetDividing'
  BY <1>2 DEF Multiplying, NotYetDividing
<1>10. Written'
  BY <1>2 DEF TargetInv, Written
<1>11. Dividing'
  <2>1. /\ total * scale = low[Size] /\ low[Size] = high * Weight[place] + low[place]
        /\ high = quotient * Divide + remainder
    BY <1>2 DEF TargetInv, Dividing
  <2>2. Weight[place] = Base * w /\ low[place] = low[p] + m * w
    <3>1. p < Size
      BY <1>1 DEF Places
    <3>2. low[p + 1] = low[p] + multiplied[p] * Weight[p]
      BY <3>1, <1>1, <1>2 DEF TargetInv, Written
    <3> QED BY <3>2, <1>1 DEF m, w
  <2>3. low[Size] = high' * w + low[p]
    BY <2>1, <2>2, <1>1, <1>2, ByteMoved
  <2>4. high' = (quotient * Base + q) * Divide + x
    BY <2>1, <1>1, <1>2, <1>4, ByteDivided
  <2>5. /\ low'[Size] = high' * Weight[place'] + low'[place']
        /\ high' = quotient' * Divide + remainder'
    BY <2>3, <2>4, <1>2, <1>6 DEF w
  <2> QED BY <2>1, <2>5, <1>2 DEF Dividing
<1> QED BY <1>8, <1>9, <1>10, <1>11 DEF TargetInv

LEMMA FinishInv == TargetInv /\ Finish => TargetInv'
<1> SUFFICES ASSUME TargetInv, Finish PROVE TargetInv'
  OBVIOUS
<1>1. /\ phase = "divide" /\ phase' = "done" /\ place = 0
      /\ UNCHANGED <<input, scale, place, carry, multiplied, remainder, quotient>>
      /\ UNCHANGED <<total, low, high>>
  BY DEF Finish, loopVars, accountVars
<1>2. TargetTypeOK' /\ Multiplying' /\ NotYetDividing'
  BY <1>1 DEF TargetInv, TargetTypeOK, Multiplying, NotYetDividing
<1>3. Written'
  BY <1>1 DEF TargetInv, Written
<1>4. Dividing'
  BY <1>1 DEF TargetInv, Dividing
<1> QED BY <1>2, <1>3, <1>4 DEF TargetInv

LEMMA TargetStutterInv == TargetInv /\ UNCHANGED targetVars => TargetInv'
<1> SUFFICES ASSUME TargetInv, UNCHANGED targetVars PROVE TargetInv'
  OBVIOUS
<1>1. /\ UNCHANGED <<phase, input, scale, place, carry, multiplied, remainder, quotient>>
      /\ UNCHANGED <<total, low, high>>
  BY DEF targetVars, loopVars, accountVars
<1>2. TargetTypeOK' /\ Multiplying' /\ NotYetDividing'
  BY <1>1 DEF TargetInv, TargetTypeOK, Multiplying, NotYetDividing
<1>3. Written' /\ Dividing'
  BY <1>1 DEF TargetInv, Written, Dividing
<1> QED BY <1>2, <1>3 DEF TargetInv

\* The two loops keep their account with bytes of any size, targets of any
\* length, and any multiplier and divisor.
THEOREM TargetInvHolds == TargetSpec => []TargetInv
<1>1. TargetInv /\ [TargetNext]_targetVars => TargetInv'
  BY MultiplyByteInv, BetweenLoopsInv, DivideByteInv, FinishInv, TargetStutterInv
     DEF TargetNext
<1> QED BY <1>1, TargetInitInv, PTL DEF TargetSpec

\* A block's target is the node's target, multiplied and divided exactly, or
\* everything meets it because the product does not fit.
THEOREM TargetAlwaysExact == TargetSpec => []TargetIsExact
<1>1. TargetInv => TargetIsExact
  <2> SUFFICES ASSUME TargetInv PROVE TargetIsExact
    OBVIOUS
  <2> USE TargetAssumption, WeightAssumption
  <2>1. /\ low[Size] \in Nat /\ Weight[Size] \in Nat /\ Size \in Nat
        /\ quotient \in Nat /\ remainder \in 0 .. Divide - 1 /\ high \in Nat
        /\ carry \in Nat
    BY DEF TargetInv, TargetTypeOK
  <2>2. ASSUME phase = "done"
        PROVE  /\ quotient * Divide <= total * scale
               /\ total * scale < (quotient + 1) * Divide
               /\ total * scale < Weight[Size]
    <3>1. total * scale = high * Weight[0] + low[0] /\ low[0] = 0
      BY <2>2 DEF TargetInv, Dividing, Written
    <3>2. total * scale = quotient * Divide + remainder
      BY <3>1, <2>1, <2>2 DEF TargetInv, Dividing
    <3>3. (quotient + 1) * Divide = quotient * Divide + 1 * Divide
      BY <2>1, Distributes
    <3>4. low[Size] < Weight[Size] /\ total * scale = low[Size]
      BY <2>1, <2>2 DEF TargetInv, Written, Dividing
    <3>5. quotient * Divide \in Nat
      BY <2>1, ProductOfNats
    <3> QED BY <3>2, <3>3, <3>4, <3>5, <2>1
  <2>3. ASSUME phase = "saturated"
        PROVE  total * scale >= Weight[Size]
    <3>1. total * scale = low[Size] + carry * Weight[Size] /\ carry > 0
      BY <2>3 DEF TargetInv, Multiplying
    <3>2. 1 * Weight[Size] <= carry * Weight[Size]
      BY <3>1, <2>1, MonotoneProduct
    <3>3. carry * Weight[Size] \in Nat
      BY <2>1, ProductOfNats
    <3> QED BY <3>1, <3>2, <3>3, <2>1
  <2> QED BY <2>2, <2>3 DEF TargetIsExact
<1> QED BY <1>1, TargetInvHolds, PTL
-----------------------------------------------------------------------------
(***************************************************************************)
(* Base36.  Induction over the natural numbers, over things with a rank    *)
(* and over sequences, each for a set of them; and the functions that the  *)
(* recursive definitions of Base36 define do exist.                        *)
(***************************************************************************)
\* A set with 0, and with n + 1 for each n in it, has all natural numbers.
LEMMA NatInductionOnSets ==
  ASSUME NEW T, 0 \in T, \A n \in Nat : n \in T => n + 1 \in T
  PROVE  Nat \subseteq T
<1> DEFINE U == Nat \ T
           R == {p \in Nat \X Nat : p[1] < p[2]}
<1> SUFFICES ASSUME U # {} PROVE FALSE  OBVIOUS
<1>1. IsWellFoundedOn(R, Nat)  BY NatLessThanWellFounded DEF OpToRel
<1>2. \E x \in U : \A y \in U : <<y, x>> \notin R
  <2> U \subseteq Nat OBVIOUS
  <2> HIDE DEF R, U
  <2> QED BY <1>1, WFMin
<1>3. PICK x \in U : \A y \in U : ~(y < x)
  <2>1. \A y, x \in U : y < x => <<y, x>> \in R OBVIOUS
  <2> QED BY <1>2, <2>1
<1>4. x # 0 /\ x - 1 \in Nat /\ (x - 1) + 1 = x OBVIOUS
<1>5. x - 1 \notin U BY <1>3, <1>4
<1> QED BY <1>4, <1>5

\* In a set of things with a rank, if it has any, one has no other below it.
LEMMA LeastRank ==
  ASSUME NEW D, NEW rank \in [D -> Nat], NEW U \in SUBSET D, U # {}
  PROVE  \E x \in U : \A y \in U : ~(rank[y] < rank[x])
<1> DEFINE T == {n \in Nat : \A x \in U : rank[x] <= n => \E m \in U : \A y \in U : ~(rank[y] < rank[m])}
<1>1. 0 \in T
  OBVIOUS
<1>2. ASSUME NEW n \in Nat, n \in T PROVE n + 1 \in T
  <2> SUFFICES ASSUME NEW x \in U, rank[x] <= n + 1
               PROVE  \E m \in U : \A y \in U : ~(rank[y] < rank[m])
    OBVIOUS
  <2>1. CASE \E y \in U : rank[y] <= n
    BY <1>2, <2>1
  <2>2. CASE \A y \in U : ~(rank[y] <= n)
    <3>1. \A y \in U : ~(rank[y] < rank[x])
      BY <2>2
    <3> QED BY <3>1
  <2> QED BY <2>1, <2>2
<1>3. Nat \subseteq T
  <2> HIDE DEF T
  <2> QED BY <1>1, <1>2, NatInductionOnSets
<1>4. PICK x \in U : TRUE
  OBVIOUS
<1>5. rank[x] \in T /\ rank[x] \in Nat
  <2> HIDE DEF T
  <2> QED BY <1>3
<1> QED BY <1>4, <1>5

\* f obeys the recursion at the things whose rank is below n: on those of base
\* it is given, at another x it follows from its value at next[x].
Obeys(f, D, base, next, first, step, rank, n) ==
  \A x \in D : rank[x] < n =>
    f[x] = IF x \in base THEN first[x] ELSE step[x][f[next[x]]]

\* f obeys it for things of any rank.
Follows(f, D, V, base, next, first, step) ==
  /\ f \in [D -> V]
  /\ \A x \in D : f[x] = IF x \in base THEN first[x] ELSE step[x][f[next[x]]]

\* A recursion that goes down in rank has a function that follows it.
LEMMA RankedRecursion ==
  ASSUME NEW D, NEW V, NEW base \in SUBSET D, NEW next \in [D -> D], NEW rank \in [D -> Nat],
         \A x \in D \ base : rank[next[x]] < rank[x],
         NEW first \in [D -> V], NEW step \in [D -> [V -> V]]
  PROVE  \E f : Follows(f, D, V, base, next, first, step)
<1> DEFINE Fits(f, n) == f \in [D -> V] /\ Obeys(f, D, base, next, first, step, rank, n)
           T == {n \in Nat : \E f : Fits(f, n)}
<1>1. 0 \in T
  <2>1. Fits(first, 0)
    BY DEF Obeys
  <2> QED BY <2>1
<1>2. ASSUME NEW n \in Nat, n \in T PROVE n + 1 \in T
  <2>1. PICK f : Fits(f, n)
    BY <1>2
  <2> DEFINE g == [x \in D |-> IF x \in base THEN first[x] ELSE step[x][f[next[x]]]]
  <2>2. g \in [D -> V]
    BY <2>1
  <2>3. ASSUME NEW x \in D, rank[x] < n PROVE g[x] = f[x]
    BY <2>1, <2>3 DEF Obeys
  <2>4. ASSUME NEW x \in D, rank[x] < n + 1, x \notin base
        PROVE  g[x] = step[x][g[next[x]]]
    <3>1. rank[next[x]] < n /\ next[x] \in D
      BY <2>4
    <3>2. g[next[x]] = f[next[x]]
      <4> HIDE DEF g
      <4> QED BY <2>3, <3>1
    <3>3. g[x] = step[x][f[next[x]]]
      BY <2>4
    <3> QED BY <3>2, <3>3
  <2>5. \A x \in base : g[x] = first[x]
    OBVIOUS
  <2>6. Fits(g, n + 1)
    <3> HIDE DEF g
    <3> QED BY <2>2, <2>4, <2>5 DEF Obeys
  <2> HIDE DEF Fits, g
  <2> QED BY <2>6
<1>3. \A n \in Nat : \E f : Fits(f, n)
  <2>1. Nat \subseteq T
    <3> HIDE DEF T
    <3> QED BY <1>1, <1>2, NatInductionOnSets
  <2> QED BY <2>1
\* Two that obey it up to some rank are equal up to there.
<1>4. ASSUME NEW f, NEW g, NEW n \in Nat, NEW m \in Nat, Fits(f, n), Fits(g, m),
             NEW z \in D, rank[z] < n, rank[z] < m
      PROVE  f[z] = g[z]
  <2> DEFINE U == {x \in D : rank[x] < n /\ rank[x] < m /\ f[x] # g[x]}
  <2> SUFFICES ASSUME U # {} PROVE FALSE
    BY <1>4
  <2>1. PICK x \in U : \A y \in U : ~(rank[y] < rank[x])
    <3>1. U \in SUBSET D
      OBVIOUS
    <3> HIDE DEF U
    <3> QED BY <3>1, LeastRank
  <2>2. CASE x \in base
    BY <1>4, <2>1, <2>2 DEF Obeys
  <2>3. CASE x \notin base
    <3>1. next[x] \in D /\ rank[next[x]] < rank[x]
      BY <2>1, <2>3
    <3>2. f[next[x]] = g[next[x]]
      BY <2>1, <3>1
    <3>3. f[x] = step[x][f[next[x]]] /\ g[x] = step[x][g[next[x]]]
      BY <1>4, <2>1, <2>3 DEF Obeys
    <3> QED BY <2>1, <3>2, <3>3
  <2> QED BY <2>2, <2>3
<1> DEFINE h == [n \in Nat |-> CHOOSE f : Fits(f, n)]
           F == [x \in D |-> h[rank[x] + 1][x]]
<1>5. \A n \in Nat : Fits(h[n], n)
  <2> SUFFICES ASSUME NEW n \in Nat PROVE Fits(h[n], n)
    OBVIOUS
  <2> HIDE DEF Fits
  <2> QED BY <1>3
<1>6. ASSUME NEW x \in D, NEW n \in Nat, rank[x] < n PROVE F[x] = h[n][x]
  <2>1. rank[x] + 1 \in Nat /\ rank[x] < rank[x] + 1
    OBVIOUS
  <2>2. Fits(h[rank[x] + 1], rank[x] + 1) /\ Fits(h[n], n)
    <3> HIDE DEF Fits, h
    <3> QED BY <1>5, <2>1
  <2>3. F[x] = h[rank[x] + 1][x]
    <3> HIDE DEF h
    <3> QED OBVIOUS
  <2> HIDE DEF Fits, h, F
  <2> QED BY <1>4, <1>6, <2>1, <2>2, <2>3
<1>7. F \in [D -> V]
  <2> SUFFICES ASSUME NEW x \in D PROVE h[rank[x] + 1][x] \in V
    <3> HIDE DEF h
    <3> QED OBVIOUS
  <2>1. Fits(h[rank[x] + 1], rank[x] + 1)
    <3> HIDE DEF Fits, h
    <3> QED BY <1>5
  <2> HIDE DEF h
  <2> QED BY <2>1
<1>8. ASSUME NEW x \in D
      PROVE  F[x] = IF x \in base THEN first[x] ELSE step[x][F[next[x]]]
  <2> DEFINE n == rank[x] + 1
  <2>1. n \in Nat /\ rank[x] < n
    OBVIOUS
  <2>2. Fits(h[n], n)
    <3> HIDE DEF Fits, h, n
    <3> QED BY <1>5, <2>1
  <2>3. F[x] = h[n][x]
    <3> HIDE DEF Fits, h, n, F
    <3> QED BY <1>6, <2>1
  <2>4. h[n][x] = IF x \in base THEN first[x] ELSE step[x][h[n][next[x]]]
    <3> HIDE DEF h
    <3> QED BY <2>1, <2>2 DEF Obeys
  <2>5. CASE x \in base
    <3> HIDE DEF h, n, F
    <3> QED BY <2>3, <2>4, <2>5
  <2>6. CASE x \notin base
    <3>1. next[x] \in D /\ rank[next[x]] < n
      BY <2>6
    <3>2. F[next[x]] = h[n][next[x]]
      <4> HIDE DEF Fits, h, n, F
      <4> QED BY <1>6, <2>1, <3>1
    <3> HIDE DEF h, n, F
    <3> QED BY <2>3, <2>4, <2>6, <3>2
  <2> QED BY <2>5, <2>6
<1>9. Follows(F, D, V, base, next, first, step)
  <2> HIDE DEF F, Fits
  <2> QED BY <1>7, <1>8 DEF Follows
<1> QED BY <1>9

\* The last element, and what is before it.
LEMMA FrontAndLast ==
  ASSUME NEW S, NEW s \in Seq(S), s # << >>
  PROVE  /\ Front(s) \in Seq(S) /\ Last(s) \in S /\ s = Append(Front(s), Last(s))
         /\ Len(Front(s)) = Len(s) - 1 /\ Len(s) > 0
<1>1. PICK t \in Seq(S), e \in S : s = Append(t, e)
  BY SequenceEmptyOrAppend
<1>2. Len(s) = Len(t) + 1 /\ Len(t) \in Nat /\ Last(s) = e
  BY <1>1 DEF Last
<1>3. Front(s) = t
  BY <1>1, <1>2, SeqEqual, SubSeqProperties DEF Front
<1> QED BY <1>1, <1>2, <1>3

\* An element appended is the last one.
LEMMA OfAppended ==
  ASSUME NEW S, NEW s \in Seq(S), NEW e \in S
  PROVE  /\ Append(s, e) \in Seq(S) /\ Append(s, e) # << >>
         /\ Front(Append(s, e)) = s /\ Last(Append(s, e)) = e
         /\ Len(Append(s, e)) = Len(s) + 1 /\ Len(s) \in Nat
<1>1. /\ Append(s, e) \in Seq(S) /\ Append(s, e) # << >>
      /\ Len(Append(s, e)) = Len(s) + 1 /\ Len(s) \in Nat /\ Last(Append(s, e)) = e
  BY DEF Last
<1>2. Front(Append(s, e)) = s
  <2>1. \A i \in 1 .. Len(s) : Append(s, e)[i] = s[i]
    OBVIOUS
  <2> QED BY <1>1, <2>1, SeqEqual, SubSeqProperties DEF Front
<1> QED BY <1>1, <1>2

\* Induction over sequences, for a set of them.
LEMMA SeqInductionOnSets ==
  ASSUME NEW S, NEW T, << >> \in T, \A s \in Seq(S), e \in S : s \in T => Append(s, e) \in T
  PROVE  Seq(S) \subseteq T
<1> DEFINE N == {n \in Nat : \A s \in Seq(S) : Len(s) = n => s \in T}
<1>1. 0 \in N
  BY EmptySeq
<1>2. ASSUME NEW n \in Nat, n \in N PROVE n + 1 \in N
  <2> SUFFICES ASSUME NEW s \in Seq(S), Len(s) = n + 1 PROVE s \in T
    OBVIOUS
  <2>1. s # << >>
    OBVIOUS
  <2>2. /\ Front(s) \in Seq(S) /\ Last(s) \in S /\ s = Append(Front(s), Last(s))
        /\ Len(Front(s)) = n
    BY <2>1, FrontAndLast
  <2>3. Front(s) \in T
    BY <1>2, <2>2
  <2> QED BY <2>2, <2>3
<1>3. Nat \subseteq N
  <2> HIDE DEF N
  <2> QED BY <1>1, <1>2, NatInductionOnSets
<1> QED BY <1>3

\* f goes along a sequence: from the value of what is before an element.
GoesAlong(f, S, V, first, step) ==
  /\ f \in [Seq(S) -> V]
  /\ \A s \in Seq(S) : f[s] = IF s = << >> THEN first ELSE step[Last(s)][f[Front(s)]]

\* There is a function that does.
LEMMA SeqRecursion ==
  ASSUME NEW S, NEW V, NEW first \in V, NEW step \in [S -> [V -> V]]
  PROVE  \E f : GoesAlong(f, S, V, first, step)
<1> DEFINE D == Seq(S)
           base == {<< >>}
           next == [s \in D |-> IF s = << >> THEN << >> ELSE Front(s)]
           rank == [s \in D |-> Len(s)]
           start == [s \in D |-> first]
           same == [v \in V |-> v]
           go == [s \in D |-> IF s = << >> THEN same ELSE step[Last(s)]]
<1>1. base \in SUBSET D
  BY EmptySeq
<1>2. next \in [D -> D]
  BY FrontAndLast, EmptySeq
<1>3. start \in [D -> V]
  OBVIOUS
<1>4. rank \in [D -> Nat]
  OBVIOUS
<1>5. \A s \in D \ base : rank[next[s]] < rank[s]
  <2> SUFFICES ASSUME NEW s \in Seq(S), s # << >> PROVE Len(Front(s)) < Len(s)
    BY FrontAndLast
  <2>1. Len(Front(s)) = Len(s) - 1 /\ Len(s) \in Nat
    BY FrontAndLast, LenProperties
  <2> QED BY <2>1
<1>6. go \in [D -> [V -> V]]
  BY FrontAndLast
<1>7. PICK f : Follows(f, D, V, base, next, start, go)
  <2> HIDE DEF D, base, next, rank, start, go
  <2> QED BY <1>1, <1>2, <1>3, <1>4, <1>5, <1>6, RankedRecursion, Zenon
<1>8. f \in [Seq(S) -> V]
  BY <1>7 DEF Follows
<1>9. ASSUME NEW s \in Seq(S) PROVE f[s] = IF s = << >> THEN first ELSE step[Last(s)][f[Front(s)]]
  <2>1. f[s] = IF s \in base THEN start[s] ELSE go[s][f[next[s]]]
    <3> HIDE DEF base, next, start, go
    <3> QED BY <1>7 DEF Follows
  <2> QED BY <2>1
<1> QED BY <1>8, <1>9 DEF GoesAlong

\* The number of digits, from the number of the ones before the last.
LEMMA NumberByDigits ==
  ASSUME NEW b \in Nat
  PROVE  /\ Number(<< >>, b) = 0
         /\ \A s \in Seq(Nat) : Number(s, b) \in Nat
         /\ \A s \in Seq(Nat), d \in Nat : Number(Append(s, d), b) = Number(s, b) * b + d
<1> DEFINE Unfolds(g) ==
             g = [s \in Seq(Nat) |-> IF s = << >> THEN 0 ELSE g[Front(s)] * b + Last(s)]
           value == CHOOSE g : Unfolds(g)
           step == [d \in Nat |-> [n \in Nat |-> n * b + d]]
<1>1. \A s : Number(s, b) = value[s]
  BY DEF Number
<1>2. Unfolds(value)
  <2>1. step \in [Nat -> [Nat -> Nat]]
    OBVIOUS
  <2>2. PICK f : GoesAlong(f, Nat, Nat, 0, step)
    <3> HIDE DEF step
    <3> QED BY <2>1, SeqRecursion, Zenon
  <2>3. ASSUME NEW s \in Seq(Nat)
        PROVE  f[s] = IF s = << >> THEN 0 ELSE f[Front(s)] * b + Last(s)
    <3>1. CASE s # << >>
      <4>1. Front(s) \in Seq(Nat) /\ Last(s) \in Nat
        BY <3>1, FrontAndLast
      <4>2. f[Front(s)] \in Nat /\ f[s] = step[Last(s)][f[Front(s)]]
        <5> HIDE DEF step
        <5> QED BY <2>2, <3>1, <4>1 DEF GoesAlong
      <4> QED BY <3>1, <4>1, <4>2
    <3> QED BY <2>2, <3>1 DEF GoesAlong
  <2>4. Unfolds(f)
    BY <2>2, <2>3 DEF GoesAlong
  <2> HIDE DEF Unfolds
  <2> QED BY <2>4
<1>3. value[<< >>] = 0
  <2> HIDE DEF value
  <2> QED BY <1>2, EmptySeq
<1>4. ASSUME NEW s \in Seq(Nat), NEW d \in Nat
      PROVE  value[Append(s, d)] = value[s] * b + d
  <2>1. /\ Append(s, d) \in Seq(Nat) /\ Append(s, d) # << >>
        /\ Front(Append(s, d)) = s /\ Last(Append(s, d)) = d
    BY OfAppended
  <2> DEFINE t == Append(s, d)
  <2> HIDE DEF value, t
  <2>2. value[t] = value[Front(t)] * b + Last(t)
    BY <1>2, <2>1 DEF t
  <2> QED BY <2>1, <2>2 DEF t
<1> DEFINE T == {s \in Seq(Nat) : value[s] \in Nat}
<1>5. Seq(Nat) \subseteq T
  <2> HIDE DEF value
  <2>1. << >> \in T
    BY <1>3, EmptySeq
  <2>2. ASSUME NEW s \in Seq(Nat), NEW d \in Nat, s \in T PROVE Append(s, d) \in T
    <3>1. value[s] * b + d \in Nat
      <4>1. \A n \in Nat : n * b + d \in Nat
        OBVIOUS
      <4> QED BY <2>2, <4>1
    <3>2. Append(s, d) \in Seq(Nat)
      BY OfAppended
    <3>3. value[Append(s, d)] = value[s] * b + d
      BY <1>4
    <3> QED BY <3>1, <3>2, <3>3
  <2> HIDE DEF T
  <2> QED BY <2>1, <2>2, SeqInductionOnSets, Zenon
<1> HIDE DEF value
<1> QED BY <1>1, <1>3, <1>4, <1>5

\* Numbers are divided in one way.
LEMMA OneDivision ==
  ASSUME NEW b \in Nat, NEW n \in Nat, NEW m \in Nat, NEW d \in 0 .. b - 1, NEW e \in 0 .. b - 1,
         n * b + d = m * b + e
  PROVE  n = m /\ d = e
<1>1. ASSUME NEW x \in Nat, NEW y \in Nat, x < y PROVE x * b + b <= y * b
  <2>1. (x + 1) * b <= y * b
    BY <1>1
  <2>2. (x + 1) * b = x * b + b
    OBVIOUS
  <2> QED BY <2>1, <2>2
<1>2. n * b \in Nat /\ m * b \in Nat
  OBVIOUS
<1>3. ~(n < m)
  <2> SUFFICES ASSUME n < m PROVE FALSE
    OBVIOUS
  <2>1. n * b + b <= m * b
    BY <1>1
  <2> QED BY <1>2, <2>1
<1>4. ~(m < n)
  <2> SUFFICES ASSUME m < n PROVE FALSE
    OBVIOUS
  <2>1. m * b + b <= n * b
    BY <1>1
  <2> QED BY <1>2, <2>1
<1> QED BY <1>3, <1>4

\* No zeros in front, none in front of what is before the last digit.
LEMMA StrippedFront ==
  ASSUME NEW S, NEW s \in Seq(S), NEW e \in S, Append(s, e) \in Stripped(S)
  PROVE  s \in Stripped(S)
<1>1. s # << >> => Append(s, e)[1] = s[1]
  BY LenProperties, AppendProperties
<1> QED BY <1>1, AppendProperties DEF Stripped

\* Only no digits at all, or zeros in front, stand for 0.
LEMMA StrippedPositive ==
  ASSUME NEW b \in Nat, b > 0, NEW s \in Stripped(Nat), s # << >>
  PROVE  Number(s, b) > 0
<1> DEFINE T == {v \in Seq(Nat) : v \in Stripped(Nat) /\ v # << >> => Number(v, b) > 0}
<1>1. << >> \in T
  BY EmptySeq
<1>2. ASSUME NEW v \in Seq(Nat), NEW d \in Nat, v \in T PROVE Append(v, d) \in T
  <2> SUFFICES ASSUME Append(v, d) \in Stripped(Nat) PROVE Number(Append(v, d), b) > 0
    BY AppendProperties
  <2>1. Number(Append(v, d), b) = Number(v, b) * b + d /\ Number(v, b) \in Nat
    BY NumberByDigits
  <2>2. CASE v = << >>
    <3>1. Append(v, d)[1] = d /\ Append(v, d) # << >>
      BY <2>2, AppendProperties
    <3>2. d > 0
      <4>1. Append(v, d)[1] # 0
        BY <3>1, Zenon DEF Stripped
      <4> QED BY <3>1, <4>1
    <3>3. Number(v, b) = 0
      BY <2>2, NumberByDigits
    <3> QED BY <2>1, <3>2, <3>3
  <2>3. CASE v # << >>
    <3>1. Number(v, b) > 0
      BY <1>2, <2>3, StrippedFront
    <3>2. \A n \in Nat : n > 0 => n * b + d > 0
      OBVIOUS
    <3> QED BY <2>1, <3>1, <3>2
  <2> QED BY <2>2, <2>3
<1>3. Seq(Nat) \subseteq T
  <2> HIDE DEF T
  <2> QED BY <1>1, <1>2, SeqInductionOnSets, Zenon
<1> QED BY <1>3 DEF Stripped

\* A number is written in one way, without zeros in front.
LEMMA OneWriting ==
  ASSUME NEW b \in Nat, b > 0, NEW s \in Stripped(0 .. b - 1), NEW t \in Stripped(0 .. b - 1),
         Number(s, b) = Number(t, b)
  PROVE  s = t
<1> DEFINE S == 0 .. b - 1
           T == {v \in Seq(S) : v \in Stripped(S) =>
                   \A u \in Stripped(S) : Number(v, b) = Number(u, b) => v = u}
<1>1. ASSUME NEW v \in Stripped(S) PROVE v \in Seq(S) /\ v \in Stripped(Nat) /\ v \in Seq(Nat)
  <2>1. v \in Seq(Nat)
    BY SeqMonotonic DEF Stripped
  <2> QED BY <2>1 DEF Stripped
<1>2. << >> \in T
  <2> SUFFICES ASSUME NEW u \in Stripped(S), Number(<< >>, b) = Number(u, b) PROVE << >> = u
    BY EmptySeq
  <2>1. Number(u, b) = 0
    BY NumberByDigits
  <2> QED BY <1>1, <2>1, StrippedPositive
<1>3. ASSUME NEW v \in Seq(S), NEW d \in S, v \in T PROVE Append(v, d) \in T
  <2> SUFFICES ASSUME Append(v, d) \in Stripped(S), NEW u \in Stripped(S),
                      Number(Append(v, d), b) = Number(u, b)
               PROVE  Append(v, d) = u
    BY AppendProperties
  <2>1. u # << >>
    <3>1. Append(v, d) \in Stripped(Nat) /\ Append(v, d) # << >>
      <4> HIDE DEF S
      <4> QED BY <1>1, AppendProperties
    <3>2. Number(Append(v, d), b) > 0
      BY <3>1, StrippedPositive
    <3>3. Number(<< >>, b) = 0
      BY NumberByDigits
    <3> QED BY <3>2, <3>3
  <2>2. PICK w \in Seq(S), e \in S : u = Append(w, e)
    BY <1>1, <2>1, SequenceEmptyOrAppend
  <2>3. v \in Stripped(S) /\ w \in Stripped(S)
    BY <2>2, StrippedFront
  <2>4. v \in Seq(Nat) /\ w \in Seq(Nat) /\ d \in Nat /\ e \in Nat
    BY <1>1, <2>3
  <2>5. /\ Number(Append(v, d), b) = Number(v, b) * b + d /\ Number(v, b) \in Nat
        /\ Number(Append(w, e), b) = Number(w, b) * b + e /\ Number(w, b) \in Nat
    BY <2>4, NumberByDigits
  <2>6. Number(v, b) = Number(w, b) /\ d = e
    <3>1. Number(Append(v, d), b) = Number(Append(w, e), b)
      BY <2>2, Zenon
    <3>2. Number(v, b) * b + d = Number(w, b) * b + e
      BY <2>5, <3>1
    <3> DEFINE n == Number(v, b)
               m == Number(w, b)
    <3>3. n \in Nat /\ m \in Nat /\ n * b + d = m * b + e
      BY <2>5, <3>2
    <3> HIDE DEF n, m
    <3>4. n = m /\ d = e
      BY <3>3, OneDivision
    <3> QED BY <3>4 DEF n, m
  <2>7. v = w
    BY <1>3, <2>3, <2>6
  <2> QED BY <2>2, <2>6, <2>7
<1>4. Seq(S) \subseteq T
  <2> HIDE DEF T, S
  <2> QED BY <1>2, <1>3, SeqInductionOnSets, Zenon
<1>5. s \in Seq(S)
  BY DEF Stripped
<1>6. s \in T
  BY <1>4, <1>5
<1> QED BY <1>6

\* How many zeros are erased.
LEMMA ZerosErased ==
  ASSUME NEW S, NEW v \in Seq(S)
  PROVE  \E z \in 0 .. Len(v) :
           /\ \A i \in 1 .. z : v[i] = 0
           /\ z < Len(v) => v[z + 1] # 0
           /\ WithoutLeadingZeros(v) = SubSeq(v, z + 1, Len(v))
<1> DEFINE D == 0 .. Len(v)
           Z == {n \in D : \A i \in 1 .. n : v[i] = 0}
           rank == [n \in D |-> Len(v) - n]
           z == Max(Z)
<1>1. Len(v) \in Nat
  OBVIOUS
<1>2. \E n \in Z : \A m \in Z : n >= m
  <2>1. 0 \in Z /\ Z \in SUBSET D
    BY <1>1
  <2>2. rank \in [D -> Nat]
    BY <1>1
  <2>3. PICK n \in Z : \A m \in Z : ~(rank[m] < rank[n])
    <3> HIDE DEF Z, rank, D
    <3> QED BY <2>1, <2>2, LeastRank
  <2>4. \A m \in Z : n >= m
    BY <1>1, <2>3
  <2> QED BY <2>4
<1>3. z \in Z /\ \A m \in Z : z >= m
  <2> HIDE DEF Z
  <2> QED BY <1>2 DEF Max
<1>4. WithoutLeadingZeros(v) = SubSeq(v, z + 1, Len(v))
  BY DEF WithoutLeadingZeros
<1> HIDE DEF z
<1>5. z < Len(v) => v[z + 1] # 0
  <2> SUFFICES ASSUME z < Len(v), v[z + 1] = 0 PROVE FALSE
    OBVIOUS
  <2>1. z + 1 \in Z
    BY <1>1, <1>3
  <2>2. z \in Nat
    BY <1>1, <1>3
  <2> QED BY <1>3, <2>1, <2>2
<1> QED BY <1>3, <1>4, <1>5

\* The zeros in front of a number count for nothing.
LEMMA NumberAfterZeros ==
  ASSUME NEW b \in Nat, NEW v \in Seq(Nat), NEW z \in 0 .. Len(v), \A i \in 1 .. z : v[i] = 0
  PROVE  Number(SubSeq(v, z + 1, Len(v)), b) = Number(v, b)
<1> DEFINE T == {s \in Seq(Nat) : \A n \in 0 .. Len(s) :
                   (\A i \in 1 .. n : s[i] = 0) =>
                     Number(SubSeq(s, n + 1, Len(s)), b) = Number(s, b)}
<1>1. << >> \in T
  <2> SUFFICES ASSUME NEW n \in 0 .. Len(<< >>)
               PROVE  SubSeq(<< >>, n + 1, Len(<< >>)) = << >>
    BY EmptySeq
  <2> QED BY EmptySeq, SubSeqEmpty
<1>2. ASSUME NEW s \in Seq(Nat), NEW d \in Nat, s \in T PROVE Append(s, d) \in T
  <2> DEFINE t == Append(s, d)
  <2>1. /\ t \in Seq(Nat) /\ Len(t) = Len(s) + 1 /\ Len(s) \in Nat /\ t[Len(s) + 1] = d
        /\ \A i \in 1 .. Len(s) : t[i] = s[i]
    BY AppendProperties
  <2>2. Number(t, b) = Number(s, b) * b + d
    BY NumberByDigits
  <2> HIDE DEF t
  <2> SUFFICES ASSUME NEW n \in 0 .. Len(t), \A i \in 1 .. n : t[i] = 0
               PROVE  Number(SubSeq(t, n + 1, Len(t)), b) = Number(t, b)
    BY <2>1 DEF t
  <2>3. CASE n <= Len(s)
    <3> DEFINE u == SubSeq(s, n + 1, Len(s))
    <3>1. n \in 0 .. Len(s) /\ \A i \in 1 .. n : s[i] = 0
      <4>1. n \in 0 .. Len(s)
        BY <2>1, <2>3
      <4>2. \A i \in 1 .. n : s[i] = t[i] /\ t[i] = 0
        BY <2>1, <4>1
      <4> QED BY <4>1, <4>2
    <3>2. Number(u, b) = Number(s, b)
      BY <1>2, <3>1
    <3>3. u \in Seq(Nat)
      BY <2>1, <3>1, SubSeqProperties
    <3>4. SubSeq(t, n + 1, Len(t)) = Append(u, d)
      <4> DEFINE w == SubSeq(t, n + 1, Len(t))
                 l == Len(s) - n
      <4>1. l \in Nat /\ Len(t) - (n + 1) + 1 = l + 1 /\ Len(s) - (n + 1) + 1 = l
        BY <2>1, <3>1
      <4>2. w \in Seq(Nat) /\ Len(w) = l + 1 /\ \A i \in 1 .. l + 1 : w[i] = t[(n + 1) + i - 1]
        <5>1. \A i \in n + 1 .. Len(t) : t[i] \in Nat
          BY <2>1, <3>1, ElementOfSeq
        <5> QED BY <2>1, <3>1, <4>1, <5>1, SubSeqProperties
      <4>3. Len(u) = l /\ \A i \in 1 .. l : u[i] = s[(n + 1) + i - 1]
        <5>1. \A i \in n + 1 .. Len(s) : s[i] \in Nat
          <6>1. \A i \in n + 1 .. Len(s) : i \in 1 .. Len(s)
            BY <2>1, <3>1
          <6>2. s \in [1 .. Len(s) -> Nat]
            BY LenProperties
          <6> QED BY <6>1, <6>2
        <5>2. n + 1 \in Int /\ Len(s) \in Int
          BY <2>1, <3>1
        <5>3. /\ Len(u) = (IF n + 1 <= Len(s) THEN Len(s) - (n + 1) + 1 ELSE 0)
              /\ \A i \in 1 .. Len(s) - (n + 1) + 1 : u[i] = s[(n + 1) + i - 1]
          BY <5>1, <5>2, SubSeqProperties
        <5> HIDE DEF u
        <5>4. \A k, m \in Nat : m <= k => k - m = IF m + 1 <= k THEN k - (m + 1) + 1 ELSE 0
          OBVIOUS
        <5>5. n \in Nat /\ Len(s) \in Nat /\ n <= Len(s)
          BY <2>1, <3>1
        <5>6. Len(u) = l
          BY <5>3, <5>4, <5>5, Zenon
        <5>7. \A i \in 1 .. l : u[i] = s[(n + 1) + i - 1]
          <6> HIDE DEF l
          <6> QED BY <4>1, <5>3, Zenon
        <5> QED BY <5>6, <5>7
      <4> HIDE DEF w, u
      <4>4. /\ Append(u, d) \in Seq(Nat) /\ Len(Append(u, d)) = l + 1
            /\ Append(u, d)[l + 1] = d /\ \A i \in 1 .. l : Append(u, d)[i] = u[i]
        BY <3>3, <4>3, AppendProperties
      <4>5. ASSUME NEW i \in 1 .. l + 1 PROVE w[i] = Append(u, d)[i]
        <5>1. CASE i = l + 1
          <6>1. (n + 1) + i - 1 = Len(s) + 1
            BY <2>1, <3>1, <5>1
          <6> QED BY <2>1, <4>2, <4>4, <5>1, <6>1
        <5>2. CASE i # l + 1
          <6>1. i \in 1 .. l /\ (n + 1) + i - 1 \in 1 .. Len(s)
            BY <2>1, <3>1, <4>1, <5>2
          <6> QED BY <2>1, <4>2, <4>3, <4>4, <6>1
        <5> QED BY <5>1, <5>2
      <4>6. w = Append(u, d)
        BY <4>1, <4>2, <4>4, <4>5, SeqEqual
      <4> QED BY <4>6 DEF w
    <3>5. Number(Append(u, d), b) = Number(u, b) * b + d
      BY <3>3, NumberByDigits
    <3> QED BY <2>2, <3>2, <3>4, <3>5
  <2>4. CASE n = Len(s) + 1
    <3>1. Len(s) \in 0 .. Len(s) /\ \A i \in 1 .. Len(s) : s[i] = 0
      BY <2>1, <2>4
    <3>2. d = 0
      <4>1. Len(s) + 1 \in 1 .. n
        BY <2>1, <2>4
      <4> QED BY <2>1, <4>1
    <3>3. SubSeq(s, Len(s) + 1, Len(s)) = << >> /\ SubSeq(t, n + 1, Len(t)) = << >>
      BY <2>1, <2>4, SubSeqEmpty
    <3>4. Number(<< >>, b) = 0
      BY NumberByDigits
    <3>5. Number(s, b) = 0
      <4>1. Number(SubSeq(s, Len(s) + 1, Len(s)), b) = Number(s, b)
        BY <1>2, <3>1
      <4> QED BY <3>3, <3>4, <4>1
    <3>6. Number(t, b) = 0
      BY <2>2, <3>2, <3>5
    <3> QED BY <3>3, <3>4, <3>6
  <2> QED BY <2>1, <2>3, <2>4
<1>3. Seq(Nat) \subseteq T
  <2> HIDE DEF T
  <2> QED BY <1>1, <1>2, SeqInductionOnSets, Zenon
<1> QED BY <1>3

\* The zeros in front are erased, and the number is the same.
LEMMA WithoutZeros ==
  ASSUME NEW b \in Nat, NEW S \in SUBSET Nat, NEW v \in Seq(S)
  PROVE  /\ WithoutLeadingZeros(v) \in Stripped(S)
         /\ Number(WithoutLeadingZeros(v), b) = Number(v, b)
         /\ Len(WithoutLeadingZeros(v)) <= Len(v)
<1>1. PICK z \in 0 .. Len(v) :
           /\ \A i \in 1 .. z : v[i] = 0
           /\ z < Len(v) => v[z + 1] # 0
           /\ WithoutLeadingZeros(v) = SubSeq(v, z + 1, Len(v))
  BY ZerosErased
<1>2. Len(v) \in Nat /\ v \in Seq(Nat)
  <2>1. \A n \in S : n \in Nat
    OBVIOUS
  <2> QED BY <2>1, LenProperties, SeqMonotonic
<1> DEFINE w == SubSeq(v, z + 1, Len(v))
<1>3. /\ w \in Seq(S) /\ Len(w) = (IF z + 1 <= Len(v) THEN Len(v) - (z + 1) + 1 ELSE 0)
      /\ \A i \in 1 .. Len(v) - (z + 1) + 1 : w[i] = v[z + 1 + i - 1]
  BY <1>2, SubSeqProperties
<1> HIDE DEF w
<1>4. Len(w) <= Len(v)
  BY <1>2, <1>3
<1>5. w # << >> => w[1] # 0
  <2> SUFFICES ASSUME w # << >> PROVE w[1] # 0
    OBVIOUS
  <2>1. Len(w) > 0
    BY <1>3, EmptySeq
  <2>2. z < Len(v)
    BY <1>2, <1>3, <2>1
  <2>3. w[1] = v[z + 1]
    BY <1>2, <1>3, <2>2
  <2> QED BY <1>1, <2>2, <2>3
<1>6. Number(w, b) = Number(v, b)
  BY <1>1, <1>2, NumberAfterZeros DEF w
<1> QED BY <1>1, <1>3, <1>4, <1>5, <1>6 DEF w, Stripped

\* Induction over things with a rank, for a set of them.
LEMMA RankInduction ==
  ASSUME NEW D, NEW rank \in [D -> Nat], NEW T,
         \A x \in D : (\A y \in D : rank[y] < rank[x] => y \in T) => x \in T
  PROVE  D \subseteq T
<1> DEFINE U == D \ T
<1> SUFFICES ASSUME U # {} PROVE FALSE
  OBVIOUS
<1>1. PICK x \in U : \A y \in U : ~(rank[y] < rank[x])
  <2>1. U \in SUBSET D
    OBVIOUS
  <2> HIDE DEF U
  <2> QED BY <2>1, LeastRank
<1> QED BY <1>1

\* A division leaves a remainder that is a digit.
LEMMA Divides ==
  ASSUME NEW a \in Nat, NEW n \in Nat, n > 0
  PROVE  /\ a \div n \in Nat /\ a % n \in 0 .. n - 1
         /\ a = n * (a \div n) + (a % n)
BY DivisionSplits

\* What is below n is not changed by cutting it to n.
LEMMA AlreadyFits == \A k, n \in Nat : k < n => k % n = k /\ k \in 0 .. n - 1
OBVIOUS

\* The order of factors does not matter.
LEMMA Commutes == \A i, j \in Nat : i * j = j * i
OBVIOUS

\* An accumulated digit is split between the digit that is kept and what is carried.
LEMMA DigitSplit ==
  ASSUME NEW n \in Nat, NEW r \in Nat, NEW b \in Nat, NEW d \in Nat, NEW c \in Nat,
         NEW k \in Nat, NEW x \in Nat, d * r + c = b * k + x
  PROVE  (n * r + k) * b + x = (n * b + d) * r + c
<1>1. (n * r + k) * b = (n * r) * b + k * b
  OBVIOUS
<1>2. (n * b + d) * r = (n * b) * r + d * r
  OBVIOUS
<1>3. (n * r) * b = (n * b) * r
  OBVIOUS
<1>4. k * b = b * k
  OBVIOUS
<1>5. (n * r) * b \in Nat /\ k * b \in Nat /\ d * r \in Nat
  OBVIOUS
<1> QED BY <1>1, <1>2, <1>3, <1>4, <1>5

\* What is carried out of the first byte is written as bytes.
LEMMA CarryByBytes ==
  CarryBytes = [c \in Nat |-> IF c = 0 THEN << >>
                              ELSE Append(CarryBytes[c \div Octet], c % Octet)]
<1> USE Base36Assumption DEF Octets
<1> DEFINE V == Seq(Octets)
           next == [c \in Nat |-> c \div Octet]
           rank == [c \in Nat |-> c]
           first == [c \in Nat |-> << >>]
           step == [c \in Nat |-> [s \in V |-> Append(s, c % Octet)]]
           Unfolds(g) == g = [c \in Nat |-> IF c = 0 THEN << >>
                                            ELSE Append(g[c \div Octet], c % Octet)]
<1>1. \A c \in Nat : c \div Octet \in Nat /\ c % Octet \in Octets
  BY Divides
<1>2. \A c \in Nat : c # 0 => c \div Octet < c
  OBVIOUS
<1>3. next \in [Nat -> Nat] /\ rank \in [Nat -> Nat]
  BY <1>1
<1>4. first \in [Nat -> V] /\ step \in [Nat -> [V -> V]]
  <2>1. << >> \in V
    BY EmptySeq
  <2>2. \A c \in Nat, s \in V : Append(s, c % Octet) \in V
    BY <1>1, AppendProperties
  <2> QED BY <2>1, <2>2
<1>5. \A c \in Nat \ {0} : rank[next[c]] < rank[c]
  BY <1>1, <1>2
<1>6. PICK f : Follows(f, Nat, V, {0}, next, first, step)
  <2>1. {0} \in SUBSET Nat
    OBVIOUS
  <2> HIDE DEF V, next, rank, first, step
  <2> QED BY <1>3, <1>4, <1>5, <2>1, RankedRecursion, Zenon
<1>7. f \in [Nat -> V] /\ \A c \in Nat : f[c] = IF c \in {0} THEN first[c] ELSE step[c][f[next[c]]]
  <2> HIDE DEF V, next, first, step
  <2> QED BY <1>6 DEF Follows
<1>8. \A c \in Nat : f[c] = IF c = 0 THEN << >> ELSE Append(f[c \div Octet], c % Octet)
  <2> SUFFICES ASSUME NEW c \in Nat
               PROVE  f[c] = IF c = 0 THEN << >> ELSE Append(f[c \div Octet], c % Octet)
    OBVIOUS
  <2>1. f[c \div Octet] \in V
    BY <1>1, <1>7
  <2>2. next[c] = c \div Octet /\ first[c] = << >>
    OBVIOUS
  <2>3. step[c][f[c \div Octet]] = Append(f[c \div Octet], c % Octet)
    BY <2>1
  <2> HIDE DEF V, next, first, step
  <2> QED BY <1>7, <2>2, <2>3
<1>9. Unfolds(f)
  BY <1>7, <1>8
<1>10. CarryBytes = CHOOSE g : Unfolds(g)
  BY DEF CarryBytes
<1> HIDE DEF Unfolds
<1>11. Unfolds(CarryBytes)
  BY <1>9, <1>10
<1> QED BY <1>11 DEF Unfolds

\* The bytes written for a carry stand for it.
LEMMA CarryIsWritten ==
  ASSUME NEW c \in Nat
  PROVE  CarryBytes[c] \in Seq(Octets) /\ Number(CarryBytes[c], Octet) = c
<1> USE Base36Assumption
<1> DEFINE T == {n \in Nat : CarryBytes[n] \in Seq(Octets) /\ Number(CarryBytes[n], Octet) = n}
           rank == [n \in Nat |-> n]
<1>1. ASSUME NEW n \in Nat, \A m \in Nat : rank[m] < rank[n] => m \in T PROVE n \in T
  <2>1. CASE n = 0
    <3>1. CarryBytes[n] = << >>
      BY <2>1, CarryByBytes
    <3> QED BY <2>1, <3>1, EmptySeq, NumberByDigits
  <2>2. CASE n # 0
    <3> DEFINE k == n \div Octet
               d == n % Octet
    <3>1. k \in Nat /\ d \in Octets /\ d \in Nat /\ n = Octet * k + d
      BY Divides DEF Octets
    <3>2. k < n
      BY <2>2
    <3>3. CarryBytes[n] = Append(CarryBytes[k], d)
      BY <2>2, CarryByBytes
    <3> HIDE DEF k, d
    <3>4. CarryBytes[k] \in Seq(Octets) /\ Number(CarryBytes[k], Octet) = k
      BY <1>1, <3>1, <3>2
    <3>5. CarryBytes[k] \in Seq(Nat)
      BY <3>4, SeqMonotonic DEF Octets
    <3>6. Number(CarryBytes[n], Octet) = k * Octet + d
      BY <3>1, <3>3, <3>4, <3>5, NumberByDigits
    <3>7. k * Octet = Octet * k
      BY <3>1, Commutes
    <3>8. Number(CarryBytes[n], Octet) = n
      BY <3>1, <3>6, <3>7
    <3>9. CarryBytes[n] \in Seq(Octets)
      BY <3>1, <3>3, <3>4, AppendProperties
    <3> QED BY <3>8, <3>9
  <2> QED BY <2>1, <2>2
<1>2. rank \in [Nat -> Nat] /\ \A n \in Nat : (\A m \in Nat : rank[m] < rank[n] => m \in T) => n \in T
  <2> HIDE DEF T
  <2> QED BY <1>1
<1>3. Nat \subseteq T
  <2> HIDE DEF T, rank
  <2> QED BY <1>2, RankInduction
<1> QED BY <1>3

\* One character is taken into the value, from the right.
LEMMA ExtendedByByte ==
  Extended = [v \in Seq(Octets) |->
                [c \in Nat |->
                   IF v = << >> THEN CarriedOver(c)
                   ELSE Append(Extended[Front(v)][(Last(v) * Radix + c) \div Octet],
                               (Last(v) * Radix + c) % Octet)]]
<1> USE Base36Assumption
<1> DEFINE V == [Nat -> Seq(Octets)]
           Acc(d, c) == d * Radix + c
           first == [c \in Nat |-> CarriedOver(c)]
           step == [d \in Octets |-> [h \in V |->
                      [c \in Nat |-> Append(h[Acc(d, c) \div Octet], Acc(d, c) % Octet)]]]
           Unfolds(g) ==
             g = [v \in Seq(Octets) |->
                    [c \in Nat |-> IF v = << >> THEN CarriedOver(c)
                                   ELSE Append(g[Front(v)][Acc(Last(v), c) \div Octet],
                                               Acc(Last(v), c) % Octet)]]
<1>1. \A d \in Octets, c \in Nat : Acc(d, c) \div Octet \in Nat /\ Acc(d, c) % Octet \in Octets
  <2> SUFFICES ASSUME NEW d \in Octets, NEW c \in Nat
               PROVE  Acc(d, c) \div Octet \in Nat /\ Acc(d, c) % Octet \in Octets
    OBVIOUS
  <2>1. Acc(d, c) \in Nat
    BY DEF Octets
  <2> HIDE DEF Acc
  <2> QED BY <2>1, Divides DEF Octets
<1> HIDE DEF Acc
<1>2. first \in V
  BY CarryIsWritten DEF CarriedOver
<1>3. step \in [Octets -> [V -> V]]
  <2>1. ASSUME NEW d \in Octets, NEW h \in V, NEW c \in Nat
        PROVE  Append(h[Acc(d, c) \div Octet], Acc(d, c) % Octet) \in Seq(Octets)
    BY <1>1, AppendProperties
  <2> QED BY <2>1
<1>4. PICK f : GoesAlong(f, Octets, V, first, step)
  <2> HIDE DEF V, first, step
  <2> QED BY <1>2, <1>3, SeqRecursion, Zenon
<1>5. f \in [Seq(Octets) -> V]
  BY <1>4 DEF GoesAlong
<1>6. ASSUME NEW v \in Seq(Octets)
      PROVE  f[v] = [c \in Nat |-> IF v = << >> THEN CarriedOver(c)
                                   ELSE Append(f[Front(v)][Acc(Last(v), c) \div Octet],
                                               Acc(Last(v), c) % Octet)]
  <2>1. f[v] = IF v = << >> THEN first ELSE step[Last(v)][f[Front(v)]]
    <3> HIDE DEF V, first, step
    <3> QED BY <1>4 DEF GoesAlong
  <2>2. CASE v = << >>
    BY <2>1, <2>2
  <2>3. CASE v # << >>
    <3>1. Front(v) \in Seq(Octets) /\ Last(v) \in Octets
      BY <2>3, FrontAndLast
    <3>2. f[Front(v)] \in V
      BY <1>5, <3>1
    <3>3. step[Last(v)][f[Front(v)]] =
            [c \in Nat |-> Append(f[Front(v)][Acc(Last(v), c) \div Octet], Acc(Last(v), c) % Octet)]
      <4> HIDE DEF V
      <4> QED BY <3>1, <3>2
    <3> QED BY <2>1, <2>3, <3>3
  <2> QED BY <2>2, <2>3
<1>7. Unfolds(f)
  <2> HIDE DEF V
  <2> QED BY <1>5, <1>6
<1>8. Extended = CHOOSE g : Unfolds(g)
  BY DEF Extended, Acc
<1> HIDE DEF Unfolds
<1>9. Unfolds(Extended)
  BY <1>7, <1>8
<1> QED BY <1>9 DEF Unfolds, Acc

\* The value becomes its product with the radix, and the digit.
LEMMA ExtendedMultiplies ==
  ASSUME NEW v \in Seq(Octets), NEW c \in Nat
  PROVE  /\ Extended[v][c] \in Seq(Octets)
         /\ Number(Extended[v][c], Octet) = Number(v, Octet) * Radix + c
<1> USE Base36Assumption
<1> DEFINE Right(s, n) == /\ Extended[s][n] \in Seq(Octets)
                          /\ Number(Extended[s][n], Octet) = Number(s, Octet) * Radix + n
           T == {s \in Seq(Octets) : \A n \in Nat : Right(s, n)}
<1>1. << >> \in T
  <2> SUFFICES ASSUME NEW n \in Nat PROVE Right(<< >>, n)
    BY EmptySeq
  <2>1. Extended[<< >>][n] = CarryBytes[n]
    BY ExtendedByByte, EmptySeq DEF CarriedOver
  <2>2. Number(<< >>, Octet) = 0
    BY NumberByDigits
  <2> QED BY <2>1, <2>2, CarryIsWritten
<1>2. ASSUME NEW s \in Seq(Octets), NEW d \in Octets, s \in T PROVE Append(s, d) \in T
  <2> DEFINE t == Append(s, d)
  <2>1. t \in Seq(Octets) /\ t # << >> /\ Front(t) = s /\ Last(t) = d
    BY OfAppended
  <2>2. Number(t, Octet) = Number(s, Octet) * Octet + d /\ Number(s, Octet) \in Nat
    <3>1. s \in Seq(Nat) /\ d \in Nat
      BY SeqMonotonic DEF Octets
    <3> QED BY <3>1, NumberByDigits
  <2> HIDE DEF t
  <2>3. ASSUME NEW n \in Nat PROVE Right(t, n)
    <3> DEFINE k == (d * Radix + n) \div Octet
               x == (d * Radix + n) % Octet
    <3>1. k \in Nat /\ x \in Octets /\ x \in Nat /\ d * Radix + n = Octet * k + x /\ d \in Nat
      <4> DEFINE acc == d * Radix + n
      <4>1. acc \in Nat /\ d \in Nat
        BY DEF Octets
      <4> HIDE DEF acc
      <4>2. /\ acc \div Octet \in Nat /\ acc % Octet \in Octets
            /\ acc = Octet * (acc \div Octet) + (acc % Octet)
        BY <4>1, Divides DEF Octets
      <4>3. \A y \in Octets : y \in Nat
        BY DEF Octets
      <4> QED BY <4>1, <4>2, <4>3 DEF acc
    <3>2. Extended[t][n] = Append(Extended[s][k], x)
      <4> HIDE DEF k, x
      <4>1. Extended[t][n] = Append(Extended[Front(t)][(Last(t) * Radix + n) \div Octet],
                                    (Last(t) * Radix + n) % Octet)
        <5>1. Extended[t] = [i \in Nat |->
                IF t = << >> THEN CarriedOver(i)
                ELSE Append(Extended[Front(t)][(Last(t) * Radix + i) \div Octet],
                            (Last(t) * Radix + i) % Octet)]
          BY <2>1, ExtendedByByte
        <5> QED BY <2>1, <5>1
      <4> QED BY <2>1, <4>1 DEF k, x
    <3> HIDE DEF k, x
    <3>3. /\ Extended[s][k] \in Seq(Octets)
          /\ Number(Extended[s][k], Octet) = Number(s, Octet) * Radix + k
      BY <1>2, <3>1
    <3>4. Extended[s][k] \in Seq(Nat)
      BY <3>3, SeqMonotonic DEF Octets
    <3>5. Number(Extended[t][n], Octet) = (Number(s, Octet) * Radix + k) * Octet + x
      <4>1. Number(Append(Extended[s][k], x), Octet) = Number(Extended[s][k], Octet) * Octet + x
        BY <3>1, <3>4, NumberByDigits
      <4> QED BY <3>2, <3>3, <4>1
    <3>6. (Number(s, Octet) * Radix + k) * Octet + x = (Number(s, Octet) * Octet + d) * Radix + n
      <4> DEFINE m == Number(s, Octet)
      <4>1. m \in Nat
        BY <2>2
      <4> HIDE DEF m
      <4>2. (m * Radix + k) * Octet + x = (m * Octet + d) * Radix + n
        BY <3>1, <4>1, DigitSplit
      <4> QED BY <4>2 DEF m
    <3>7. Extended[t][n] \in Seq(Octets)
      BY <3>1, <3>2, <3>3, AppendProperties
    <3> QED BY <2>2, <3>5, <3>6, <3>7
  <2>4. t \in T
    <3> HIDE DEF Right
    <3> QED BY <2>1, <2>3
  <2> QED BY <2>4 DEF t
<1>3. Seq(Octets) \subseteq T
  <2> HIDE DEF T
  <2> QED BY <1>1, <1>2, SeqInductionOnSets, Zenon
<1> QED BY <1>3

\* The characters are read from the left.
LEMMA ReadByCharacter ==
  ValueRead = [t \in Seq(Digits) |->
                 IF t = << >> THEN <<0>> ELSE Extended[ValueRead[Front(t)]][Last(t)]]
<1> USE Base36Assumption
<1> DEFINE V == Seq(Octets)
           step == [d \in Digits |-> [v \in V |-> Extended[v][d]]]
           Unfolds(g) == g = [t \in Seq(Digits) |->
                                IF t = << >> THEN <<0>> ELSE Extended[g[Front(t)]][Last(t)]]
<1>1. <<0>> \in V
  BY DEF Octets
<1>2. step \in [Digits -> [V -> V]]
  <2>1. \A d \in Digits : d \in Nat
    BY DEF Digits
  <2> QED BY <2>1, ExtendedMultiplies
<1>3. PICK f : GoesAlong(f, Digits, V, <<0>>, step)
  <2> HIDE DEF V, step
  <2> QED BY <1>1, <1>2, SeqRecursion, Zenon
<1>4. f \in [Seq(Digits) -> V]
  BY <1>3 DEF GoesAlong
<1>5. ASSUME NEW t \in Seq(Digits)
      PROVE  f[t] = IF t = << >> THEN <<0>> ELSE Extended[f[Front(t)]][Last(t)]
  <2>1. f[t] = IF t = << >> THEN <<0>> ELSE step[Last(t)][f[Front(t)]]
    <3> HIDE DEF V, step
    <3> QED BY <1>3 DEF GoesAlong
  <2>2. CASE t # << >>
    <3>1. Front(t) \in Seq(Digits) /\ Last(t) \in Digits
      BY <2>2, FrontAndLast
    <3>2. f[Front(t)] \in V
      BY <1>4, <3>1
    <3>3. step[Last(t)][f[Front(t)]] = Extended[f[Front(t)]][Last(t)]
      BY <3>1, <3>2
    <3> QED BY <2>1, <2>2, <3>3
  <2> QED BY <2>1, <2>2
<1>6. Unfolds(f)
  BY <1>4, <1>5
<1>7. ValueRead = CHOOSE g : Unfolds(g)
  BY DEF ValueRead
<1> HIDE DEF Unfolds
<1>8. Unfolds(ValueRead)
  BY <1>6, <1>7
<1> QED BY <1>8 DEF Unfolds

\* The bytes that are read stand for the number that the text stands for.
LEMMA ReadIsTheNumber ==
  ASSUME NEW t \in Seq(Digits)
  PROVE  ValueRead[t] \in Seq(Octets) /\ Number(ValueRead[t], Octet) = Number(t, Radix)
<1> USE Base36Assumption
<1> DEFINE T == {s \in Seq(Digits) : /\ ValueRead[s] \in Seq(Octets)
                                     /\ Number(ValueRead[s], Octet) = Number(s, Radix)}
<1>1. << >> \in T
  <2>1. ValueRead[<< >>] = <<0>>
    BY ReadByCharacter, EmptySeq
  <2>2. <<0>> \in Seq(Octets) /\ << >> \in Seq(Nat) /\ <<0>> = Append(<< >>, 0)
    BY EmptySeq DEF Octets
  <2>3. Number(<<0>>, Octet) = Number(<< >>, Octet) * Octet + 0
    <3>1. Number(Append(<< >>, 0), Octet) = Number(<< >>, Octet) * Octet + 0
      BY <2>2, NumberByDigits
    <3> QED BY <2>2, <3>1
  <2>4. Number(<< >>, Octet) = 0 /\ Number(<< >>, Radix) = 0
    BY NumberByDigits
  <2>5. Number(<<0>>, Octet) = 0
    BY <2>3, <2>4
  <2> QED BY <2>1, <2>2, <2>4, <2>5, EmptySeq
<1>2. ASSUME NEW s \in Seq(Digits), NEW d \in Digits, s \in T PROVE Append(s, d) \in T
  <2>1. /\ Append(s, d) \in Seq(Digits) /\ Append(s, d) # << >>
        /\ Front(Append(s, d)) = s /\ Last(Append(s, d)) = d
    BY OfAppended
  <2>2. ValueRead[Append(s, d)] = Extended[ValueRead[s]][d]
    <3> DEFINE w == Append(s, d)
    <3> HIDE DEF w
    <3>1. ValueRead[w] = Extended[ValueRead[Front(w)]][Last(w)]
      BY <2>1, ReadByCharacter DEF w
    <3> QED BY <2>1, <3>1 DEF w
  <2>3. s \in Seq(Nat) /\ d \in Nat
    BY SeqMonotonic DEF Digits
  <2>4. /\ Extended[ValueRead[s]][d] \in Seq(Octets)
        /\ Number(Extended[ValueRead[s]][d], Octet) = Number(ValueRead[s], Octet) * Radix + d
    BY <1>2, <2>3, ExtendedMultiplies
  <2>5. Number(Append(s, d), Radix) = Number(s, Radix) * Radix + d
    BY <2>3, NumberByDigits
  <2>6. Number(ValueRead[s], Octet) = Number(s, Radix)
    BY <1>2
  <2>7. Number(ValueRead[Append(s, d)], Octet) = Number(Append(s, d), Radix)
    BY <2>2, <2>4, <2>5, <2>6
  <2> QED BY <2>1, <2>2, <2>4, <2>7
<1>3. Seq(Digits) \subseteq T
  <2> HIDE DEF T
  <2> QED BY <1>1, <1>2, SeqInductionOnSets, Zenon
<1> QED BY <1>3

\* One division of the value, from the left.
Division == [remainder : Digits, quotient : Stripped(Octets)]

\* The division byte by byte is what its recursive definition says.
LEMMA DividedByByte ==
  /\ Divided \in [Seq(Octets) -> Division]
  /\ Divided[<< >>] = [remainder |-> 0, quotient |-> << >>]
  /\ \A v \in Seq(Octets), byte \in Octets :
       LET acc == Divided[v].remainder * Octet + byte
           q   == (acc \div Radix) % Octet
       IN  Divided[Append(v, byte)] =
             [remainder |-> acc % Radix,
              quotient  |-> IF Divided[v].quotient # << >> \/ q # 0
                            THEN Append(Divided[v].quotient, q) ELSE << >>]
<1> USE Base36Assumption
<1> DEFINE Acc(before, byte) == before.remainder * Octet + byte
           Q(before, byte) == (Acc(before, byte) \div Radix) % Octet
           After(before, byte) ==
             [remainder |-> Acc(before, byte) % Radix,
              quotient  |-> IF before.quotient # << >> \/ Q(before, byte) # 0
                            THEN Append(before.quotient, Q(before, byte)) ELSE << >>]
           first == [remainder |-> 0, quotient |-> << >>]
           step == [byte \in Octets |-> [before \in Division |-> After(before, byte)]]
           Unfolds(g) ==
             g = [v \in Seq(Octets) |-> IF v = << >> THEN first ELSE After(g[Front(v)], Last(v))]
<1>1. first \in Division
  BY EmptySeq DEF Division, Digits, Stripped
<1>2. ASSUME NEW before \in Division, NEW byte \in Octets
      PROVE  After(before, byte) \in Division
  <2>1. before.remainder \in Digits /\ before.quotient \in Stripped(Octets)
    BY DEF Division
  <2>2. Acc(before, byte) \in Nat
    BY <2>1 DEF Digits, Octets
  <2> HIDE DEF Acc
  <2>3. Acc(before, byte) % Radix \in Digits /\ Acc(before, byte) \div Radix \in Nat
    BY <2>2, Divides DEF Digits
  <2>4. Q(before, byte) \in Octets
    BY <2>3, Divides DEF Octets
  <2> HIDE DEF Q
  <2> DEFINE w == before.quotient
             q == Q(before, byte)
  <2>5. w \in Seq(Octets) /\ (w # << >> => w[1] # 0)
    BY <2>1 DEF Stripped
  <2> HIDE DEF w, q
  <2>6. ASSUME w # << >> \/ q # 0 PROVE Append(w, q) \in Stripped(Octets)
    <3>1. Append(w, q) \in Seq(Octets) /\ q \in Octets
      BY <2>4, <2>5, AppendProperties DEF q
    <3>2. CASE w = << >>
      <4>1. Append(w, q)[1] = q
        BY <3>1, <3>2
      <4> QED BY <2>6, <3>1, <3>2, <4>1 DEF Stripped
    <3>3. CASE w # << >>
      <4>1. Append(w, q)[1] = w[1]
        BY <2>5, <3>1, <3>3, EmptySeq, AppendProperties
      <4> QED BY <2>5, <3>1, <3>3, <4>1 DEF Stripped
    <3> QED BY <3>2, <3>3
  <2>7. << >> \in Stripped(Octets)
    BY EmptySeq DEF Stripped
  <2> QED BY <2>3, <2>6, <2>7 DEF Division, w, q
<1> HIDE DEF After
<1>3. step \in [Octets -> [Division -> Division]]
  BY <1>2
<1>4. PICK f : GoesAlong(f, Octets, Division, first, step)
  <2> HIDE DEF first, step
  <2> QED BY <1>1, <1>3, SeqRecursion, Zenon
<1>5. f \in [Seq(Octets) -> Division]
  BY <1>4 DEF GoesAlong
<1>6. ASSUME NEW v \in Seq(Octets)
      PROVE  f[v] = IF v = << >> THEN first ELSE After(f[Front(v)], Last(v))
  <2>1. f[v] = IF v = << >> THEN first ELSE step[Last(v)][f[Front(v)]]
    <3> HIDE DEF first, step
    <3> QED BY <1>4 DEF GoesAlong
  <2>2. CASE v # << >>
    <3>1. Front(v) \in Seq(Octets) /\ Last(v) \in Octets
      BY <2>2, FrontAndLast
    <3>2. f[Front(v)] \in Division
      BY <1>5, <3>1
    <3>3. step[Last(v)][f[Front(v)]] = After(f[Front(v)], Last(v))
      BY <3>1, <3>2
    <3> QED BY <2>1, <2>2, <3>3
  <2> QED BY <2>1, <2>2
<1> HIDE DEF first
<1>7. Unfolds(f)
  BY <1>5, <1>6
<1>8. Divided = CHOOSE g : Unfolds(g)
  BY DEF Divided, After, first
<1>9. Unfolds(Divided)
  <2> HIDE DEF Unfolds
  <2> QED BY <1>7, <1>8
<1>10. Divided[<< >>] = first
  BY <1>9, EmptySeq
<1>11. ASSUME NEW v \in Seq(Octets), NEW byte \in Octets
       PROVE  Divided[Append(v, byte)] = After(Divided[v], byte)
  <2> DEFINE t == Append(v, byte)
  <2>1. t \in Seq(Octets) /\ t # << >> /\ Front(t) = v /\ Last(t) = byte
    BY OfAppended
  <2> HIDE DEF t
  <2>2. Divided[t] = After(Divided[Front(t)], Last(t))
    BY <1>9, <2>1
  <2> QED BY <2>1, <2>2 DEF t
<1> DEFINE T == {v \in Seq(Octets) : Divided[v] \in Division}
<1>12. << >> \in T
  BY <1>1, <1>10, EmptySeq DEF first
<1>13. ASSUME NEW v \in Seq(Octets), NEW byte \in Octets, v \in T PROVE Append(v, byte) \in T
  <2> HIDE DEF Unfolds
  <2> QED BY <1>2, <1>11, <1>13, AppendProperties
<1>14. Seq(Octets) \subseteq T
  <2> HIDE DEF T
  <2> QED BY <1>12, <1>13, SeqInductionOnSets, Zenon
<1>15. Divided \in [Seq(Octets) -> Division]
  BY <1>9, <1>14
<1> QED BY <1>10, <1>11, <1>15 DEF first, After

\* Quotient and remainder are what their names say; the quotient fits byte by byte.
LEMMA DividedIsDivision ==
  ASSUME NEW v \in Seq(Octets)
  PROVE  /\ Divided[v].remainder \in Digits /\ Divided[v].quotient \in Stripped(Octets)
         /\ Number(v, Octet) = Number(Divided[v].quotient, Octet) * Radix + Divided[v].remainder
<1> USE Base36Assumption
<1> DEFINE Whole(s) == Number(s, Octet) =
                         Number(Divided[s].quotient, Octet) * Radix + Divided[s].remainder
           T == {s \in Seq(Octets) : Whole(s)}
<1>1. \A s \in Seq(Octets) : /\ Divided[s].remainder \in Digits
                             /\ Divided[s].quotient \in Stripped(Octets)
                             /\ Divided[s].quotient \in Seq(Octets)
  BY DividedByByte DEF Division, Stripped
<1>2. \A s \in Seq(Octets) : s \in Seq(Nat) /\ Number(s, Octet) \in Nat
  <2>1. \A s \in Seq(Octets) : s \in Seq(Nat)
    BY SeqMonotonic DEF Octets
  <2> QED BY <2>1, NumberByDigits
<1>3. Number(<< >>, Octet) = 0
  BY NumberByDigits
<1>4. << >> \in T
  <2>1. Divided[<< >>].remainder = 0 /\ Divided[<< >>].quotient = << >>
    BY DividedByByte
  <2>2. Number(Divided[<< >>].quotient, Octet) = 0
    BY <1>3, <2>1
  <2> QED BY <1>3, <2>1, <2>2, EmptySeq
<1>5. ASSUME NEW s \in Seq(Octets), NEW byte \in Octets, s \in T PROVE Append(s, byte) \in T
  <2> DEFINE r == Divided[s].remainder
             w == Divided[s].quotient
             acc == r * Octet + byte
             k == acc \div Radix
             x == acc % Radix
             u == IF w # << >> \/ k # 0 THEN Append(w, k) ELSE << >>
  <2>1. r \in Digits /\ r \in Nat /\ byte \in Nat /\ w \in Seq(Octets)
    BY <1>1 DEF Digits, Octets
  <2>2. acc \in Nat /\ acc < Radix * Octet
    <3> HIDE DEF r
    <3>1. (r + 1) * Octet <= Radix * Octet
      <4>1. r + 1 <= Radix
        BY <2>1 DEF Digits
      <4> QED BY <2>1, <4>1
    <3>2. (r + 1) * Octet = r * Octet + Octet
      BY <2>1
    <3>3. r * Octet \in Nat /\ byte < Octet
      BY <2>1 DEF Octets
    <3> QED BY <2>1, <3>1, <3>2, <3>3
  <2> HIDE DEF acc
  <2>3. k \in Nat /\ x \in Nat /\ acc = Radix * k + x
    BY <2>2, Divides
  <2>4. k < Octet
    BY <2>2
  <2>5. k % Octet = k /\ k \in Octets
    <3> HIDE DEF k
    <3> QED BY <2>3, <2>4, AlreadyFits DEF Octets
  <2>6. Divided[Append(s, byte)] = [remainder |-> x, quotient |-> u]
    <3>1. LET a == Divided[s].remainder * Octet + byte
              q == (a \div Radix) % Octet
          IN  Divided[Append(s, byte)] =
                [remainder |-> a % Radix,
                 quotient  |-> IF Divided[s].quotient # << >> \/ q # 0
                               THEN Append(Divided[s].quotient, q) ELSE << >>]
      BY DividedByByte
    <3> QED BY <2>5, <3>1 DEF acc
  <2> HIDE DEF k, x
  <2>7. Number(u, Octet) = Number(w, Octet) * Octet + k
    <3>1. CASE w # << >> \/ k # 0
      BY <1>2, <2>1, <2>3, <3>1, NumberByDigits
    <3>2. CASE w = << >> /\ k = 0
      BY <1>3, <3>2
    <3> QED BY <3>1, <3>2
  <2>8. Number(Append(s, byte), Octet) = Number(s, Octet) * Octet + byte
    BY <1>2, <2>1, NumberByDigits
  <2>9. Number(s, Octet) = Number(w, Octet) * Radix + r
    BY <1>5
  <2> DEFINE n == Number(w, Octet)
  <2>10. n \in Nat
    BY <1>2, <2>1
  <2>11. (n * Radix + r) * Octet + byte = (n * Octet + k) * Radix + x
    <3> HIDE DEF n, r
    <3>1. k * Radix + x = Octet * r + byte
      BY <2>1, <2>3, Commutes DEF acc
    <3> QED BY <2>1, <2>3, <2>10, <3>1, DigitSplit
  <2>12. Number(Append(s, byte), Octet) = Number(u, Octet) * Radix + x
    <3> HIDE DEF n, r, u
    <3>1. Number(u, Octet) = n * Octet + k /\ Number(s, Octet) = n * Radix + r
      BY <2>7, <2>9 DEF n
    <3> QED BY <2>8, <2>11, <3>1
  <2>13. Whole(Append(s, byte))
    <3> HIDE DEF u
    <3> QED BY <2>6, <2>12
  <2> QED BY <2>13, AppendProperties
<1>6. Seq(Octets) \subseteq T
  <2> HIDE DEF T
  <2> QED BY <1>4, <1>5, SeqInductionOnSets, Zenon
<1>7. v \in T
  BY <1>6
<1> QED BY <1>1, <1>7

\* The characters of a value are those of its quotient, and its remainder.
LEMMA CharactersByDivision ==
  /\ Characters[<< >>] = << >>
  /\ \A v \in Stripped(Octets) : v # << >> =>
       /\ Divided[v].quotient \in Stripped(Octets)
       /\ Number(Divided[v].quotient, Octet) < Number(v, Octet)
       /\ Characters[v] = Append(Characters[Divided[v].quotient], Divided[v].remainder)
<1> USE Base36Assumption
<1> DEFINE D == Stripped(Octets)
           V == Seq(Digits)
           next == [v \in D |-> Divided[v].quotient]
           rank == [v \in D |-> Number(v, Octet)]
           first == [v \in D |-> << >>]
           step == [v \in D |-> [s \in V |-> Append(s, Divided[v].remainder)]]
           Unfolds(g) == g = [v \in D |-> IF v = << >> THEN << >>
                                          ELSE Append(g[Divided[v].quotient], Divided[v].remainder)]
<1>1. \A v \in D : /\ v \in Seq(Octets) /\ v \in Seq(Nat) /\ v \in Stripped(Nat)
                   /\ Number(v, Octet) \in Nat
  <2> SUFFICES ASSUME NEW v \in D
               PROVE  /\ v \in Seq(Octets) /\ v \in Seq(Nat) /\ v \in Stripped(Nat)
                      /\ Number(v, Octet) \in Nat
    OBVIOUS
  <2>1. v \in Seq(Octets)
    BY DEF Stripped
  <2>2. v \in Seq(Nat)
    BY <2>1, SeqMonotonic DEF Octets
  <2> QED BY <2>1, <2>2, NumberByDigits DEF Stripped
<1>2. \A v \in D : Divided[v].quotient \in D /\ Divided[v].remainder \in Digits
  BY <1>1, DividedIsDivision
<1>3. \A v \in D : v # << >> => Number(Divided[v].quotient, Octet) < Number(v, Octet)
  <2> SUFFICES ASSUME NEW v \in D, v # << >>
               PROVE  Number(Divided[v].quotient, Octet) < Number(v, Octet)
    OBVIOUS
  <2> DEFINE n == Number(v, Octet)
             m == Number(Divided[v].quotient, Octet)
             r == Divided[v].remainder
  <2>1. n > 0 /\ n \in Nat
    BY <1>1, StrippedPositive
  <2>2. m \in Nat /\ r \in Nat
    BY <1>1, <1>2 DEF Digits
  <2>3. n = m * Radix + r
    BY <1>1, DividedIsDivision
  <2> HIDE DEF n, m, r
  <2>4. m * 2 <= m * Radix
    BY <2>2
  <2> QED BY <2>1, <2>2, <2>3, <2>4 DEF n, m
<1>4. {<< >>} \in SUBSET D
  BY EmptySeq DEF Stripped
<1>5. next \in [D -> D] /\ rank \in [D -> Nat] /\ first \in [D -> V]
  BY <1>1, <1>2, EmptySeq
<1>6. step \in [D -> [V -> V]]
  <2>1. \A v \in D, s \in V : Append(s, Divided[v].remainder) \in V
    BY <1>2, AppendProperties
  <2> QED BY <2>1
<1>7. \A v \in D \ {<< >>} : rank[next[v]] < rank[v]
  <2> SUFFICES ASSUME NEW v \in D, v # << >> PROVE rank[next[v]] < rank[v]
    OBVIOUS
  <2>1. next[v] = Divided[v].quotient /\ next[v] \in D
    BY <1>2
  <2>2. rank[next[v]] = Number(next[v], Octet) /\ rank[v] = Number(v, Octet)
    BY <2>1
  <2> QED BY <1>3, <2>1, <2>2
<1>8. PICK f : Follows(f, D, V, {<< >>}, next, first, step)
  <2> HIDE DEF D, V, next, rank, first, step
  <2> QED BY <1>4, <1>5, <1>6, <1>7, RankedRecursion, Zenon
<1>9. f \in [D -> V] /\ \A v \in D : f[v] = IF v \in {<< >>} THEN first[v] ELSE step[v][f[next[v]]]
  <2> HIDE DEF D, V, next, first, step
  <2> QED BY <1>8 DEF Follows
<1>10. ASSUME NEW v \in D
       PROVE  f[v] = IF v = << >> THEN << >>
                     ELSE Append(f[Divided[v].quotient], Divided[v].remainder)
  <2>1. first[v] = << >> /\ next[v] = Divided[v].quotient
    OBVIOUS
  <2>2. f[Divided[v].quotient] \in V
    BY <1>2, <1>9
  <2>3. step[v][f[Divided[v].quotient]] = Append(f[Divided[v].quotient], Divided[v].remainder)
    BY <2>2
  <2> HIDE DEF D, V, next, first, step
  <2> QED BY <1>9, <2>1, <2>3
<1>11. Unfolds(f)
  <2> HIDE DEF D, V
  <2> QED BY <1>9, <1>10
<1>12. Characters = CHOOSE g : Unfolds(g)
  BY DEF Characters
<1>13. Unfolds(Characters)
  <2> HIDE DEF Unfolds
  <2> QED BY <1>11, <1>12
<1>14. Characters[<< >>] = << >>
  <2> HIDE DEF D
  <2> QED BY <1>4, <1>13
<1>15. \A v \in D : v # << >> =>
          Characters[v] = Append(Characters[Divided[v].quotient], Divided[v].remainder)
  <2> HIDE DEF D
  <2> QED BY <1>13
<1> QED BY <1>2, <1>3, <1>14, <1>15

\* The characters stand for the number that the bytes stand for, without zeros
\* in front.
LEMMA CharactersAreTheNumber ==
  ASSUME NEW v \in Stripped(Octets)
  PROVE  /\ Characters[v] \in Stripped(Digits)
         /\ Number(Characters[v], Radix) = Number(v, Octet)
         /\ v # << >> => Characters[v] # << >>
<1> USE Base36Assumption
<1> DEFINE D == Stripped(Octets)
           rank == [s \in D |-> Number(s, Octet)]
           Right(s) == /\ Characters[s] \in Stripped(Digits)
                       /\ Number(Characters[s], Radix) = Number(s, Octet)
                       /\ s # << >> => Characters[s] # << >>
           T == {s \in D : Right(s)}
<1>1. \A s \in D : /\ s \in Seq(Octets) /\ s \in Stripped(Nat) /\ Number(s, Octet) \in Nat
  <2> SUFFICES ASSUME NEW s \in D
               PROVE  s \in Seq(Octets) /\ s \in Stripped(Nat) /\ Number(s, Octet) \in Nat
    OBVIOUS
  <2>1. s \in Seq(Octets)
    BY DEF Stripped
  <2>2. s \in Seq(Nat)
    BY <2>1, SeqMonotonic DEF Octets
  <2> QED BY <2>1, <2>2, NumberByDigits DEF Stripped
<1>2. Number(<< >>, Octet) = 0 /\ Number(<< >>, Radix) = 0
  BY NumberByDigits
<1>3. ASSUME NEW s \in D, \A q \in D : rank[q] < rank[s] => q \in T PROVE Right(s)
  <2>1. CASE s = << >>
    BY <1>2, <2>1, CharactersByDivision, EmptySeq DEF Stripped
  <2>2. CASE s # << >>
    <3> DEFINE q == Divided[s].quotient
               r == Divided[s].remainder
               c == Characters[q]
    <3>1. q \in D /\ Number(q, Octet) < Number(s, Octet) /\ Characters[s] = Append(c, r)
      BY <2>2, CharactersByDivision
    <3>2. /\ r \in Digits /\ r \in Nat
          /\ Number(s, Octet) = Number(q, Octet) * Radix + r
      BY <1>1, DividedIsDivision DEF Digits
    <3> HIDE DEF q, r
    <3>3. Right(q)
      <4>1. rank[q] < rank[s]
        BY <3>1
      <4> QED BY <1>3, <3>1, <4>1
    <3>4. c \in Seq(Digits) /\ c \in Seq(Nat) /\ c \in Stripped(Digits)
      <4>1. c \in Seq(Digits)
        BY <3>3 DEF Stripped
      <4> QED BY <3>3, <4>1, SeqMonotonic DEF Digits
    <3>5. Number(c, Radix) = Number(q, Octet)
      BY <3>3
    <3>6. q # << >> => c # << >>
      BY <3>3
    <3>7. Number(s, Octet) > 0
      BY <1>1, <2>2, StrippedPositive
    <3> HIDE DEF c
    <3>8. Append(c, r) \in Seq(Digits) /\ Append(c, r) # << >>
      BY <3>2, <3>4, AppendProperties
    <3>9. Number(Append(c, r), Radix) = Number(s, Octet)
      BY <3>2, <3>4, <3>5, NumberByDigits
    <3>10. Append(c, r)[1] # 0
      <4>1. CASE c = << >>
        <5>1. Number(q, Octet) = 0
          BY <1>2, <3>5, <4>1
        <5>2. r # 0
          BY <3>2, <3>7, <5>1
        <5>3. Append(c, r)[1] = r
          BY <3>2, <4>1
        <5> QED BY <5>2, <5>3
      <4>2. CASE c # << >>
        <5>1. Append(c, r)[1] = c[1]
          BY <3>2, <3>4, <4>2, EmptySeq, AppendProperties
        <5>2. c[1] # 0
          BY <3>4, <4>2 DEF Stripped
        <5> QED BY <5>1, <5>2
      <4> QED BY <4>1, <4>2
    <3>11. Append(c, r) \in Stripped(Digits)
      BY <3>8, <3>10 DEF Stripped
    <3> QED BY <3>1, <3>8, <3>9, <3>11
  <2> QED BY <2>1, <2>2
<1>4. rank \in [D -> Nat] /\ \A s \in D : (\A q \in D : rank[q] < rank[s] => q \in T) => s \in T
  <2>1. rank \in [D -> Nat]
    BY <1>1
  <2> HIDE DEF Right, D, rank
  <2> QED BY <1>3, <2>1
<1>5. D \subseteq T
  <2> HIDE DEF T, D, rank
  <2> QED BY <1>4, RankInduction
<1> QED BY <1>5

\* What an array of bytes is read back from: its number, written with as few
\* bytes as it takes, behind zeros.
LEMMA Padded ==
  ASSUME NEW bytes \in Arrays
  PROVE  /\ bytes \in Seq(Octets) /\ Len(bytes) = Length
         /\ LET w == WithoutLeadingZeros(bytes)
            IN  bytes = [i \in 1 .. Length - Len(w) |-> 0] \o w
<1> USE Base36Assumption
<1>1. bytes \in Seq(Octets) /\ Len(bytes) = Length
  BY DEF Arrays
<1> DEFINE w == WithoutLeadingZeros(bytes)
           zeros == [i \in 1 .. Length - Len(w) |-> 0]
<1>2. PICK z \in 0 .. Length :
         /\ \A i \in 1 .. z : bytes[i] = 0
         /\ w = SubSeq(bytes, z + 1, Length)
  BY <1>1, ZerosErased
<1>3. /\ w \in Seq(Octets) /\ Len(w) = Length - z
      /\ \A i \in 1 .. Length - z : w[i] = bytes[z + i]
  <2>1. \A i \in z + 1 .. Length : bytes[i] \in Octets
    BY DEF Arrays
  <2>2. z + 1 \in Int /\ Length \in Int
    OBVIOUS
  <2>3. /\ w \in Seq(Octets) /\ Len(w) = (IF z + 1 <= Length THEN Length - (z + 1) + 1 ELSE 0)
        /\ \A i \in 1 .. Length - (z + 1) + 1 : w[i] = bytes[(z + 1) + i - 1]
    BY <1>2, <2>1, <2>2, SubSeqProperties
  <2> HIDE DEF w
  <2> QED BY <2>3
<1> HIDE DEF w
<1>4. zeros \in Seq(Octets) /\ Len(zeros) = z
  <2>1. zeros = [i \in 1 .. z |-> 0]
    BY <1>3
  <2>2. 0 \in Octets
    BY DEF Octets
  <2>3. zeros \in [1 .. z -> Octets] /\ z \in Nat
    BY <2>1, <2>2
  <2> HIDE DEF zeros
  <2>4. zeros \in Seq(Octets)
    BY <2>3, SeqDef
  <2> QED BY <2>3, <2>4, LenProperties
<1>5. bytes = zeros \o w
  <2>1. /\ zeros \o w \in Seq(Octets) /\ Len(zeros \o w) = Length
        /\ \A i \in 1 .. z : (zeros \o w)[i] = zeros[i]
        /\ \A i \in z + 1 .. Length : (zeros \o w)[i] = w[i - z]
    <3> HIDE DEF zeros
    <3> QED BY <1>3, <1>4, ConcatProperties
  <2>2. \A i \in 1 .. z : zeros[i] = 0
    BY <1>3
  <2>3. \A i \in 1 .. Length : bytes[i] = (zeros \o w)[i]
    <3> HIDE DEF zeros
    <3> SUFFICES ASSUME NEW i \in 1 .. Length PROVE bytes[i] = (zeros \o w)[i]
      OBVIOUS
    <3>1. CASE i \in 1 .. z
      BY <1>2, <2>1, <2>2, <3>1
    <3>2. CASE i \in z + 1 .. Length
      <4>1. i - z \in 1 .. Length - z /\ z + (i - z) = i
        BY <3>2
      <4> QED BY <1>3, <2>1, <3>2, <4>1
    <3>3. i \in 1 .. z \/ i \in z + 1 .. Length
      OBVIOUS
    <3> QED BY <3>1, <3>2, <3>3
  <2> HIDE DEF zeros
  <2> QED BY <1>1, <2>1, <2>3, SeqEqual
<1> QED BY <1>1, <1>5 DEF w

\* A value behind zeros is an array of the same number.
LEMMA PaddedNumber ==
  ASSUME NEW value \in Stripped(Octets), Len(value) <= Length
  PROVE  LET p == [i \in 1 .. Length - Len(value) |-> 0] \o value
         IN  /\ p \in Arrays
             /\ Number(p, Octet) = Number(value, Octet)
             /\ WithoutLeadingZeros(p) = value
<1> USE Base36Assumption
<1> DEFINE z == Length - Len(value)
           zeros == [i \in 1 .. z |-> 0]
           p == zeros \o value
<1>1. value \in Seq(Octets) /\ Len(value) \in Nat /\ z \in Nat /\ z <= Length
  <2>1. value \in Seq(Octets)
    BY DEF Stripped
  <2>2. Len(value) \in Nat
    BY <2>1, LenProperties
  <2> QED BY <2>1, <2>2
<1>2. zeros \in Seq(Octets) /\ Len(zeros) = z
  <2>1. zeros \in [1 .. z -> Octets]
    BY DEF Octets
  <2> HIDE DEF zeros
  <2>2. zeros \in Seq(Octets)
    BY <1>1, <2>1, SeqDef
  <2> QED BY <1>1, <2>1, <2>2, LenProperties
<1>3. \A i \in 1 .. z : zeros[i] = 0
  OBVIOUS
<1> HIDE DEF zeros
<1>4. /\ p \in Seq(Octets) /\ Len(p) = Len(zeros) + Len(value)
      /\ \A i \in 1 .. Len(zeros) : p[i] = zeros[i]
      /\ \A i \in Len(zeros) + 1 .. Len(zeros) + Len(value) : p[i] = value[i - Len(zeros)]
  BY <1>1, <1>2, ConcatProperties
<1>5. Len(p) = Length /\ \A i \in 1 .. z : p[i] = 0
  BY <1>1, <1>2, <1>3, <1>4
<1> HIDE DEF p
<1>6. p \in Arrays
  BY <1>4, <1>5, LenProperties DEF Arrays
<1>7. p \in Seq(Nat) /\ value \in Seq(Nat) /\ z \in 0 .. Len(p)
  BY <1>1, <1>4, <1>5, SeqMonotonic DEF Octets
<1>8. SubSeq(p, z + 1, Length) = value
  <2>1. \A i \in z + 1 .. Length : p[i] \in Octets
    BY <1>1, <1>6 DEF Arrays
  <2>2. z + 1 \in Int /\ Length \in Int
    BY <1>1
  <2> DEFINE w == SubSeq(p, z + 1, Length)
  <2>3. /\ w \in Seq(Octets) /\ Len(w) = (IF z + 1 <= Length THEN Length - (z + 1) + 1 ELSE 0)
        /\ \A i \in 1 .. Length - (z + 1) + 1 : w[i] = p[(z + 1) + i - 1]
    BY <2>1, <2>2, SubSeqProperties
  <2> HIDE DEF w
  <2>4. Len(w) = Len(value)
    BY <1>1, <2>3
  <2>5. ASSUME NEW i \in 1 .. Len(value) PROVE w[i] = value[i]
    <3>1. i \in 1 .. Length - (z + 1) + 1 /\ (z + 1) + i - 1 = z + i
      BY <1>1
    <3>2. z + i \in z + 1 .. z + Len(value) /\ (z + i) - z = i
      BY <1>1
    <3>3. w[i] = p[z + i]
      BY <2>3, <3>1
    <3>4. p[z + i] = value[i]
      BY <1>2, <1>4, <3>2
    <3> QED BY <3>3, <3>4
  <2>6. w = value
    BY <1>1, <2>3, <2>4, <2>5, SeqEqual
  <2> QED BY <2>6 DEF w
<1>9. Number(p, Octet) = Number(value, Octet)
  <2>1. Number(SubSeq(p, z + 1, Len(p)), Octet) = Number(p, Octet)
    BY <1>5, <1>7, NumberAfterZeros
  <2> QED BY <1>5, <1>8, <2>1
<1>10. /\ WithoutLeadingZeros(p) \in Stripped(Octets)
       /\ Number(WithoutLeadingZeros(p), Octet) = Number(p, Octet)
  <2>1. Octets \in SUBSET Nat
    BY DEF Octets
  <2> QED BY <1>4, <2>1, WithoutZeros
<1>11. WithoutLeadingZeros(p) = value
  BY <1>9, <1>10, OneWriting DEF Octets
<1> QED BY <1>6, <1>9, <1>11 DEF p, zeros

\* What a text of digits is read as, before its size is looked at.
LEMMA ReadValue ==
  ASSUME NEW text \in Seq(Digits), text # << >>
  PROVE  LET value == WithoutLeadingZeros(ValueRead[text])
         IN  /\ value \in Stripped(Octets)
             /\ Number(value, Octet) = Number(text, Radix)
             /\ DecodeBase36(text) = IF Len(value) > Length THEN Error
                                     ELSE [i \in 1 .. Length - Len(value) |-> 0] \o value
<1> USE Base36Assumption
<1> DEFINE value == WithoutLeadingZeros(ValueRead[text])
<1>1. Octets \in SUBSET Nat
  BY DEF Octets
<1>2. ValueRead[text] \in Seq(Octets) /\ Number(ValueRead[text], Octet) = Number(text, Radix)
  BY ReadIsTheNumber
<1>3. value \in Stripped(Octets) /\ Number(value, Octet) = Number(text, Radix)
  BY <1>1, <1>2, WithoutZeros
<1>4. ~ \E i \in DOMAIN text : text[i] = NotADigit
  <2>1. \A i \in DOMAIN text : text[i] \in Digits
    BY LenProperties
  <2>2. NotADigit \notin Digits
    BY DEF NotADigit, Digits
  <2> QED BY <2>1, <2>2
<1>5. DecodeBase36(text) = IF Len(value) > Length THEN Error
                           ELSE [i \in 1 .. Length - Len(value) |-> 0] \o value
  BY <1>4 DEF DecodeBase36
<1> QED BY <1>3, <1>5

\* Every array of bytes, a key, a hash or a signature, is read back from its text.
THEOREM WrittenIsReadBack == \A bytes \in Arrays : ReadBack(bytes)
<1> USE Base36Assumption
<1> SUFFICES ASSUME NEW bytes \in Arrays PROVE ReadBack(bytes)
  OBVIOUS
<1> DEFINE w == WithoutLeadingZeros(bytes)
           text == EncodeBase36(bytes)
           value == WithoutLeadingZeros(ValueRead[text])
<1>1. /\ bytes \in Seq(Octets) /\ Len(bytes) = Length
      /\ bytes = [i \in 1 .. Length - Len(w) |-> 0] \o w
  BY Padded
<1>2. w \in Stripped(Octets) /\ Len(w) <= Length
  <2>1. Octets \in SUBSET Nat
    BY DEF Octets
  <2> QED BY <1>1, <2>1, WithoutZeros
<1>3. text = IF w = << >> THEN <<0>> ELSE Characters[w]
  BY DEF EncodeBase36
<1> HIDE DEF w, text
<1>4. text \in Seq(Digits) /\ text # << >> /\ Number(text, Radix) = Number(w, Octet)
  <2>1. CASE w = << >>
    <3>1. text = <<0>> /\ <<0>> = Append(<< >>, 0) /\ << >> \in Seq(Nat)
      BY <1>3, <2>1, EmptySeq
    <3>2. Number(Append(<< >>, 0), Radix) = Number(<< >>, Radix) * Radix + 0
      BY <3>1, NumberByDigits
    <3>3. Number(<< >>, Radix) = 0 /\ Number(<< >>, Octet) = 0
      BY NumberByDigits
    <3>4. Number(Append(<< >>, 0), Radix) = 0
      BY <3>2, <3>3
    <3>5. text \in Seq(Digits) /\ text # << >>
      BY <3>1 DEF Digits
    <3> QED BY <2>1, <3>1, <3>3, <3>4, <3>5
  <2>2. CASE w # << >>
    BY <1>2, <1>3, <2>2, CharactersAreTheNumber DEF Stripped
  <2> QED BY <2>1, <2>2
<1>5. /\ value \in Stripped(Octets) /\ Number(value, Octet) = Number(text, Radix)
      /\ DecodeBase36(text) = IF Len(value) > Length THEN Error
                              ELSE [i \in 1 .. Length - Len(value) |-> 0] \o value
  BY <1>4, ReadValue
<1> HIDE DEF value
<1>6. value = w
  BY <1>2, <1>4, <1>5, OneWriting DEF Octets
<1>7. DecodeBase36(text) = [i \in 1 .. Length - Len(w) |-> 0] \o w
  <2>1. Len(w) \in Nat
    BY <1>2, LenProperties DEF Stripped
  <2>2. ~(Len(w) > Length)
    BY <1>2, <2>1
  <2> QED BY <1>5, <1>6, <2>2
<1> QED BY <1>1, <1>7 DEF ReadBack, text

\* Every text is decoded to the array that stands for its number, or refused, and
\* it is refused only if it has another character, is empty, or no array has room
\* for it; what is decoded is written as the same text, without zeros in front.
THEOREM TextIsItsNumber == \A text \in Texts : TextMeansItsNumber(text)
<1> USE Base36Assumption
<1> SUFFICES ASSUME NEW text \in Texts PROVE TextMeansItsNumber(text)
  OBVIOUS
<1>1. CASE text = << >> \/ \E i \in DOMAIN text : text[i] = NotADigit
  BY <1>1 DEF TextMeansItsNumber, DecodeBase36
<1>2. CASE ~(text = << >> \/ \E i \in DOMAIN text : text[i] = NotADigit)
  <2>1. text \in Seq(Digits) /\ text # << >>
    <3>1. /\ Len(text) \in Nat /\ text \in [1 .. Len(text) -> Digits \cup {NotADigit}]
          /\ DOMAIN text = 1 .. Len(text)
      BY LenProperties DEF Texts
    <3>2. text \in [1 .. Len(text) -> Digits]
      BY <1>2, <3>1
    <3> QED BY <1>2, <3>1, <3>2, SeqDef
  <2> DEFINE value == WithoutLeadingZeros(ValueRead[text])
             p == [i \in 1 .. Length - Len(value) |-> 0] \o value
             t == WithoutLeadingZeros(text)
  <2>2. /\ value \in Stripped(Octets) /\ Number(value, Octet) = Number(text, Radix)
        /\ DecodeBase36(text) = IF Len(value) > Length THEN Error ELSE p
    BY <2>1, ReadValue
  <2>3. Len(value) \in Nat /\ value \in Stripped(Nat)
    <3> HIDE DEF value
    <3>1. value \in Seq(Octets)
      BY <2>2 DEF Stripped
    <3>2. value \in Seq(Nat)
      BY <3>1, SeqMonotonic DEF Octets
    <3> QED BY <2>2, <3>1, <3>2, LenProperties DEF Stripped
  <2>4. t \in Stripped(Digits) /\ Number(t, Radix) = Number(text, Radix)
    <3>1. Digits \in SUBSET Nat
      BY DEF Digits
    <3> QED BY <2>1, <3>1, WithoutZeros
  <2>5. t \in Stripped(Nat)
    <3> HIDE DEF t
    <3>1. t \in Seq(Digits)
      BY <2>4 DEF Stripped
    <3>2. t \in Seq(Nat)
      BY <3>1, SeqMonotonic DEF Digits
    <3> QED BY <2>4, <3>2 DEF Stripped
  <2> HIDE DEF value, p, t
  <2>6. CASE Len(value) > Length
    <3>1. ASSUME NEW bytes \in Arrays PROVE Number(bytes, Octet) # Number(text, Radix)
      <4> SUFFICES ASSUME Number(bytes, Octet) = Number(text, Radix) PROVE FALSE
        OBVIOUS
      <4> DEFINE w == WithoutLeadingZeros(bytes)
      <4>1. bytes \in Seq(Octets) /\ Len(bytes) = Length
        BY Padded
      <4>2. w \in Stripped(Octets) /\ Number(w, Octet) = Number(bytes, Octet) /\ Len(w) <= Length
        <5>1. Octets \in SUBSET Nat
          BY DEF Octets
        <5> QED BY <4>1, <5>1, WithoutZeros
      <4> HIDE DEF w
      <4>3. w = value
        BY <2>2, <4>2, OneWriting DEF Octets
      <4> QED BY <2>3, <2>6, <4>2, <4>3
    <3>2. DecodeBase36(text) = Error
      BY <2>2, <2>6
    <3> QED BY <1>2, <3>1, <3>2 DEF TextMeansItsNumber
  <2>7. CASE ~(Len(value) > Length)
    <3>1. /\ p \in Arrays /\ Number(p, Octet) = Number(value, Octet)
          /\ WithoutLeadingZeros(p) = value
      <4>1. Len(value) <= Length
        BY <2>3, <2>7
      <4> QED BY <2>2, <4>1, PaddedNumber DEF p
    <3>2. DecodeBase36(text) = p
      BY <2>2, <2>7
    <3>3. EncodeBase36(p) = IF value = << >> THEN <<0>> ELSE Characters[value]
      BY <3>1 DEF EncodeBase36
    <3>4. EncodeBase36(p) = IF t = << >> THEN <<0>> ELSE t
      <4>1. CASE value = << >>
        <5>1. Number(t, Radix) = 0
          BY <2>2, <2>4, <4>1, NumberByDigits
        <5>2. t = << >>
          BY <2>5, <5>1, StrippedPositive
        <5> QED BY <3>3, <4>1, <5>2
      <4>2. CASE value # << >>
        <5>1. /\ Characters[value] \in Stripped(Digits) /\ Characters[value] # << >>
              /\ Number(Characters[value], Radix) = Number(value, Octet)
          BY <2>2, <4>2, CharactersAreTheNumber
        <5>2. Number(Characters[value], Radix) = Number(t, Radix)
          BY <2>2, <2>4, <5>1
        <5>3. Characters[value] = t
          BY <2>4, <5>1, <5>2, OneWriting DEF Digits
        <5> QED BY <3>3, <4>2, <5>1, <5>3
      <4> QED BY <4>1, <4>2
    <3>5. ~ \A bytes \in Arrays : Number(bytes, Octet) # Number(text, Radix)
      BY <2>2, <3>1
    <3> QED BY <1>2, <2>2, <3>1, <3>2, <3>4, <3>5 DEF TextMeansItsNumber, t
  <2> QED BY <2>6, <2>7
<1> QED BY <1>1, <1>2
==============================================================================

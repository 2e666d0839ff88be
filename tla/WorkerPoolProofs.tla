-------------------------- MODULE WorkerPoolProofs --------------------------
(***************************************************************************)
(* WorkerPool, for any number of workers, jobs and rounds: PoolInv is      *)
(* inductive, and type correctness, the sharing of the round, the honesty  *)
(* of mine_block's outcome and the refinement of MiningRound follow.  Then *)
(* Placement, for any machine: where the workers run.                      *)
(***************************************************************************)
EXTENDS WorkerPoolInv, Placement, FiniteSetTheorems, WellFoundedInduction, TLAPS

LEMMA WorkerCount == Cardinality(Workers) \in Nat \ {0}
BY PoolAssumption, FS_CardinalityType, FS_EmptySet

LEMMA ReportedCount ==
  /\ Cardinality(Reported) \in 0 .. Cardinality(Workers)
  /\ Cardinality(Reported) >= Cardinality(Workers) => Reported = Workers
<1>1. Reported \subseteq Workers
  BY DEF Reported
<1>2. IsFiniteSet(Reported) /\ Cardinality(Reported) <= Cardinality(Workers)
  BY <1>1, PoolAssumption, FS_Subset
<1>3. Cardinality(Reported) \in Nat
  BY <1>2, FS_CardinalityType
<1>4. Cardinality(Workers) = Cardinality(Reported) => Reported = Workers
  BY <1>1, PoolAssumption, FS_Subset
<1>. QED
  BY <1>2, <1>3, <1>4, WorkerCount

THEOREM PoolInvStep == PoolInv /\ [Next]_vars => PoolInv'
<1> SUFFICES ASSUME PoolInv, [Next]_vars PROVE PoolInv'
  OBVIOUS
<1>. USE PoolAssumption, WorkerCount
     DEF Published, Quitting, Starting, Waiting, InCall, Busy, HotLoop, Move,
         MutexFree, poolVars, foundVars, workerVars, callVars, userVars
<1>1. CASE EnsureClearFlags
  <2>0. Reported' = Reported
    BY <1>1 DEF PoolInv, TypeOK, BusyWorkers, Reported, EnsureClearFlags
  <2>1. TypeOK'
    <3>1. work_quit' \in BOOLEAN /\ found' \in BOOLEAN
      BY <1>1 DEF EnsureClearFlags, PoolInv, TypeOK
    <3>. QED
      BY <1>1, <3>1 DEF PoolInv, EnsureClearFlags, TypeOK, CallState, CallerPC
  <2>2. BeforeFirstCall'
    BY <1>1 DEF PoolInv, EnsureClearFlags, TypeOK, BeforeFirstCall, RoundOver, Quiet
  <2>3. AllBorn'
    BY <1>1 DEF PoolInv, EnsureClearFlags, TypeOK, AllBorn
  <2>4. CallState'
    BY <1>1 DEF PoolInv, EnsureClearFlags, TypeOK, CallState, BeforeFirstCall
  <2>5. BusyWorkers'
    BY <1>1 DEF PoolInv, EnsureClearFlags, TypeOK, BusyWorkers, BeforeFirstCall, Barrier,
         CallState, RoundOver, Quiet
  <2>6. Barrier'
    BY <1>1, <2>0, ReportedCount DEF PoolInv, EnsureClearFlags, TypeOK, Barrier, BeforeFirstCall,
         BusyWorkers, RoundOver, Quiet
  <2>7. FoundPair'
    BY <1>1 DEF PoolInv, EnsureClearFlags, TypeOK, FoundPair, BusyWorkers, BeforeFirstCall,
         Barrier, RoundOver, Quiet, SolutionOf
  <2>8. Reasons'
    BY <1>1 DEF PoolInv, EnsureClearFlags, TypeOK, CallState, Reasons, BeforeFirstCall,
         BusyWorkers, Barrier, RoundOver, Quiet
  <2>9. Returned'
    BY <1>1 DEF PoolInv, EnsureClearFlags, TypeOK, Returned, FoundPair, Barrier, BusyWorkers,
         RoundOver, Quiet, CallState
  <2>. QED
    BY <2>1, <2>2, <2>3, <2>4, <2>5, <2>6, <2>7, <2>8, <2>9 DEF PoolInv
<1>2. CASE EnsureReset
  <2>0. Reported' = Reported
    BY <1>2 DEF PoolInv, TypeOK, BusyWorkers, Reported, EnsureReset
  <2>1. TypeOK'
    <3>1. work_stop' \in BOOLEAN /\ finished' \in BOOLEAN /\ error' \in BOOLEAN
      BY <1>2 DEF EnsureReset, PoolInv, TypeOK
    <3>. QED
      BY <1>2, <3>1 DEF PoolInv, EnsureReset, TypeOK, CallState, CallerPC
  <2>2. BeforeFirstCall'
    BY <1>2 DEF PoolInv, EnsureReset, TypeOK, BeforeFirstCall, RoundOver, Quiet
  <2>3. AllBorn'
    BY <1>2 DEF PoolInv, EnsureReset, TypeOK, AllBorn
  <2>4. CallState'
    BY <1>2 DEF PoolInv, EnsureReset, TypeOK, CallState, BeforeFirstCall
  <2>5. BusyWorkers'
    BY <1>2 DEF PoolInv, EnsureReset, TypeOK, BusyWorkers, BeforeFirstCall, Barrier, CallState,
         RoundOver, Quiet
  <2>6. Barrier'
    BY <1>2, <2>0, ReportedCount DEF PoolInv, EnsureReset, TypeOK, Barrier, BeforeFirstCall,
         BusyWorkers, RoundOver, Quiet
  <2>7. FoundPair'
    BY <1>2 DEF PoolInv, EnsureReset, TypeOK, FoundPair, BusyWorkers, BeforeFirstCall, Barrier,
         RoundOver, Quiet, SolutionOf
  <2>8. Reasons'
    BY <1>2 DEF PoolInv, EnsureReset, TypeOK, CallState, Reasons, BeforeFirstCall, BusyWorkers,
         Barrier, RoundOver, Quiet
  <2>9. Returned'
    BY <1>2 DEF PoolInv, EnsureReset, TypeOK, Returned, FoundPair, Barrier, BusyWorkers,
         RoundOver, Quiet, CallState
  <2>. QED
    BY <2>1, <2>2, <2>3, <2>4, <2>5, <2>6, <2>7, <2>8, <2>9 DEF PoolInv
<1>3. CASE SpawnFails
  BY <1>3 DEF SpawnFails, PoolInv, TypeOK, Solution, NoResult, CallerPC, WorkerPC,
       BeforeFirstCall, AllBorn, CallState, BusyWorkers, Barrier, FoundPair, Reasons, Returned,
       RoundOver, Quiet, Reported, SolutionOf
<1>4. CASE Publish
  <2>0. Reported' = {} /\ Cardinality(Reported') = 0
    <3>1. Reported' = {}
      BY <1>4 DEF PoolInv, TypeOK, Barrier, RoundOver, Reported, Publish
    <3>. QED
      BY <3>1, FS_EmptySet
  <2>1. TypeOK'
    <3>1. finished' \in BOOLEAN /\ error' \in BOOLEAN /\ found' \in BOOLEAN
      BY <1>4 DEF Publish, ResetRound, PoolInv, TypeOK
    <3>. QED
      BY <1>4, <3>1 DEF PoolInv, Publish, ResetRound, TypeOK, CallState, CallerPC
  <2>2. BeforeFirstCall'
    BY <1>4 DEF PoolInv, Publish, ResetRound, TypeOK, BeforeFirstCall, RoundOver, Quiet
  <2>3. AllBorn'
    BY <1>4 DEF PoolInv, Publish, ResetRound, TypeOK, AllBorn
  <2>4. CallState'
    BY <1>4 DEF PoolInv, Publish, ResetRound, TypeOK, CallState, BeforeFirstCall
  <2>5. BusyWorkers'
    BY <1>4 DEF PoolInv, Publish, ResetRound, TypeOK, BusyWorkers, BeforeFirstCall, Barrier,
         CallState, RoundOver, Quiet
  <2>6. Barrier'
    BY <1>4, <2>0 DEF PoolInv, Publish, ResetRound, TypeOK, Barrier, BeforeFirstCall,
         BusyWorkers, RoundOver, Quiet
  <2>7. FoundPair'
    BY <1>4 DEF PoolInv, Publish, ResetRound, TypeOK, FoundPair, BusyWorkers, BeforeFirstCall,
         Barrier, RoundOver, Quiet, SolutionOf
  <2>8. Reasons'
    BY <1>4 DEF PoolInv, Publish, ResetRound, TypeOK, CallState, Reasons, BeforeFirstCall,
         BusyWorkers, Barrier, RoundOver, Quiet
  <2>9. Returned'
    BY <1>4 DEF PoolInv, Publish, ResetRound, TypeOK, Returned, FoundPair, Barrier, BusyWorkers,
         RoundOver, Quiet, CallState
  <2>. QED
    BY <2>1, <2>2, <2>3, <2>4, <2>5, <2>6, <2>7, <2>8, <2>9 DEF PoolInv
<1>5. CASE NotifyWorkers
  <2>0. Reported' = Reported
    BY <1>5 DEF PoolInv, TypeOK, BusyWorkers, Reported, NotifyWorkers, WakeWorkers
  <2>1. TypeOK'
    BY <1>5 DEF PoolInv, NotifyWorkers, WakeWorkers, TypeOK, CallState, WorkerPC, CallerPC
  <2>2. BeforeFirstCall'
    BY <1>5 DEF PoolInv, NotifyWorkers, WakeWorkers, TypeOK, BeforeFirstCall, RoundOver, Quiet
  <2>3. AllBorn'
    BY <1>5 DEF PoolInv, NotifyWorkers, WakeWorkers, TypeOK, AllBorn
  <2>4. CallState'
    BY <1>5 DEF PoolInv, NotifyWorkers, WakeWorkers, TypeOK, CallState, BeforeFirstCall
  <2>5. BusyWorkers'
    BY <1>5 DEF PoolInv, NotifyWorkers, WakeWorkers, TypeOK, BusyWorkers, BeforeFirstCall,
         Barrier, CallState, RoundOver, Quiet
  <2>6. Barrier'
    BY <1>5, <2>0, ReportedCount DEF PoolInv, NotifyWorkers, WakeWorkers, TypeOK, Barrier,
         BeforeFirstCall, BusyWorkers, RoundOver, Quiet
  <2>7. FoundPair'
    BY <1>5 DEF PoolInv, NotifyWorkers, WakeWorkers, TypeOK, FoundPair, BusyWorkers,
         BeforeFirstCall, Barrier, RoundOver, Quiet, SolutionOf
  <2>8. Reasons'
    BY <1>5 DEF PoolInv, NotifyWorkers, WakeWorkers, TypeOK, CallState, Reasons, BeforeFirstCall,
         BusyWorkers, Barrier, RoundOver, Quiet
  <2>9. Returned'
    BY <1>5 DEF PoolInv, NotifyWorkers, WakeWorkers, TypeOK, Returned, FoundPair, Barrier,
         BusyWorkers, RoundOver, Quiet, CallState
  <2>. QED
    BY <2>1, <2>2, <2>3, <2>4, <2>5, <2>6, <2>7, <2>8, <2>9 DEF PoolInv
<1>6. CASE EvaluateWait
  BY <1>6 DEF EvaluateWait, PoolInv, TypeOK, Solution, NoResult, CallerPC, WorkerPC,
       BeforeFirstCall, AllBorn, CallState, BusyWorkers, Barrier, FoundPair, Reasons, Returned,
       RoundOver, Quiet, Reported, SolutionOf
<1>7. CASE FallAsleep
  BY <1>7 DEF FallAsleep, PoolInv, TypeOK, Solution, NoResult, CallerPC, WorkerPC,
       BeforeFirstCall, AllBorn, CallState, BusyWorkers, Barrier, FoundPair, Reasons, Returned,
       RoundOver, Quiet, Reported, SolutionOf
<1>8. CASE CollectNonce
  BY <1>8 DEF CollectNonce, PoolInv, TypeOK, Solution, NoResult, CallerPC, WorkerPC,
       BeforeFirstCall, AllBorn, CallState, BusyWorkers, Barrier, FoundPair, Reasons, Returned,
       RoundOver, Quiet, Reported, SolutionOf
<1>9. CASE CollectHash
  BY <1>9 DEF CollectHash, PoolInv, TypeOK, Solution, NoResult, CallerPC, WorkerPC,
       BeforeFirstCall, AllBorn, CallState, BusyWorkers, Barrier, FoundPair, Reasons, Returned,
       RoundOver, Quiet, Reported, SolutionOf
<1>10. CASE ClearCancelRefs
  <2>0. Reported' = Reported
    BY <1>10 DEF PoolInv, TypeOK, BusyWorkers, Reported, ClearCancelRefs
  <2>1. TypeOK'
    BY <1>10 DEF PoolInv, ClearCancelRefs, TypeOK, CallState, CallerPC
  <2>2. BeforeFirstCall'
    BY <1>10 DEF PoolInv, ClearCancelRefs, TypeOK, BeforeFirstCall, RoundOver, Quiet
  <2>3. AllBorn'
    BY <1>10 DEF PoolInv, ClearCancelRefs, TypeOK, AllBorn
  <2>4. CallState'
    BY <1>10 DEF PoolInv, ClearCancelRefs, TypeOK, CallState, BeforeFirstCall
  <2>5. BusyWorkers'
    BY <1>10 DEF PoolInv, ClearCancelRefs, TypeOK, BusyWorkers, BeforeFirstCall, Barrier,
         CallState, RoundOver, Quiet
  <2>6. Barrier'
    BY <1>10, <2>0, ReportedCount DEF PoolInv, ClearCancelRefs, TypeOK, Barrier, BeforeFirstCall,
         BusyWorkers, RoundOver, Quiet
  <2>7. FoundPair'
    BY <1>10 DEF PoolInv, ClearCancelRefs, TypeOK, FoundPair, BusyWorkers, BeforeFirstCall,
         Barrier, RoundOver, Quiet, SolutionOf
  <2>8. Reasons'
    BY <1>10 DEF PoolInv, ClearCancelRefs, TypeOK, CallState, Reasons, BeforeFirstCall,
         BusyWorkers, Barrier, RoundOver, Quiet
  <2>9. Returned'
    BY <1>10 DEF PoolInv, ClearCancelRefs, TypeOK, Returned, FoundPair, Barrier, BusyWorkers,
         RoundOver, Quiet, CallState
  <2>. QED
    BY <2>1, <2>2, <2>3, <2>4, <2>5, <2>6, <2>7, <2>8, <2>9 DEF PoolInv
<1>11. CASE NextIteration
  BY <1>11 DEF NextIteration, PoolInv, TypeOK, Solution, NoResult, CallerPC, WorkerPC,
       BeforeFirstCall, AllBorn, CallState, BusyWorkers, Barrier, FoundPair, Reasons, Returned,
       RoundOver, Quiet, Reported, SolutionOf
<1>12. CASE CallerStops
  BY <1>12 DEF CallerStops, PoolInv, TypeOK, Solution, NoResult, CallerPC, WorkerPC,
       BeforeFirstCall, AllBorn, CallState, BusyWorkers, Barrier, FoundPair, Reasons, Returned,
       RoundOver, Quiet, Reported, SolutionOf
<1>13. CASE QuitFlag
  BY <1>13 DEF QuitFlag, PoolInv, TypeOK, Solution, NoResult, CallerPC, WorkerPC,
       BeforeFirstCall, AllBorn, CallState, BusyWorkers, Barrier, FoundPair, Reasons, Returned,
       RoundOver, Quiet, Reported, SolutionOf
<1>14. CASE QuitLocked
  BY <1>14 DEF QuitLocked, PoolInv, TypeOK, Solution, NoResult, CallerPC, WorkerPC,
       BeforeFirstCall, AllBorn, CallState, BusyWorkers, Barrier, FoundPair, Reasons, Returned,
       RoundOver, Quiet, Reported, SolutionOf
<1>15. CASE QuitNotify
  <2>0. Reported' = Reported
    BY <1>15 DEF PoolInv, TypeOK, BusyWorkers, Reported, QuitNotify, WakeWorkers
  <2>1. TypeOK'
    BY <1>15 DEF PoolInv, QuitNotify, WakeWorkers, TypeOK, CallState, WorkerPC, CallerPC
  <2>2. BeforeFirstCall'
    BY <1>15 DEF PoolInv, QuitNotify, WakeWorkers, TypeOK, BeforeFirstCall, RoundOver, Quiet
  <2>3. AllBorn'
    BY <1>15 DEF PoolInv, QuitNotify, WakeWorkers, TypeOK, AllBorn
  <2>4. CallState'
    BY <1>15 DEF PoolInv, QuitNotify, WakeWorkers, TypeOK, CallState, BeforeFirstCall
  <2>5. BusyWorkers'
    BY <1>15 DEF PoolInv, QuitNotify, WakeWorkers, TypeOK, BusyWorkers, BeforeFirstCall, Barrier,
         CallState, RoundOver, Quiet
  <2>6. Barrier'
    BY <1>15, <2>0, ReportedCount DEF PoolInv, QuitNotify, WakeWorkers, TypeOK, Barrier,
         BeforeFirstCall, BusyWorkers, RoundOver, Quiet
  <2>7. FoundPair'
    BY <1>15 DEF PoolInv, QuitNotify, WakeWorkers, TypeOK, FoundPair, BusyWorkers,
         BeforeFirstCall, Barrier, RoundOver, Quiet, SolutionOf
  <2>8. Reasons'
    BY <1>15 DEF PoolInv, QuitNotify, WakeWorkers, TypeOK, CallState, Reasons, BeforeFirstCall,
         BusyWorkers, Barrier, RoundOver, Quiet
  <2>9. Returned'
    BY <1>15 DEF PoolInv, QuitNotify, WakeWorkers, TypeOK, Returned, FoundPair, Barrier,
         BusyWorkers, RoundOver, Quiet, CallState
  <2>. QED
    BY <2>1, <2>2, <2>3, <2>4, <2>5, <2>6, <2>7, <2>8, <2>9 DEF PoolInv
<1>16. CASE JoinWorkers
  BY <1>16 DEF JoinWorkers, PoolInv, TypeOK, Solution, NoResult, CallerPC, WorkerPC,
       BeforeFirstCall, AllBorn, CallState, BusyWorkers, Barrier, FoundPair, Reasons, Returned,
       RoundOver, Quiet, Reported, SolutionOf
<1>17. CASE StopFlag
  BY <1>17 DEF StopFlag, PoolInv, TypeOK, Solution, NoResult, CallerPC, WorkerPC,
       BeforeFirstCall, AllBorn, CallState, BusyWorkers, Barrier, FoundPair, Reasons, Returned,
       RoundOver, Quiet, Reported, SolutionOf
<1>18. CASE StopQuit
  BY <1>18 DEF StopQuit, PoolInv, TypeOK, Solution, NoResult, CallerPC, WorkerPC,
       BeforeFirstCall, AllBorn, CallState, BusyWorkers, Barrier, FoundPair, Reasons, Returned,
       RoundOver, Quiet, Reported, SolutionOf
<1>19. CASE StopLocked
  BY <1>19 DEF StopLocked, StopMayEnter, PoolInv, TypeOK, Solution, NoResult, CallerPC, WorkerPC,
       BeforeFirstCall, AllBorn, CallState, BusyWorkers, Barrier, FoundPair, Reasons, Returned,
       RoundOver, Quiet, Reported, SolutionOf
<1>20. CASE StopNotify
  <2>0. Reported' = Reported
    BY <1>20 DEF PoolInv, TypeOK, BusyWorkers, Reported, StopNotify, WakeWorkers, WakeCaller
  <2>1. TypeOK'
    BY <1>20 DEF PoolInv, StopNotify, WakeWorkers, WakeCaller, TypeOK, CallState, WorkerPC, CallerPC
  <2>2. BeforeFirstCall'
    BY <1>20 DEF PoolInv, StopNotify, WakeWorkers, WakeCaller, TypeOK, BeforeFirstCall,
         RoundOver, Quiet
  <2>3. AllBorn'
    BY <1>20 DEF PoolInv, StopNotify, WakeWorkers, WakeCaller, TypeOK, AllBorn
  <2>4. CallState'
    BY <1>20 DEF PoolInv, StopNotify, WakeWorkers, WakeCaller, TypeOK, CallState, BeforeFirstCall
  <2>5. BusyWorkers'
    BY <1>20 DEF PoolInv, StopNotify, WakeWorkers, WakeCaller, TypeOK, BusyWorkers,
         BeforeFirstCall, Barrier, CallState, RoundOver, Quiet
  <2>6. Barrier'
    BY <1>20, <2>0, ReportedCount DEF PoolInv, StopNotify, WakeWorkers, WakeCaller, TypeOK,
         Barrier, BeforeFirstCall, BusyWorkers, RoundOver, Quiet
  <2>7. FoundPair'
    BY <1>20 DEF PoolInv, StopNotify, WakeWorkers, WakeCaller, TypeOK, FoundPair, BusyWorkers,
         BeforeFirstCall, Barrier, RoundOver, Quiet, SolutionOf
  <2>8. Reasons'
    BY <1>20 DEF PoolInv, StopNotify, WakeWorkers, WakeCaller, TypeOK, CallState, Reasons,
         BeforeFirstCall, BusyWorkers, Barrier, RoundOver, Quiet
  <2>9. Returned'
    BY <1>20 DEF PoolInv, StopNotify, WakeWorkers, WakeCaller, TypeOK, Returned, FoundPair,
         Barrier, BusyWorkers, RoundOver, Quiet, CallState
  <2>. QED
    BY <2>1, <2>2, <2>3, <2>4, <2>5, <2>6, <2>7, <2>8, <2>9 DEF PoolInv
<1>21. CASE Pause
  BY <1>21 DEF Pause, PoolInv, TypeOK, Solution, NoResult, CallerPC, WorkerPC, BeforeFirstCall,
       AllBorn, CallState, BusyWorkers, Barrier, FoundPair, Reasons, Returned, RoundOver, Quiet,
       Reported, SolutionOf
<1>22. CASE Resume
  <2>0. Reported' = Reported
    BY <1>22 DEF PoolInv, TypeOK, BusyWorkers, Reported, Resume
  <2>1. TypeOK'
    <3>1. paused' \in BOOLEAN
      BY <1>22 DEF Resume, PoolInv, TypeOK
    <3>. QED
      BY <1>22, <3>1 DEF PoolInv, Resume, TypeOK, CallState
  <2>2. BeforeFirstCall'
    BY <1>22 DEF PoolInv, Resume, TypeOK, BeforeFirstCall, RoundOver, Quiet
  <2>3. AllBorn'
    BY <1>22 DEF PoolInv, Resume, TypeOK, AllBorn
  <2>4. CallState'
    BY <1>22 DEF PoolInv, Resume, TypeOK, CallState, BeforeFirstCall
  <2>5. BusyWorkers'
    BY <1>22 DEF PoolInv, Resume, TypeOK, BusyWorkers, BeforeFirstCall, Barrier, CallState,
         RoundOver, Quiet
  <2>6. Barrier'
    BY <1>22, <2>0, ReportedCount DEF PoolInv, Resume, TypeOK, Barrier, BeforeFirstCall,
         BusyWorkers, RoundOver, Quiet
  <2>7. FoundPair'
    BY <1>22 DEF PoolInv, Resume, TypeOK, FoundPair, BusyWorkers, BeforeFirstCall, Barrier,
         RoundOver, Quiet, SolutionOf
  <2>8. Reasons'
    BY <1>22 DEF PoolInv, Resume, TypeOK, CallState, Reasons, BeforeFirstCall, BusyWorkers,
         Barrier, RoundOver, Quiet
  <2>9. Returned'
    BY <1>22 DEF PoolInv, Resume, TypeOK, Returned, FoundPair, Barrier, BusyWorkers, RoundOver,
         Quiet, CallState
  <2>. QED
    BY <2>1, <2>2, <2>3, <2>4, <2>5, <2>6, <2>7, <2>8, <2>9 DEF PoolInv
<1>23. CASE Cancel
  BY <1>23 DEF Cancel, PoolInv, TypeOK, Solution, NoResult, CallerPC, WorkerPC, BeforeFirstCall,
       AllBorn, CallState, BusyWorkers, Barrier, FoundPair, Reasons, Returned, RoundOver, Quiet,
       Reported, SolutionOf
<1>24. CASE SpuriousWakeup
  <2>0. Reported' = Reported
    BY <1>24 DEF PoolInv, TypeOK, BusyWorkers, Reported, SpuriousWakeup
  <2>1. TypeOK'
    BY <1>24 DEF PoolInv, SpuriousWakeup, TypeOK, CallState, WorkerPC, CallerPC
  <2>2. BeforeFirstCall'
    BY <1>24 DEF PoolInv, SpuriousWakeup, TypeOK, BeforeFirstCall, RoundOver, Quiet
  <2>3. AllBorn'
    BY <1>24 DEF PoolInv, SpuriousWakeup, TypeOK, AllBorn
  <2>4. CallState'
    BY <1>24 DEF PoolInv, SpuriousWakeup, TypeOK, CallState, BeforeFirstCall
  <2>5. BusyWorkers'
    BY <1>24 DEF PoolInv, SpuriousWakeup, TypeOK, BusyWorkers, BeforeFirstCall, Barrier,
         CallState, RoundOver, Quiet
  <2>6. Barrier'
    BY <1>24, <2>0, ReportedCount DEF PoolInv, SpuriousWakeup, TypeOK, Barrier, BeforeFirstCall,
         BusyWorkers, RoundOver, Quiet
  <2>7. FoundPair'
    BY <1>24 DEF PoolInv, SpuriousWakeup, TypeOK, FoundPair, BusyWorkers, BeforeFirstCall,
         Barrier, RoundOver, Quiet, SolutionOf
  <2>8. Reasons'
    BY <1>24 DEF PoolInv, SpuriousWakeup, TypeOK, CallState, Reasons, BeforeFirstCall,
         BusyWorkers, Barrier, RoundOver, Quiet
  <2>9. Returned'
    BY <1>24 DEF PoolInv, SpuriousWakeup, TypeOK, Returned, FoundPair, Barrier, BusyWorkers,
         RoundOver, Quiet, CallState
  <2>. QED
    BY <2>1, <2>2, <2>3, <2>4, <2>5, <2>6, <2>7, <2>8, <2>9 DEF PoolInv
<1>25. ASSUME NEW w \in Workers, Spawn(w) PROVE PoolInv'
  <2>0. generation = 0 /\ generation' = 0
    BY <1>25 DEF PoolInv, BeforeFirstCall, Spawn
  <2>1. TypeOK'
    BY <1>25 DEF PoolInv, Spawn, TypeOK, CallState, WorkerPC, CallerPC
  <2>2. BeforeFirstCall'
    BY <1>25 DEF PoolInv, Spawn, TypeOK, BeforeFirstCall, RoundOver, Quiet
  <2>3. AllBorn'
    BY <1>25 DEF PoolInv, Spawn, TypeOK, AllBorn
  <2>4. CallState'
    BY <1>25 DEF PoolInv, Spawn, TypeOK, CallState, BeforeFirstCall
  <2>5. BusyWorkers'
    BY <1>25 DEF PoolInv, Spawn, TypeOK, BusyWorkers, BeforeFirstCall, Barrier, CallState,
         RoundOver, Quiet
  <2>6. Barrier'
    BY <1>25, <2>0, ReportedCount DEF PoolInv, Spawn, TypeOK, Barrier, BeforeFirstCall,
         BusyWorkers, RoundOver, Quiet
  <2>7. FoundPair'
    BY <1>25 DEF PoolInv, Spawn, TypeOK, FoundPair, BusyWorkers, BeforeFirstCall, Barrier,
         RoundOver, Quiet, SolutionOf
  <2>8. Reasons'
    BY <1>25 DEF PoolInv, Spawn, TypeOK, CallState, Reasons, BeforeFirstCall, BusyWorkers,
         Barrier, RoundOver, Quiet
  <2>9. Returned'
    BY <1>25 DEF PoolInv, Spawn, TypeOK, Returned, FoundPair, Barrier, BusyWorkers, RoundOver,
         Quiet, CallState
  <2>. QED
    BY <2>1, <2>2, <2>3, <2>4, <2>5, <2>6, <2>7, <2>8, <2>9 DEF PoolInv
<1>26. ASSUME NEW w \in Workers, TakeJob(w) PROVE PoolInv'
  <2>0. Reported' = Reported
    BY <1>26 DEF PoolInv, TypeOK, BusyWorkers, Reported, TakeJob
  <2>1. TypeOK'
    BY <1>26 DEF PoolInv, TakeJob, TypeOK, CallState, WorkerPC
  <2>2. BeforeFirstCall'
    BY <1>26 DEF PoolInv, TakeJob, TypeOK, BeforeFirstCall, RoundOver, Quiet
  <2>3. AllBorn'
    BY <1>26 DEF PoolInv, TakeJob, TypeOK, AllBorn
  <2>4. CallState'
    BY <1>26 DEF PoolInv, TakeJob, TypeOK, CallState, BeforeFirstCall
  <2>5. BusyWorkers'
    <3>1. ~RoundOver /\ generation > 0 /\ (~stop => ~finished)
      BY <1>26 DEF PoolInv, TypeOK, RoundOver, BeforeFirstCall, Barrier, TakeJob
    <3>2. mpc # "call" /\ (~stop => mpc \in Waiting \cup {"notify"})
      BY <3>1 DEF PoolInv, TypeOK, CallerPC, Barrier, BeforeFirstCall
    <3>3. /\ active_job = call_job
          /\ ~stop => cancel_ref = generation /\ frame = generation
      BY <3>1, <3>2 DEF PoolInv, CallState
    <3>. QED
      BY <1>26, <3>1, <3>2, <3>3 DEF PoolInv, TypeOK, BusyWorkers, TakeJob
  <2>6. Barrier'
    BY <1>26, <2>0, ReportedCount DEF PoolInv, TakeJob, TypeOK, Barrier, BeforeFirstCall,
         BusyWorkers, RoundOver, Quiet
  <2>7. FoundPair'
    BY <1>26 DEF PoolInv, TakeJob, TypeOK, FoundPair, BusyWorkers, BeforeFirstCall, Barrier,
         RoundOver, Quiet, SolutionOf
  <2>8. Reasons'
    BY <1>26 DEF PoolInv, TakeJob, TypeOK, CallState, Reasons, BeforeFirstCall, BusyWorkers,
         Barrier, RoundOver, Quiet
  <2>9. Returned'
    BY <1>26 DEF PoolInv, TakeJob, TypeOK, Returned, FoundPair, Barrier, BusyWorkers, RoundOver,
         Quiet, CallState
  <2>. QED
    BY <2>1, <2>2, <2>3, <2>4, <2>5, <2>6, <2>7, <2>8, <2>9 DEF PoolInv
<1>27. ASSUME NEW w \in Workers, WaitForWork(w) PROVE PoolInv'
  <2>0. Reported' = Reported
    BY <1>27 DEF PoolInv, TypeOK, BusyWorkers, Reported, WaitForWork
  <2>1. TypeOK'
    BY <1>27 DEF PoolInv, WaitForWork, TypeOK, CallState, WorkerPC
  <2>2. BeforeFirstCall'
    BY <1>27 DEF PoolInv, WaitForWork, TypeOK, BeforeFirstCall, RoundOver, Quiet
  <2>3. AllBorn'
    BY <1>27 DEF PoolInv, WaitForWork, TypeOK, AllBorn
  <2>4. CallState'
    BY <1>27 DEF PoolInv, WaitForWork, TypeOK, CallState, BeforeFirstCall
  <2>5. BusyWorkers'
    BY <1>27 DEF PoolInv, WaitForWork, TypeOK, BusyWorkers, BeforeFirstCall, Barrier, CallState,
         RoundOver, Quiet
  <2>6. Barrier'
    BY <1>27, <2>0, ReportedCount DEF PoolInv, WaitForWork, TypeOK, Barrier, BeforeFirstCall,
         BusyWorkers, RoundOver, Quiet
  <2>7. FoundPair'
    BY <1>27 DEF PoolInv, WaitForWork, TypeOK, FoundPair, BusyWorkers, BeforeFirstCall, Barrier,
         RoundOver, Quiet, SolutionOf
  <2>8. Reasons'
    BY <1>27 DEF PoolInv, WaitForWork, TypeOK, CallState, Reasons, BeforeFirstCall, BusyWorkers,
         Barrier, RoundOver, Quiet
  <2>9. Returned'
    BY <1>27 DEF PoolInv, WaitForWork, TypeOK, Returned, FoundPair, Barrier, BusyWorkers,
         RoundOver, Quiet, CallState
  <2>. QED
    BY <2>1, <2>2, <2>3, <2>4, <2>5, <2>6, <2>7, <2>8, <2>9 DEF PoolInv
<1>28. ASSUME NEW w \in Workers, SkipControl(w) PROVE PoolInv'
  <2>0. Reported' = Reported
    BY <1>28 DEF PoolInv, TypeOK, BusyWorkers, Reported, SkipControl
  <2>1. TypeOK'
    BY <1>28 DEF PoolInv, SkipControl, TypeOK, CallState, WorkerPC
  <2>2. BeforeFirstCall'
    BY <1>28 DEF PoolInv, SkipControl, TypeOK, BeforeFirstCall, RoundOver, Quiet
  <2>3. AllBorn'
    BY <1>28 DEF PoolInv, SkipControl, TypeOK, AllBorn
  <2>4. CallState'
    BY <1>28 DEF PoolInv, SkipControl, TypeOK, CallState, BeforeFirstCall
  <2>5. BusyWorkers'
    BY <1>28 DEF PoolInv, SkipControl, TypeOK, BusyWorkers, BeforeFirstCall, Barrier, CallState,
         RoundOver, Quiet
  <2>6. Barrier'
    BY <1>28, <2>0, ReportedCount DEF PoolInv, SkipControl, TypeOK, Barrier, BeforeFirstCall,
         BusyWorkers, RoundOver, Quiet
  <2>7. FoundPair'
    BY <1>28 DEF PoolInv, SkipControl, TypeOK, FoundPair, BusyWorkers, BeforeFirstCall, Barrier,
         RoundOver, Quiet, SolutionOf
  <2>8. Reasons'
    BY <1>28 DEF PoolInv, SkipControl, TypeOK, CallState, Reasons, BeforeFirstCall, BusyWorkers,
         Barrier, RoundOver, Quiet
  <2>9. Returned'
    BY <1>28 DEF PoolInv, SkipControl, TypeOK, Returned, FoundPair, Barrier, BusyWorkers,
         RoundOver, Quiet, CallState
  <2>. QED
    BY <2>1, <2>2, <2>3, <2>4, <2>5, <2>6, <2>7, <2>8, <2>9 DEF PoolInv
<1>29. ASSUME NEW w \in Workers, ControlFlags(w) PROVE PoolInv'
  <2>0. Reported' = Reported
    BY <1>29 DEF PoolInv, TypeOK, BusyWorkers, Reported, ControlFlags
  <2>1. TypeOK'
    BY <1>29 DEF PoolInv, ControlFlags, TypeOK, CallState, WorkerPC
  <2>2. BeforeFirstCall'
    BY <1>29 DEF PoolInv, ControlFlags, TypeOK, BeforeFirstCall, RoundOver, Quiet
  <2>3. AllBorn'
    BY <1>29 DEF PoolInv, ControlFlags, TypeOK, AllBorn
  <2>4. CallState'
    BY <1>29 DEF PoolInv, ControlFlags, TypeOK, CallState, BeforeFirstCall
  <2>5. BusyWorkers'
    BY <1>29 DEF PoolInv, ControlFlags, TypeOK, BusyWorkers, BeforeFirstCall, Barrier, CallState,
         RoundOver, Quiet
  <2>6. Barrier'
    BY <1>29, <2>0, ReportedCount DEF PoolInv, ControlFlags, TypeOK, Barrier, BeforeFirstCall,
         BusyWorkers, RoundOver, Quiet
  <2>7. FoundPair'
    BY <1>29 DEF PoolInv, ControlFlags, TypeOK, FoundPair, BusyWorkers, BeforeFirstCall, Barrier,
         RoundOver, Quiet, SolutionOf
  <2>8. Reasons'
    BY <1>29 DEF PoolInv, ControlFlags, TypeOK, CallState, Reasons, BeforeFirstCall, BusyWorkers,
         Barrier, RoundOver, Quiet
  <2>9. Returned'
    BY <1>29 DEF PoolInv, ControlFlags, TypeOK, Returned, FoundPair, Barrier, BusyWorkers,
         RoundOver, Quiet, CallState
  <2>. QED
    BY <2>1, <2>2, <2>3, <2>4, <2>5, <2>6, <2>7, <2>8, <2>9 DEF PoolInv
<1>30. ASSUME NEW w \in Workers, ControlCancel(w) PROVE PoolInv'
  <2>0. Reported' = Reported
    BY <1>30 DEF PoolInv, TypeOK, BusyWorkers, Reported, ControlCancel, CancelSeen
  <2>1. TypeOK'
    BY <1>30 DEF PoolInv, ControlCancel, CancelSeen, TypeOK, CallState, WorkerPC
  <2>2. BeforeFirstCall'
    BY <1>30 DEF PoolInv, ControlCancel, CancelSeen, TypeOK, BeforeFirstCall, RoundOver, Quiet
  <2>3. AllBorn'
    BY <1>30 DEF PoolInv, ControlCancel, CancelSeen, TypeOK, AllBorn
  <2>4. CallState'
    BY <1>30 DEF PoolInv, ControlCancel, CancelSeen, TypeOK, CallState, BeforeFirstCall
  <2>5. BusyWorkers'
    BY <1>30 DEF PoolInv, ControlCancel, CancelSeen, TypeOK, BusyWorkers, BeforeFirstCall,
         Barrier, CallState, RoundOver, Quiet
  <2>6. Barrier'
    BY <1>30, <2>0, ReportedCount DEF PoolInv, ControlCancel, CancelSeen, TypeOK, Barrier,
         BeforeFirstCall, BusyWorkers, RoundOver, Quiet
  <2>7. FoundPair'
    BY <1>30 DEF PoolInv, ControlCancel, CancelSeen, TypeOK, FoundPair, BusyWorkers,
         BeforeFirstCall, Barrier, RoundOver, Quiet, SolutionOf
  <2>8. Reasons'
    <3>0. ~stop => signal[w] # 0 /\ signal[w] = frame
      BY <1>30 DEF PoolInv, TypeOK, BusyWorkers, CallState, ControlCancel
    <3>1. ~stop => CancelSeen(w) = {cancelled}
      BY <3>0 DEF CancelSeen
    <3>2. ~stop /\ pc'[w] = "finish" => cancelled
      BY <1>30, <3>1 DEF PoolInv, TypeOK, ControlCancel
    <3>3. \A v \in Workers : v # w => pc'[v] = pc[v]
      BY <1>30 DEF PoolInv, TypeOK, ControlCancel
    <3>4. pc'[w] \in {"finish", "control", "hash"}
      BY <1>30 DEF PoolInv, TypeOK, ControlCancel
    <3>. QED
      BY <1>30, <3>2, <3>3, <3>4 DEF PoolInv, Reasons, ControlCancel
  <2>9. Returned'
    BY <1>30 DEF PoolInv, ControlCancel, CancelSeen, TypeOK, Returned, FoundPair, Barrier,
         BusyWorkers, RoundOver, Quiet, CallState
  <2>. QED
    BY <2>1, <2>2, <2>3, <2>4, <2>5, <2>6, <2>7, <2>8, <2>9 DEF PoolInv
<1>31. ASSUME NEW w \in Workers, Miss(w) PROVE PoolInv'
  <2>0. Reported' = Reported
    BY <1>31 DEF PoolInv, TypeOK, BusyWorkers, Reported, Miss
  <2>1. TypeOK'
    BY <1>31 DEF PoolInv, Miss, TypeOK, CallState, WorkerPC
  <2>2. BeforeFirstCall'
    BY <1>31 DEF PoolInv, Miss, TypeOK, BeforeFirstCall, RoundOver, Quiet
  <2>3. AllBorn'
    BY <1>31 DEF PoolInv, Miss, TypeOK, AllBorn
  <2>4. CallState'
    BY <1>31 DEF PoolInv, Miss, TypeOK, CallState, BeforeFirstCall
  <2>5. BusyWorkers'
    BY <1>31 DEF PoolInv, Miss, TypeOK, BusyWorkers, BeforeFirstCall, Barrier, CallState,
         RoundOver, Quiet
  <2>6. Barrier'
    BY <1>31, <2>0, ReportedCount DEF PoolInv, Miss, TypeOK, Barrier, BeforeFirstCall,
         BusyWorkers, RoundOver, Quiet
  <2>7. FoundPair'
    BY <1>31 DEF PoolInv, Miss, TypeOK, FoundPair, BusyWorkers, BeforeFirstCall, Barrier,
         RoundOver, Quiet, SolutionOf
  <2>8. Reasons'
    BY <1>31 DEF PoolInv, Miss, TypeOK, CallState, Reasons, BeforeFirstCall, BusyWorkers,
         Barrier, RoundOver, Quiet
  <2>9. Returned'
    BY <1>31 DEF PoolInv, Miss, TypeOK, Returned, FoundPair, Barrier, BusyWorkers, RoundOver,
         Quiet, CallState
  <2>. QED
    BY <2>1, <2>2, <2>3, <2>4, <2>5, <2>6, <2>7, <2>8, <2>9 DEF PoolInv
<1>32. ASSUME NEW w \in Workers, Hit(w) PROVE PoolInv'
  <2>0. Reported' = Reported
    BY <1>32 DEF PoolInv, TypeOK, BusyWorkers, Reported, Hit, MayClaim
  <2>1. TypeOK'
    BY <1>32 DEF PoolInv, Hit, MayClaim, TypeOK, CallState, WorkerPC
  <2>2. BeforeFirstCall'
    BY <1>32 DEF PoolInv, Hit, MayClaim, TypeOK, BeforeFirstCall, RoundOver, Quiet
  <2>3. AllBorn'
    BY <1>32 DEF PoolInv, Hit, MayClaim, TypeOK, AllBorn
  <2>4. CallState'
    BY <1>32 DEF PoolInv, Hit, MayClaim, TypeOK, CallState, BeforeFirstCall
  <2>5. BusyWorkers'
    BY <1>32 DEF PoolInv, Hit, MayClaim, TypeOK, BusyWorkers, BeforeFirstCall, Barrier,
         CallState, RoundOver, Quiet
  <2>6. Barrier'
    BY <1>32, <2>0, ReportedCount DEF PoolInv, Hit, MayClaim, TypeOK, Barrier, BeforeFirstCall,
         BusyWorkers, RoundOver, Quiet
  <2>7. FoundPair'
    BY <1>32 DEF PoolInv, Hit, MayClaim, TypeOK, FoundPair, BusyWorkers, BeforeFirstCall,
         Barrier, RoundOver, Quiet, SolutionOf
  <2>8. Reasons'
    BY <1>32 DEF PoolInv, Hit, MayClaim, TypeOK, CallState, Reasons, BeforeFirstCall,
         BusyWorkers, Barrier, RoundOver, Quiet
  <2>9. Returned'
    BY <1>32 DEF PoolInv, Hit, MayClaim, TypeOK, Returned, FoundPair, Barrier, BusyWorkers,
         RoundOver, Quiet, CallState
  <2>. QED
    BY <2>1, <2>2, <2>3, <2>4, <2>5, <2>6, <2>7, <2>8, <2>9 DEF PoolInv
<1>33. ASSUME NEW w \in Workers, HashThrows(w) PROVE PoolInv'
  <2>0. Reported' = Reported
    BY <1>33 DEF PoolInv, TypeOK, BusyWorkers, Reported, HashThrows
  <2>1. TypeOK'
    BY <1>33 DEF PoolInv, HashThrows, TypeOK, CallState, WorkerPC
  <2>2. BeforeFirstCall'
    BY <1>33 DEF PoolInv, HashThrows, TypeOK, BeforeFirstCall, RoundOver, Quiet
  <2>3. AllBorn'
    BY <1>33 DEF PoolInv, HashThrows, TypeOK, AllBorn
  <2>4. CallState'
    BY <1>33 DEF PoolInv, HashThrows, TypeOK, CallState, BeforeFirstCall
  <2>5. BusyWorkers'
    BY <1>33 DEF PoolInv, HashThrows, TypeOK, BusyWorkers, BeforeFirstCall, Barrier, CallState,
         RoundOver, Quiet
  <2>6. Barrier'
    BY <1>33, <2>0, ReportedCount DEF PoolInv, HashThrows, TypeOK, Barrier, BeforeFirstCall,
         BusyWorkers, RoundOver, Quiet
  <2>7. FoundPair'
    BY <1>33 DEF PoolInv, HashThrows, TypeOK, FoundPair, BusyWorkers, BeforeFirstCall, Barrier,
         RoundOver, Quiet, SolutionOf
  <2>8. Reasons'
    BY <1>33 DEF PoolInv, HashThrows, TypeOK, CallState, Reasons, BeforeFirstCall, BusyWorkers,
         Barrier, RoundOver, Quiet
  <2>9. Returned'
    BY <1>33 DEF PoolInv, HashThrows, TypeOK, Returned, FoundPair, Barrier, BusyWorkers,
         RoundOver, Quiet, CallState
  <2>. QED
    BY <2>1, <2>2, <2>3, <2>4, <2>5, <2>6, <2>7, <2>8, <2>9 DEF PoolInv
<1>34. ASSUME NEW w \in Workers, StoreNonce(w) PROVE PoolInv'
  <2>0. Reported' = Reported
    BY <1>34 DEF PoolInv, TypeOK, BusyWorkers, Reported, StoreNonce, SolutionOf
  <2>1. TypeOK'
    BY <1>34 DEF PoolInv, StoreNonce, SolutionOf, TypeOK, CallState, WorkerPC, Solution
  <2>2. BeforeFirstCall'
    BY <1>34 DEF PoolInv, StoreNonce, SolutionOf, TypeOK, BeforeFirstCall, RoundOver, Quiet,
         Solution
  <2>3. AllBorn'
    BY <1>34 DEF PoolInv, StoreNonce, SolutionOf, TypeOK, AllBorn, Solution
  <2>4. CallState'
    BY <1>34 DEF PoolInv, StoreNonce, SolutionOf, TypeOK, CallState, BeforeFirstCall, Solution
  <2>5. BusyWorkers'
    BY <1>34 DEF PoolInv, StoreNonce, SolutionOf, TypeOK, BusyWorkers, BeforeFirstCall, Barrier,
         CallState, RoundOver, Quiet, Solution
  <2>6. Barrier'
    BY <1>34, <2>0, ReportedCount DEF PoolInv, StoreNonce, SolutionOf, TypeOK, Barrier,
         BeforeFirstCall, BusyWorkers, RoundOver, Quiet, Solution
  <2>7. FoundPair'
    BY <1>34 DEF PoolInv, StoreNonce, SolutionOf, TypeOK, FoundPair, BusyWorkers,
         BeforeFirstCall, Barrier, RoundOver, Quiet, SolutionOf, Solution
  <2>8. Reasons'
    BY <1>34 DEF PoolInv, StoreNonce, SolutionOf, TypeOK, CallState, Reasons, BeforeFirstCall,
         BusyWorkers, Barrier, RoundOver, Quiet, Solution
  <2>9. Returned'
    BY <1>34 DEF PoolInv, StoreNonce, SolutionOf, TypeOK, Returned, FoundPair, Barrier,
         BusyWorkers, RoundOver, Quiet, CallState, Solution
  <2>. QED
    BY <2>1, <2>2, <2>3, <2>4, <2>5, <2>6, <2>7, <2>8, <2>9 DEF PoolInv
<1>35. ASSUME NEW w \in Workers, StoreHash(w) PROVE PoolInv'
  <2>0. Reported' = Reported
    BY <1>35 DEF PoolInv, TypeOK, BusyWorkers, Reported, StoreHash, SolutionOf
  <2>1. TypeOK'
    BY <1>35 DEF PoolInv, StoreHash, SolutionOf, TypeOK, CallState, WorkerPC, Solution
  <2>2. BeforeFirstCall'
    BY <1>35 DEF PoolInv, StoreHash, SolutionOf, TypeOK, BeforeFirstCall, RoundOver, Quiet, Solution
  <2>3. AllBorn'
    BY <1>35 DEF PoolInv, StoreHash, SolutionOf, TypeOK, AllBorn, Solution
  <2>4. CallState'
    BY <1>35 DEF PoolInv, StoreHash, SolutionOf, TypeOK, CallState, BeforeFirstCall, Solution
  <2>5. BusyWorkers'
    BY <1>35 DEF PoolInv, StoreHash, SolutionOf, TypeOK, BusyWorkers, BeforeFirstCall, Barrier,
         CallState, RoundOver, Quiet, Solution
  <2>6. Barrier'
    BY <1>35, <2>0, ReportedCount DEF PoolInv, StoreHash, SolutionOf, TypeOK, Barrier,
         BeforeFirstCall, BusyWorkers, RoundOver, Quiet, Solution
  <2>7. FoundPair'
    BY <1>35 DEF PoolInv, StoreHash, SolutionOf, TypeOK, FoundPair, BusyWorkers, BeforeFirstCall,
         Barrier, RoundOver, Quiet, SolutionOf, Solution
  <2>8. Reasons'
    BY <1>35 DEF PoolInv, StoreHash, SolutionOf, TypeOK, CallState, Reasons, BeforeFirstCall,
         BusyWorkers, Barrier, RoundOver, Quiet, Solution
  <2>9. Returned'
    BY <1>35 DEF PoolInv, StoreHash, SolutionOf, TypeOK, Returned, FoundPair, Barrier,
         BusyWorkers, RoundOver, Quiet, CallState, Solution
  <2>. QED
    BY <2>1, <2>2, <2>3, <2>4, <2>5, <2>6, <2>7, <2>8, <2>9 DEF PoolInv
<1>36. ASSUME NEW w \in Workers, RecordError(w) PROVE PoolInv'
  <2>0. Reported' = Reported
    BY <1>36 DEF PoolInv, TypeOK, BusyWorkers, Reported, RecordError, ErrorAfter
  <2>1. TypeOK'
    BY <1>36 DEF PoolInv, RecordError, ErrorAfter, TypeOK, CallState, WorkerPC
  <2>2. BeforeFirstCall'
    BY <1>36 DEF PoolInv, RecordError, ErrorAfter, TypeOK, BeforeFirstCall, RoundOver, Quiet
  <2>3. AllBorn'
    BY <1>36 DEF PoolInv, RecordError, ErrorAfter, TypeOK, AllBorn
  <2>4. CallState'
    BY <1>36 DEF PoolInv, RecordError, ErrorAfter, TypeOK, CallState, BeforeFirstCall
  <2>5. BusyWorkers'
    BY <1>36 DEF PoolInv, RecordError, ErrorAfter, TypeOK, BusyWorkers, BeforeFirstCall, Barrier,
         CallState, RoundOver, Quiet
  <2>6. Barrier'
    BY <1>36, <2>0, ReportedCount DEF PoolInv, RecordError, ErrorAfter, TypeOK, Barrier,
         BeforeFirstCall, BusyWorkers, RoundOver, Quiet
  <2>7. FoundPair'
    BY <1>36 DEF PoolInv, RecordError, ErrorAfter, TypeOK, FoundPair, BusyWorkers,
         BeforeFirstCall, Barrier, RoundOver, Quiet, SolutionOf
  <2>8. Reasons'
    BY <1>36 DEF PoolInv, RecordError, ErrorAfter, TypeOK, CallState, Reasons, BeforeFirstCall,
         BusyWorkers, Barrier, RoundOver, Quiet
  <2>9. Returned'
    BY <1>36 DEF PoolInv, RecordError, ErrorAfter, TypeOK, Returned, FoundPair, Barrier,
         BusyWorkers, RoundOver, Quiet, CallState
  <2>. QED
    BY <2>1, <2>2, <2>3, <2>4, <2>5, <2>6, <2>7, <2>8, <2>9 DEF PoolInv
<1>37. ASSUME NEW w \in Workers, Finish(w) PROVE PoolInv'
  <2>0. /\ Reported' = Reported \cup {w} /\ w \notin Reported /\ observed[w] = generation
       /\ completed = Cardinality(Reported)
    BY <1>37 DEF PoolInv, TypeOK, BusyWorkers, Barrier, Reported, Finish, IsLast, WakeCaller
  <2>a. /\ Cardinality(Reported') = completed + 1
        /\ completed + 1 \in 0 .. Cardinality(Workers)
        /\ completed + 1 >= Cardinality(Workers) => Reported' = Workers
    <3>1. IsFiniteSet(Reported) /\ Reported \subseteq Workers
      BY FS_Subset DEF Reported
    <3>2. IsFiniteSet(Reported \cup {w}) /\ Cardinality(Reported \cup {w}) = completed + 1
      BY <2>0, <3>1, FS_AddElement
    <3>3. Reported' \subseteq Workers
      BY <2>0, <3>1, <1>37
    <3>4. /\ Cardinality(Reported') <= Cardinality(Workers)
          /\ Cardinality(Reported') = Cardinality(Workers) => Reported' = Workers
      BY <3>3, FS_Subset
    <3>. QED
      BY <2>0, <3>2, <3>4 DEF PoolInv, TypeOK
  <2>1. TypeOK'
    <3>1. completed' = completed + 1
      BY <1>37, <2>0 DEF Finish
    <3>2. finished' \in BOOLEAN /\ mpc' \in CallerPC
      BY <1>37 DEF PoolInv, TypeOK, CallerPC, Finish, WakeCaller
    <3>. QED
      BY <1>37, <2>a, <3>1, <3>2 DEF PoolInv, TypeOK, WorkerPC, Finish
  <2>2. BeforeFirstCall'
    BY <1>37 DEF PoolInv, Finish, IsLast, WakeCaller, TypeOK, BeforeFirstCall, RoundOver, Quiet
  <2>3. AllBorn'
    BY <1>37 DEF PoolInv, Finish, IsLast, WakeCaller, TypeOK, AllBorn
  <2>4. CallState'
    BY <1>37 DEF PoolInv, Finish, IsLast, WakeCaller, TypeOK, CallState, BeforeFirstCall
  <2>5. BusyWorkers'
    BY <1>37 DEF PoolInv, Finish, IsLast, WakeCaller, TypeOK, BusyWorkers, BeforeFirstCall,
         Barrier, CallState, RoundOver, Quiet
  <2>6. Barrier'
    BY <1>37, <2>0, <2>a DEF Reported, PoolInv, Finish, IsLast, WakeCaller, TypeOK, Barrier,
         BeforeFirstCall, BusyWorkers, RoundOver, Quiet
  <2>7. FoundPair'
    BY <1>37 DEF PoolInv, Finish, IsLast, WakeCaller, TypeOK, FoundPair, BusyWorkers,
         BeforeFirstCall, Barrier, RoundOver, Quiet, SolutionOf
  <2>8. Reasons'
    BY <1>37 DEF PoolInv, Finish, IsLast, WakeCaller, TypeOK, CallState, Reasons,
         BeforeFirstCall, BusyWorkers, Barrier, RoundOver, Quiet
  <2>9. Returned'
    BY <1>37 DEF PoolInv, Finish, IsLast, WakeCaller, TypeOK, Returned, FoundPair, Barrier,
         BusyWorkers, RoundOver, Quiet, CallState
  <2>. QED
    BY <2>1, <2>2, <2>3, <2>4, <2>5, <2>6, <2>7, <2>8, <2>9 DEF PoolInv
<1>38. ASSUME NEW j \in Jobs, CallMineBlock(j) PROVE PoolInv'
  <2>0. Reported' = Reported
    BY <1>38 DEF PoolInv, TypeOK, BusyWorkers, Reported, CallMineBlock
  <2>1. TypeOK'
    <3>1. cancelled' \in BOOLEAN
      BY <1>38 DEF CallMineBlock, PoolInv, TypeOK
    <3>. QED
      BY <1>38, <3>1 DEF PoolInv, CallMineBlock, TypeOK, CallState, CallerPC, NoResult
  <2>2. BeforeFirstCall'
    BY <1>38 DEF PoolInv, CallMineBlock, TypeOK, BeforeFirstCall, RoundOver, Quiet, NoResult
  <2>3. AllBorn'
    BY <1>38 DEF PoolInv, CallMineBlock, TypeOK, AllBorn, NoResult
  <2>4. CallState'
    BY <1>38 DEF PoolInv, CallMineBlock, TypeOK, CallState, BeforeFirstCall, NoResult
  <2>5. BusyWorkers'
    BY <1>38 DEF PoolInv, CallMineBlock, TypeOK, BusyWorkers, BeforeFirstCall, Barrier,
         CallState, RoundOver, Quiet, NoResult
  <2>6. Barrier'
    BY <1>38, <2>0, ReportedCount DEF PoolInv, CallMineBlock, TypeOK, Barrier, BeforeFirstCall,
         BusyWorkers, RoundOver, Quiet, NoResult
  <2>7. FoundPair'
    BY <1>38 DEF PoolInv, CallMineBlock, TypeOK, FoundPair, BusyWorkers, BeforeFirstCall,
         Barrier, RoundOver, Quiet, SolutionOf, NoResult
  <2>8. Reasons'
    BY <1>38 DEF PoolInv, CallMineBlock, TypeOK, CallState, Reasons, BeforeFirstCall,
         BusyWorkers, Barrier, RoundOver, Quiet, NoResult
  <2>9. Returned'
    BY <1>38 DEF PoolInv, CallMineBlock, TypeOK, Returned, FoundPair, Barrier, BusyWorkers,
         RoundOver, Quiet, CallState, NoResult
  <2>. QED
    BY <2>1, <2>2, <2>3, <2>4, <2>5, <2>6, <2>7, <2>8, <2>9 DEF PoolInv
<1>39. CASE UNCHANGED vars
  BY <1>39 DEF vars, PoolInv, TypeOK, Solution, NoResult, CallerPC, WorkerPC, BeforeFirstCall,
       AllBorn, CallState, BusyWorkers, Barrier, FoundPair, Reasons, Returned, RoundOver, Quiet,
       Reported, SolutionOf
<1>. QED
  BY <1>1, <1>2, <1>3, <1>4, <1>5, <1>6, <1>7, <1>8, <1>9, <1>10, <1>11, <1>12, <1>13, <1>14,
       <1>15, <1>16, <1>17, <1>18, <1>19, <1>20, <1>21, <1>22, <1>23, <1>24, <1>25, <1>26, <1>27,
       <1>28, <1>29, <1>30, <1>31, <1>32, <1>33, <1>34, <1>35, <1>36, <1>37, <1>38, <1>39
       DEF Next, Caller, Worker, Stopper, User

\* The pool starts with no thread, no round and no result.
LEMMA PoolInvInit == Init => PoolInv
<1>. SUFFICES ASSUME Init PROVE PoolInv
  OBVIOUS
<1>. USE PoolAssumption, WorkerCount DEF Init, Published, Quitting, Starting,
         Waiting, InCall, Busy, HotLoop, NoResult
<1>1. TypeOK
  <2>1. /\ stop \in BOOLEAN /\ paused \in BOOLEAN
        /\ work_quit \in BOOLEAN /\ work_stop \in BOOLEAN
        /\ finished \in BOOLEAN /\ error \in BOOLEAN
        /\ found \in BOOLEAN /\ cancelled \in BOOLEAN
    OBVIOUS
  <2>2. /\ pc \in [Workers -> WorkerPC] /\ observed \in [Workers -> 0 .. MaxRounds]
        /\ job \in [Workers -> Jobs] /\ signal \in [Workers -> 0 .. MaxRounds]
        /\ skip \in [Workers -> 0 .. CheckInterval - 1]
    BY DEF WorkerPC
  <2>. QED
    BY <2>1, <2>2 DEF TypeOK, CallerPC
<1>2. BeforeFirstCall /\ AllBorn /\ CallState /\ BusyWorkers
  BY DEF BeforeFirstCall, AllBorn, CallState, BusyWorkers, RoundOver, Quiet
<1>3. Barrier /\ FoundPair /\ Reasons /\ Returned
  BY DEF Barrier, FoundPair, Reasons, Returned, RoundOver, Quiet
<1>. QED
  BY <1>1, <1>2, <1>3 DEF PoolInv

\* Every behaviour of the pool keeps the inductive invariant.
THEOREM PoolInvHolds == Spec => []PoolInv
BY PoolInvInit, PoolInvStep, PTL DEF Spec

\* Type correctness: in particular workers_completed_ never counts more
\* reports than there are workers.
THEOREM TypeCorrect == Spec => []TypeOK
<1>1. PoolInv => TypeOK
  BY DEF PoolInv
<1>. QED
  BY <1>1, PoolInvHolds, PTL

\* Until a stop, no worker uses the job or the cancel pointer of a call
\* other than the one in progress.
THEOREM RoundShared == Spec => []WorkersShareTheRound
<1>1. PoolInv => WorkersShareTheRound
  BY DEF PoolInv, BusyWorkers, CallState, WorkersShareTheRound, Published, Waiting
<1>. QED
  BY <1>1, PoolInvHolds, PTL

\* mine_block returns a solution if and only if one was found, hides no
\* exception, and comes back empty-handed only when cancelled.
THEOREM HonestOutcome == Spec => []OutcomeIsHonest
<1>1. ASSUME PoolInv, mpc = "returned", ~stop
      PROVE  /\ ~error
             /\ found => result.nonce # NoSolution /\ result.hash # NoSolution
             /\ ~found => cancelled
  <2>1. RoundOver /\ generation > 0 /\ generation \in Nat
    BY <1>1 DEF PoolInv, TypeOK, Barrier, BeforeFirstCall, Published
  <2>2. Reported = Workers
    <3>1. \A w \in Workers : pc[w] # "unborn"
      BY <1>1 DEF PoolInv, AllBorn, Starting, Quitting
    <3>. QED
      BY <1>1, <2>1, <3>1 DEF PoolInv, TypeOK, RoundOver, Quiet, Reported, WorkerPC
  <2>3. PICK w \in Workers : TRUE
    BY PoolAssumption
  <2>4. found \/ cancelled
    BY <1>1, <2>2, <2>3 DEF PoolInv, Reasons, Reported
  <2>5. ~error /\ (found => result.nonce # NoSolution) /\ result.nonce = result.hash
    BY <1>1 DEF PoolInv, Returned
  <2>. QED
    BY <2>4, <2>5
<1>2. PoolInv => OutcomeIsHonest
  BY <1>1 DEF OutcomeIsHonest
<1>. QED
  BY <1>2, PoolInvHolds, PTL

-----------------------------------------------------------------------------
(***************************************************************************)
(* No lost wakeup, and nobody waits on somebody who waits too.             *)
(***************************************************************************)
\* Nobody sleeps before there are threads.
LEMMA WakeInvInit == Init => WakeInv
BY WorkerCount DEF Init, WakeInv, WorkersHear, CallerHears, OthersMove

\* The actions of the thread that runs Miner::run.
LEMMA CallerKeepsWakeInv == PoolInv /\ WakeInv /\ Caller => WakeInv'
<1>. SUFFICES ASSUME PoolInv, WakeInv, Caller PROVE WakeInv'
  OBVIOUS
<1>. USE WorkerCount DEF WakeInv, WorkersHear, CallerHears, OthersMove, PoolInv, TypeOK,
         Move, poolVars, foundVars, workerVars, callVars, userVars, Quitting, Busy, HotLoop
<1>1. CASE EnsureClearFlags
  BY <1>1 DEF EnsureClearFlags
<1>2. CASE EnsureReset
  BY <1>2 DEF EnsureReset, BeforeFirstCall, Starting
<1>3. ASSUME NEW w \in Workers, Spawn(w) PROVE WakeInv'
  BY <1>3 DEF Spawn
<1>4. CASE SpawnFails
  BY <1>4 DEF SpawnFails
<1>5. ASSUME NEW j \in Jobs, CallMineBlock(j) PROVE WakeInv'
  BY <1>5 DEF CallMineBlock
<1>6. CASE Publish
  BY <1>6 DEF Publish, ResetRound
<1>7. CASE NotifyWorkers
  BY <1>7 DEF NotifyWorkers, WakeWorkers
<1>8. CASE EvaluateWait
  BY <1>8 DEF EvaluateWait
<1>9. CASE FallAsleep
  BY <1>9 DEF FallAsleep
<1>10. CASE CollectNonce
  BY <1>10 DEF CollectNonce
<1>11. CASE CollectHash
  BY <1>11 DEF CollectHash
<1>12. CASE ClearCancelRefs
  BY <1>12 DEF ClearCancelRefs
<1>13. CASE NextIteration
  BY <1>13 DEF NextIteration
<1>14. CASE CallerStops
  BY <1>14 DEF CallerStops
<1>15. CASE QuitFlag
  BY <1>15 DEF QuitFlag
<1>16. CASE QuitLocked
  BY <1>16 DEF QuitLocked
<1>17. CASE QuitNotify
  BY <1>17 DEF QuitNotify, WakeWorkers
<1>18. CASE JoinWorkers
  BY <1>18 DEF JoinWorkers
<1>. QED
  BY <1>1, <1>2, <1>3, <1>4, <1>5, <1>6, <1>7, <1>8, <1>9, <1>10, <1>11, <1>12, <1>13, <1>14,
     <1>15, <1>16, <1>17, <1>18 DEF Caller

\* The actions of a worker.
LEMMA WorkerKeepsWakeInv ==
  ASSUME PoolInv, WakeInv, NEW w \in Workers, Worker(w) PROVE WakeInv'
<1>. USE WorkerCount DEF WakeInv, WorkersHear, CallerHears, OthersMove, PoolInv, TypeOK,
         Move, poolVars, foundVars, workerVars, callVars, userVars, MutexFree
<1>1. CASE TakeJob(w)
  BY <1>1 DEF TakeJob
<1>2. CASE WaitForWork(w)
  BY <1>2 DEF WaitForWork
<1>3. CASE SkipControl(w)
  BY <1>3 DEF SkipControl
<1>4. CASE ControlFlags(w)
  BY <1>4 DEF ControlFlags
<1>5. CASE ControlCancel(w)
  BY <1>5 DEF ControlCancel
<1>6. CASE Miss(w)
  BY <1>6 DEF Miss
<1>7. CASE Hit(w)
  BY <1>7 DEF Hit
<1>8. CASE HashThrows(w)
  BY <1>8 DEF HashThrows
<1>9. CASE StoreNonce(w)
  BY <1>9 DEF StoreNonce
<1>10. CASE StoreHash(w)
  BY <1>10 DEF StoreHash
<1>11. CASE RecordError(w)
  BY <1>11 DEF RecordError
<1>12. CASE Finish(w)
  <2>1. observed[w] = generation /\ generation > 0
    BY <1>12 DEF Finish, BusyWorkers, Busy
  <2>2. WorkersHear'
    BY <1>12 DEF Finish, WakeCaller
  <2>3. CallerHears'
    BY <1>12, <2>1 DEF Finish, WakeCaller
  <2>4. OthersMove'
    BY <1>12, <2>1 DEF Finish, WakeCaller, IsLast, Quitting
  <2>. QED
    BY <2>2, <2>3, <2>4
<1>. QED
  BY <1>1, <1>2, <1>3, <1>4, <1>5, <1>6, <1>7, <1>8, <1>9, <1>10, <1>11, <1>12 DEF Worker

\* Everybody else: the thread that stops, the user, the watchers.
LEMMA OthersKeepWakeInv ==
  PoolInv /\ WakeInv /\ (Stopper \/ User \/ Cancel \/ SpuriousWakeup \/ UNCHANGED vars)
    => WakeInv'
<1>. SUFFICES ASSUME PoolInv, WakeInv,
                     Stopper \/ User \/ Cancel \/ SpuriousWakeup \/ UNCHANGED vars
              PROVE  WakeInv'
  OBVIOUS
<1>. USE WorkerCount DEF WakeInv, WorkersHear, CallerHears, OthersMove, PoolInv, TypeOK,
         Move, poolVars, foundVars, workerVars, callVars, userVars
<1>1. CASE StopQuit
  BY <1>1 DEF StopQuit
<1>2. CASE StopLocked
  \* The mutex: the caller is not between its test and its sleep.
  BY <1>2 DEF StopLocked, StopMayEnter, MutexFree, Reasons
<1>3. CASE StopNotify
  BY <1>3 DEF StopNotify, WakeWorkers, WakeCaller, Quitting
<1>4. CASE User
  BY <1>4 DEF User, StopFlag, Pause, Resume
<1>5. CASE Cancel
  BY <1>5 DEF Cancel
<1>6. CASE SpuriousWakeup
  <2>0. UNCHANGED <<generation, observed, work_stop, cpc, stop, finished, completed>>
    BY <1>6 DEF SpuriousWakeup
  <2>1. CASE mpc = "asleep" /\ mpc' = "wait" /\ UNCHANGED pc
    BY <2>0, <2>1 DEF Quitting
  <2>2. ASSUME NEW w \in Workers, pc[w] = "asleep", Move(w, "idle"), UNCHANGED mpc
        PROVE  WakeInv'
    BY <2>0, <2>2
  <2>. QED
    BY <1>6, <2>1, <2>2 DEF SpuriousWakeup
<1>7. CASE UNCHANGED vars
  <2>1. UNCHANGED <<pc, generation, observed, work_stop, mpc, cpc, stop, finished, completed>>
    BY <1>7 DEF vars
  <2>. QED
    BY <2>1
<1>. QED
  BY <1>1, <1>2, <1>3, <1>4, <1>5, <1>6, <1>7 DEF Stopper

\* No notification is lost, whatever the interleaving: a worker sleeps through
\* a new generation or a stop, and mine_block through the end of its round or a
\* stop, only while the thread that brought it about is on its way to notify.
THEOREM NoLostWakeup == Spec => []WakeInv
<1>1. PoolInv /\ WakeInv /\ [Next]_vars => WakeInv'
  BY CallerKeepsWakeInv, WorkerKeepsWakeInv, OthersKeepWakeInv DEF Next
<1>. QED
  BY <1>1, WakeInvInit, PoolInvHolds, PTL DEF Spec

\* Nobody waits on somebody who waits too: while mine_block sleeps a worker is
\* awake or a stop is on its way, and the workers stop_mining_workers joins are
\* awake or about to be notified.
THEOREM PoolIsAwake == Spec => []SomebodyMoves
<1>1. ASSUME PoolInv, WakeInv, mpc = "asleep", cpc = "idle" PROVE Awake # {}
  <2>1. ~stop /\ ~finished /\ ~work_stop /\ generation > 0
    BY <1>1 DEF PoolInv, BeforeFirstCall, WakeInv, CallerHears, OthersMove, Quitting,
                Published, Waiting
  <2>2. Reported # Workers
    BY <1>1, <2>1, WorkerCount DEF PoolInv, Barrier, WakeInv, OthersMove
  <2>3. PICK w \in Workers : w \notin Reported
    BY <2>2 DEF Reported
  <2>4. pc[w] \notin {"unborn", "exited"}
    BY <1>1, <2>1 DEF PoolInv, AllBorn, Starting, Quitting, WakeInv, OthersMove
  <2>5. pc[w] # "asleep"
    BY <1>1, <2>3 DEF Reported, WakeInv, WorkersHear
  <2>. QED
    BY <1>1, <2>4, <2>5 DEF Awake, PoolInv, TypeOK, WorkerPC
<1>2. ASSUME PoolInv, WakeInv, mpc = "join", NEW w \in Workers
      PROVE  pc[w] \in {"unborn", "exited"} \/ w \in Awake \/ cpc = "notify"
  BY <1>2 DEF Awake, PoolInv, TypeOK, WorkerPC, WakeInv, WorkersHear, OthersMove
<1>3. PoolInv /\ WakeInv => SomebodyMoves
  BY <1>1, <1>2 DEF SomebodyMoves
<1>. QED
  BY <1>3, PoolInvHolds, NoLostWakeup, PTL

-----------------------------------------------------------------------------
(***************************************************************************)
(* The pool implements MiningRound.                                        *)
(***************************************************************************)
\* The result a caller sees, as the refinement mapping of WorkerPool has it.
Seen == IF mpc \in InCall \cup {"threw"} THEN NoResult ELSE result

LEMMA RefinesInit == Init => Round!RoundInit
BY PoolAssumption DEF Init, Round!RoundInit, Phase, InCall, Waiting, NoResult, Round!NoResult

\* What mine_block hands out is a solution of its own job or nothing.
LEMMA ResultIsForTheCall ==
  ASSUME PoolInv, mpc = "clear"
  PROVE  result \in Round!ResultFor(call_job) \cup {Round!NoResult}
<1>1. result = [nonce |-> result.nonce, hash |-> result.nonce]
  BY DEF PoolInv, TypeOK, Returned
<1>2. result.nonce \in Solution \cup {NoSolution}
  BY DEF PoolInv, TypeOK
<1>3. result.nonce # NoSolution => result.nonce.job = call_job
  BY DEF PoolInv, Returned
<1>. QED
  BY <1>1, <1>2, <1>3 DEF Round!ResultFor, Round!Solution, Solution, Round!NoResult

\* Each step of the pool is a step of MiningRound or invisible to it.
LEMMA RefinesStep ==
  PoolInv /\ [Next]_vars => [Round!RoundNext]_(Round!roundVars)
<1>. SUFFICES ASSUME PoolInv, [Next]_vars
              PROVE  [Round!RoundNext]_(Round!roundVars)
  OBVIOUS
<1>. USE DEF Phase, InCall, Waiting, callVars
<1>1. ASSUME NEW j \in Jobs, CallMineBlock(j)
      PROVE  Round!Begin(j)
  BY <1>1 DEF CallMineBlock, Round!Begin, NoResult, Round!NoResult
<1>2. ASSUME ClearCancelRefs, mpc = "clear"
      PROVE  Round!Return
  <2>1. Phase = "mining" /\ Phase' = "idle"
    BY <1>2 DEF ClearCancelRefs
  <2>2. Seen' = result /\ call_job' = call_job
    BY <1>2 DEF ClearCancelRefs, Seen
  <2>3. result \in Round!ResultFor(call_job) \cup {Round!NoResult}
    BY <1>2, ResultIsForTheCall
  <2>. QED
    BY <2>1, <2>2, <2>3 DEF Round!Return, Seen
<1>3. ASSUME ClearCancelRefs, mpc = "rethrow"
      PROVE  Round!Throw
  BY <1>3 DEF ClearCancelRefs, Round!Throw
<1>4. ASSUME CallerStops \/ SpawnFails
      PROVE  Round!Close
  BY <1>4 DEF CallerStops, SpawnFails, Round!Close
<1>5. ASSUME UNCHANGED <<mpc, call_job, result>>
      PROVE  UNCHANGED Round!roundVars
  BY <1>5 DEF Round!roundVars
<1>6. ASSUME mpc' = WakeCaller, UNCHANGED <<call_job, result>>
      PROVE  UNCHANGED Round!roundVars
  BY <1>6 DEF Round!roundVars, WakeCaller
<1>7. ASSUME \/ EnsureClearFlags \/ EnsureReset \/ Publish \/ NotifyWorkers
             \/ EvaluateWait \/ FallAsleep \/ CollectNonce \/ CollectHash
             \/ NextIteration \/ QuitFlag \/ QuitLocked \/ QuitNotify \/ JoinWorkers
      PROVE  UNCHANGED Round!roundVars
  BY <1>7 DEF Round!roundVars, EnsureClearFlags, EnsureReset, Publish, NotifyWorkers,
     EvaluateWait, FallAsleep, CollectNonce, CollectHash, NextIteration, QuitFlag,
     QuitLocked, QuitNotify, JoinWorkers
<1>8. ASSUME NEW w \in Workers, Spawn(w)
      PROVE  UNCHANGED Round!roundVars
  BY <1>8 DEF Spawn, Round!roundVars
<1>9. ASSUME SpuriousWakeup
      PROVE  UNCHANGED Round!roundVars
  BY <1>9 DEF SpuriousWakeup, Round!roundVars
<1>10. ASSUME NEW w \in Workers, Worker(w)
       PROVE  UNCHANGED Round!roundVars
  <2>1. CASE Finish(w)
    BY <2>1, <1>5, <1>6 DEF Finish
  <2>2. CASE ~Finish(w)
    BY <1>10, <2>2, <1>5 DEF Worker, TakeJob, WaitForWork, SkipControl, ControlFlags,
       ControlCancel, Miss, Hit, HashThrows, StoreNonce, StoreHash, RecordError
  <2>. QED
    BY <2>1, <2>2
<1>11. ASSUME Stopper \/ User \/ Cancel
       PROVE  UNCHANGED Round!roundVars
  BY <1>11, <1>5, <1>6 DEF Stopper, User, StopFlag, StopQuit, StopLocked, StopNotify,
     Pause, Resume, Cancel
<1>12. ASSUME UNCHANGED vars
       PROVE  UNCHANGED Round!roundVars
  BY <1>12, <1>5 DEF vars
<1>13. ClearCancelRefs => mpc \in {"clear", "rethrow"}
  BY DEF ClearCancelRefs
<1>. QED
  BY <1>1, <1>2, <1>3, <1>4, <1>7, <1>8, <1>9, <1>10, <1>11, <1>12, <1>13
     DEF Next, Caller, Round!RoundNext

\* mine_block keeps the promise MiningRound states.
THEOREM PoolImplementsRound == Spec => ImplementsRound
BY RefinesInit, RefinesStep, PoolInvHolds, PTL DEF Spec, ImplementsRound, Round!RoundSpec
-----------------------------------------------------------------------------
(***************************************************************************)
(* Division by the CPUs that are used.                                     *)
(***************************************************************************)
LEMMA Remainder ==
  ASSUME NEW n \in Nat, NEW l \in Nat, l > 0
  PROVE  /\ n % l \in 0 .. l - 1 /\ n % l <= n
         /\ n < l => n % l = n
         /\ n = l * (n \div l) + (n % l) /\ n \div l \in Nat
OBVIOUS

LEMMA UniqueRemainder ==
  ASSUME NEW l \in Nat, NEW p \in Int, NEW q \in Int, NEW r \in 0 .. l - 1, NEW s \in 0 .. l - 1,
         l * p + r = l * q + s
  PROVE  r = s
<1>1. l * (p - q) = s - r
  OBVIOUS
<1>2. p - q >= 1 => l * (p - q) >= l
  <2> DEFINE d == p - q
  <2>1. d \in Int OBVIOUS
  <2>2. d >= 1 => l * d >= l * 1
    <3> HIDE DEF d
    <3> QED BY <2>1
  <2> QED BY <2>2
<1>3. q - p >= 1 => l * (q - p) >= l
  <2> DEFINE d == q - p
  <2>1. d \in Int OBVIOUS
  <2>2. d >= 1 => l * d >= l * 1
    <3> HIDE DEF d
    <3> QED BY <2>1
  <2> QED BY <2>2
<1>4. l * (q - p) = r - s
  OBVIOUS
<1>5. p = q
  BY <1>1, <1>2, <1>3, <1>4
<1> QED BY <1>5

LEMMA NextRemainder ==
  ASSUME NEW n \in Nat, NEW l \in Nat, l > 0
  PROVE  (n + 1) % l = IF n % l = l - 1 THEN 0 ELSE (n % l) + 1
<1> DEFINE q == n \div l
           r == n % l
           p == (n + 1) \div l
           s == (n + 1) % l
<1>1. n = l * q + r /\ q \in Nat /\ r \in 0 .. l - 1
  BY Remainder
<1>2. n + 1 = l * p + s /\ p \in Nat /\ s \in 0 .. l - 1
  BY Remainder, n + 1 \in Nat
<1> HIDE DEF q, r, p, s
<1>3. CASE r = l - 1
  <2>1. l * (q + 1) + 0 = l * p + s
    BY <1>1, <1>2, <1>3
  <2>2. s = 0
    BY <2>1, <1>1, <1>2, UniqueRemainder, q + 1 \in Int, 0 \in 0 .. l - 1
  <2> QED BY <1>3, <2>2 DEF r, s
<1>4. CASE r # l - 1
  <2>1. l * q + (r + 1) = l * p + s /\ r + 1 \in 0 .. l - 1
    BY <1>1, <1>2, <1>4
  <2>2. s = r + 1
    BY <2>1, <1>1, <1>2, UniqueRemainder
  <2> QED BY <1>4, <2>2 DEF r, s
<1> QED BY <1>3, <1>4

(***************************************************************************)
(* Finite sets.                                                            *)
(***************************************************************************)
LEMMA Occupied ==
  ASSUME NEW S, IsFiniteSet(S)
  PROVE  Cardinality(S) \in Nat /\ (Cardinality(S) > 0 <=> S # {})
BY FS_CardinalityType, FS_EmptySet

LEMMA CardinalityTo ==
  ASSUME NEW n \in Nat
  PROVE  IsFiniteSet(1 .. n) /\ Cardinality(1 .. n) = n
BY FS_Interval

LEMMA AtMostOne ==
  ASSUME NEW S, IsFiniteSet(S), \A x, y \in S : x = y
  PROVE  Cardinality(S) <= 1
<1>1. CASE S = {}
  BY <1>1, FS_EmptySet
<1>2. CASE S # {}
  <2>1. PICK x \in S : TRUE
    BY <1>2
  <2>2. S = {x}
    BY <2>1
  <2> QED BY <2>2, FS_Singleton
<1> QED BY <1>1, <1>2

LEMMA LeastOf ==
  ASSUME NEW S, S \subseteq Nat, S # {}
  PROVE  \E x \in S : \A y \in S : x <= y
<1> DEFINE R == {p \in Nat \X Nat : p[1] < p[2]}
<1>1. IsWellFoundedOn(R, Nat)
  BY NatLessThanWellFounded DEF OpToRel
<1>2. \E x \in S : \A y \in S : <<y, x>> \notin R
  <2> HIDE DEF R
  <2> QED BY <1>1, WFMin
<1>3. \A x, y \in S : y < x => <<y, x>> \in R
  OBVIOUS
<1> HIDE DEF R
<1> QED
  <2>1. PICK x \in S : \A y \in S : <<y, x>> \notin R
    BY <1>2
  <2>2. \A y \in S : ~(y < x)
    BY <1>3, <2>1
  <2>3. \A y \in S : x <= y
    BY <2>2
  <2> QED BY <2>3

\* A set of the values that a function takes on 1 .. n has at most n elements.
LEMMA FewValues ==
  ASSUME NEW n \in Nat, NEW S, NEW f, \A s \in S : \E i \in 1 .. n : s = f[i]
  PROVE  IsFiniteSet(S) /\ Cardinality(S) <= n
<1>1. CASE S = {}
  BY <1>1, FS_EmptySet
<1>2. CASE S # {}
  <2>1. PICK any \in S : TRUE
    BY <1>2
  <2> DEFINE g == [i \in 1 .. n |-> IF f[i] \in S THEN f[i] ELSE any]
  <2>2. g \in Surjection(1 .. n, S)
    BY <2>1 DEF Surjection
  <2>3. IsFiniteSet(1 .. n) /\ Cardinality(1 .. n) = n
    BY FS_Interval
  <2> QED BY <2>2, <2>3, FS_Surjection, FS_CardinalityType
<1> QED BY <1>1, <1>2

(***************************************************************************)
(* The order of the slots, on any machine.                                 *)
(***************************************************************************)
\* A reading is taken for a number that is not negative.
LEMMA TakenNumber ==
  ASSUME NEW reading \in Readings, NEW default \in Nat
  PROVE  Taken(reading, default) \in Nat
BY DEF Taken, Readings

\* The members of a key are integers, and the slower tier is 1.
LEMMA KeyParts ==
  ASSUME NEW m \in Machines, NEW cpu \in DOMAIN m
  PROVE  /\ PerformanceTier(m, cpu) \in 0 .. 1
         /\ SiblingIndex(m, cpu) \in Nat
         /\ Core(m, cpu)[1] \in Nat /\ Core(m, cpu)[2] \in Nat /\ cpu \in Nat
<1>1. IsFiniteSet(DOMAIN m) /\ cpu \in Nat
      /\ m[cpu].package \in Readings /\ m[cpu].core \in Readings
  BY PlacementAssumption
<1>5. Core(m, cpu)[1] \in Nat /\ Core(m, cpu)[2] \in Nat
  BY <1>1, TakenNumber DEF Core
<1>2. PerformanceTier(m, cpu) \in 0 .. 1
  BY DEF PerformanceTier
<1>3. {c \in DOMAIN m : c < cpu /\ Core(m, c) = Core(m, cpu)} \in SUBSET DOMAIN m
  OBVIOUS
<1>4. SiblingIndex(m, cpu) \in Nat
  BY <1>1, <1>3, FS_Subset, FS_CardinalityType DEF SiblingIndex
<1> QED BY <1>1, <1>2, <1>4, <1>5

\* Slots are sorted by tier, then by sibling; no two are the same.
LEMMA SortsBeforeMeans ==
  ASSUME NEW m \in Machines, NEW x \in DOMAIN m, NEW y \in DOMAIN m,
         SortsBefore(SortKey(m, x), SortKey(m, y))
  PROVE  /\ PerformanceTier(m, x) <= PerformanceTier(m, y)
         /\ PerformanceTier(m, x) = PerformanceTier(m, y) =>
              SiblingIndex(m, x) <= SiblingIndex(m, y)
         /\ x # y
<1> DEFINE a == SortKey(m, x)
           b == SortKey(m, y)
<1>1. /\ DOMAIN a = 1 .. 5
      /\ a[1] = PerformanceTier(m, x) /\ a[2] = SiblingIndex(m, x)
      /\ a[3] = Core(m, x)[1] /\ a[4] = Core(m, x)[2] /\ a[5] = x
  BY DEF SortKey
<1>2. /\ b[1] = PerformanceTier(m, y) /\ b[2] = SiblingIndex(m, y)
      /\ b[3] = Core(m, y)[1] /\ b[4] = Core(m, y)[2] /\ b[5] = y
  BY DEF SortKey
<1>3. \A k \in 1 .. 5 : a[k] \in Int /\ b[k] \in Int
  BY <1>1, <1>2, KeyParts
<1> HIDE DEF a, b
<1>4. PICK k \in 1 .. 5 : a[k] < b[k] /\ \A j \in 1 .. k - 1 : a[j] = b[j]
  BY <1>1 DEF SortsBefore, a, b
<1>5. a # b
  BY <1>3, <1>4
<1>6. x # y
  BY <1>5 DEF a, b
<1>7. a[1] <= b[1] /\ (a[1] = b[1] => a[2] <= b[2])
  BY <1>3, <1>4
<1> QED BY <1>1, <1>2, <1>6, <1>7

LEMMA SortedSlots ==
  ASSUME NEW m \in Machines, NEW plan \in Sorted(m)
  PROVE  LET n == Cardinality(DOMAIN m) IN
         /\ n \in Nat \ {0} /\ plan \in [1 .. n -> DOMAIN m]
         /\ \A cpu \in DOMAIN m : \E i \in 1 .. n : plan[i] = cpu
         /\ \A i, j \in 1 .. n : i < j => SortsBefore(SortKey(m, plan[i]), SortKey(m, plan[j]))
<1>1. IsFiniteSet(DOMAIN m) /\ DOMAIN m # {}
  BY PlacementAssumption
<1>2. Cardinality(DOMAIN m) \in Nat \ {0}
  BY <1>1, FS_CardinalityType, FS_EmptySet
<1>3. /\ plan \in [1 .. Cardinality(DOMAIN m) -> DOMAIN m]
      /\ Range(plan) = DOMAIN m
      /\ \A i, j \in DOMAIN plan : i < j =>
           SortsBefore([cpu \in DOMAIN m |-> SortKey(m, cpu)][plan[i]],
                       [cpu \in DOMAIN m |-> SortKey(m, cpu)][plan[j]])
  BY DEF Sorted
<1>4. \A i \in 1 .. Cardinality(DOMAIN m) :
        [cpu \in DOMAIN m |-> SortKey(m, cpu)][plan[i]] = SortKey(m, plan[i])
  BY <1>3
<1>5. \A cpu \in DOMAIN m : \E i \in 1 .. Cardinality(DOMAIN m) : plan[i] = cpu
  BY <1>3 DEF Range
<1> QED BY <1>2, <1>3, <1>4, <1>5

LEMMA SlotOrder ==
  ASSUME NEW m \in Machines, NEW plan \in Sorted(m),
         NEW i \in 1 .. Cardinality(DOMAIN m), NEW j \in 1 .. Cardinality(DOMAIN m)
  PROVE  /\ plan[i] = plan[j] => i = j
         /\ PerformanceTier(m, plan[i]) < PerformanceTier(m, plan[j]) => i < j
         /\ /\ PerformanceTier(m, plan[i]) = PerformanceTier(m, plan[j])
            /\ SiblingIndex(m, plan[i]) < SiblingIndex(m, plan[j])
            => i < j
<1>1. /\ Cardinality(DOMAIN m) \in Nat
      /\ plan[i] \in DOMAIN m /\ plan[j] \in DOMAIN m
      /\ i < j => SortsBefore(SortKey(m, plan[i]), SortKey(m, plan[j]))
      /\ j < i => SortsBefore(SortKey(m, plan[j]), SortKey(m, plan[i]))
  BY SortedSlots
<1>2. /\ PerformanceTier(m, plan[i]) \in 0 .. 1 /\ PerformanceTier(m, plan[j]) \in 0 .. 1
      /\ SiblingIndex(m, plan[i]) \in Nat /\ SiblingIndex(m, plan[j]) \in Nat
  BY <1>1, KeyParts
<1>3. CASE i < j
  BY <1>1, <1>2, <1>3, SortsBeforeMeans
<1>4. CASE j < i
  <2>1. /\ PerformanceTier(m, plan[j]) <= PerformanceTier(m, plan[i])
        /\ PerformanceTier(m, plan[j]) = PerformanceTier(m, plan[i]) =>
             SiblingIndex(m, plan[j]) <= SiblingIndex(m, plan[i])
        /\ plan[j] # plan[i]
    BY <1>1, <1>4, SortsBeforeMeans
  <2> QED BY <1>2, <2>1
<1>5. CASE i = j
  BY <1>2, <1>5
<1> QED BY <1>1, <1>3, <1>4, <1>5

LEMMA SlotsDiffer ==
  ASSUME NEW m \in Machines, NEW plan \in Sorted(m)
  PROVE  \A i, j \in 1 .. Cardinality(DOMAIN m) : plan[i] = plan[j] => i = j
BY SlotOrder

(***************************************************************************)
(* The CPUs of a core.                                                     *)
(***************************************************************************)
LEMMA CoreIsOneTier ==
  ASSUME CoresAlike, NEW x \in DOMAIN machine, NEW y \in DOMAIN machine,
         Core(machine, x) = Core(machine, y)
  PROVE  PerformanceTier(machine, x) = PerformanceTier(machine, y)
<1>1. y \in CpusOfCore(x)
  BY DEF CpusOfCore
<1> QED BY <1>1 DEF CoresAlike

LEMMA CoreHasFirst ==
  ASSUME NEW m \in Machines, NEW x \in DOMAIN m
  PROVE  \E d \in DOMAIN m : Core(m, d) = Core(m, x) /\ SiblingIndex(m, d) = 0
<1> DEFINE S == {c \in DOMAIN m : Core(m, c) = Core(m, x)}
<1>1. S \subseteq Nat /\ S # {}
  BY PlacementAssumption
<1>2. PICK d \in S : \A y \in S : d <= y
  BY <1>1, LeastOf
<1>3. {c \in DOMAIN m : c < d /\ Core(m, c) = Core(m, d)} = {}
  BY <1>1, <1>2
<1>4. SiblingIndex(m, d) = 0
  BY <1>3, FS_EmptySet DEF SiblingIndex
<1> QED BY <1>4

LEMMA LaterSibling ==
  ASSUME NEW m \in Machines, NEW x \in DOMAIN m, NEW y \in DOMAIN m,
         Core(m, x) = Core(m, y), x < y
  PROVE  SiblingIndex(m, y) > 0
<1> DEFINE S == {c \in DOMAIN m : c < y /\ Core(m, c) = Core(m, y)}
<1>1. IsFiniteSet(DOMAIN m) /\ S \in SUBSET DOMAIN m
  BY PlacementAssumption
<1>2. IsFiniteSet(S) /\ S # {}
  BY <1>1, FS_Subset
<1> HIDE DEF S
<1>3. Cardinality(S) > 0
  BY <1>2, Occupied
<1> QED BY <1>3 DEF SiblingIndex, S

(***************************************************************************)
(* The slots that workers get.                                             *)
(***************************************************************************)
LEMMA SlotsInUse ==
  ASSUME machine \in Machines, slots \in Sorted(machine)
  PROVE  LET n == Cardinality(DOMAIN machine) IN
         /\ n \in Nat /\ slots \in [1 .. n -> DOMAIN machine] /\ UsedCount \in 1 .. n
         /\ performance_cores_only /\ HybridTopology =>
              \A i \in 1 .. n : i <= UsedCount <=> Tier(i) = Tier(1)
         /\ ~(performance_cores_only /\ HybridTopology) => UsedCount = n
<1> DEFINE n == Cardinality(DOMAIN machine)
           T == {i \in DOMAIN slots : \A j \in 1 .. i : Tier(j) = Tier(1)}
           c == Cardinality(T)
<1>1. n \in Nat \ {0} /\ slots \in [1 .. n -> DOMAIN machine]
  BY SortedSlots
<1>2. Len(slots) = n
  BY <1>1
<1>3. \A i \in 1 .. n : Tier(i) \in 0 .. 1
  BY <1>1, KeyParts DEF Tier
<1>4. \A i, j \in 1 .. n : i <= j => Tier(i) <= Tier(j)
  <2> SUFFICES ASSUME NEW i \in 1 .. n, NEW j \in 1 .. n, i <= j PROVE Tier(i) <= Tier(j)
    OBVIOUS
  <2>1. ~(Tier(j) < Tier(i))
    BY SlotOrder, <1>1 DEF Tier
  <2> QED BY <2>1, <1>3
<1> HIDE DEF n
<1>5. T \in SUBSET (1 .. n) /\ 1 \in T
  BY <1>1
<1>6. IsFiniteSet(1 .. n) /\ Cardinality(1 .. n) = n
  BY <1>1, FS_Interval
<1>7. IsFiniteSet(T) /\ c \in Nat /\ c <= n /\ c > 0
  <2>1. 1 \in T
    BY <1>5
  <2>2. IsFiniteSet(T) /\ c <= n
    BY <1>5, <1>6, FS_Subset
  <2> HIDE DEF T
  <2> QED BY <2>1, <2>2, Occupied
<1>8. \A i \in T : i <= c
  <2> SUFFICES ASSUME NEW i \in T PROVE i <= c
    OBVIOUS
  <2>1. i \in 1 .. n
    BY <1>5
  <2>2. 1 .. i \in SUBSET T
    BY <2>1, <1>1
  <2>3. Cardinality(1 .. i) = i
    BY <2>1, <1>1, CardinalityTo
  <2> HIDE DEF T
  <2>4. Cardinality(1 .. i) <= Cardinality(T)
    BY <2>2, <1>7, FS_Subset
  <2> QED BY <2>3, <2>4
<1>9. T = 1 .. c
  <2>1. T \in SUBSET (1 .. c)
    BY <1>5, <1>7, <1>8
  <2>2. IsFiniteSet(1 .. c) /\ Cardinality(1 .. c) = c
    BY <1>7, FS_Interval
  <2> HIDE DEF T
  <2> QED BY <2>1, <2>2, FS_Subset
<1>10. PerformancePrefixCount = c
  BY DEF PerformancePrefixCount
<1>11. \A i \in 1 .. n : i \in T <=> Tier(i) = Tier(1)
  BY <1>1, <1>3, <1>4
<1> HIDE DEF c, T
<1>12. \A i \in 1 .. n : i <= c <=> Tier(i) = Tier(1)
  BY <1>7, <1>9, <1>11
<1> QED BY <1>1, <1>2, <1>7, <1>10, <1>12 DEF UsedCount, n

LEMMA OnSome ==
  ASSUME IsFiniteSet(Started), NEW cpus
  PROVE  /\ IsFiniteSet({w \in Started : cpuOf[w] \in cpus})
         /\ On(cpus) \in Nat
         /\ On(cpus) > 0 <=> \E w \in Started : cpuOf[w] \in cpus
<1> DEFINE S == {w \in Started : cpuOf[w] \in cpus}
<1>1. IsFiniteSet(S)
  <2>1. S \in SUBSET Started
    OBVIOUS
  <2> QED BY <2>1, FS_Subset
<1>2. Cardinality(S) \in Nat /\ (Cardinality(S) > 0 <=> S # {})
  <2> HIDE DEF S
  <2> QED BY <1>1, Occupied
<1> QED BY <1>1, <1>2 DEF On

\* The workers of an invariant state are numbered from 0, and finitely many.
LEMMA StartedNumbers ==
  ASSUME PlacedByNumber
  PROVE  /\ IsFiniteSet(Started) /\ Cardinality(Started) \in Nat
         /\ Started \subseteq Nat
         /\ \A w \in Nat : w \in Started <=> w < Cardinality(Started)
<1>1. PICK n \in 0 .. MaxWorkers : Started = 0 .. n - 1
  BY DEF PlacedByNumber
<1>2. n \in Nat
  BY PlacementAssumption
<1>3. IsFiniteSet(Started) /\ Cardinality(Started) = n
  BY <1>1, <1>2, FS_Interval
<1> QED BY <1>1, <1>2, <1>3

\* A slot has a worker when its place is below the number of workers.
LEMMA SlotTaken ==
  ASSUME machine \in Machines, slots \in Sorted(machine), PlacedByNumber,
         NEW i \in 1 .. Cardinality(DOMAIN machine)
  PROVE  On({slots[i]}) > 0 <=> i <= UsedCount /\ i <= Cardinality(Started)
<1> DEFINE n == Cardinality(Started)
           l == UsedCount
<1>1. l \in 1 .. Cardinality(DOMAIN machine) /\ Cardinality(DOMAIN machine) \in Nat
  BY SlotsInUse
<1>2. n \in Nat /\ IsFiniteSet(Started) /\ Started \subseteq Nat
      /\ \A w \in Nat : w \in Started <=> w < n
  BY StartedNumbers
<1>3. \A w \in Started : cpuOf[w] = slots[(w % l) + 1]
  BY DEF PlacedByNumber, CpuForWorker
<1>4. On({slots[i]}) > 0 <=> \E w \in Started : cpuOf[w] \in {slots[i]}
  BY <1>2, OnSome
<1> HIDE DEF n, l
<1>5. \A w \in Started : /\ (w % l) + 1 \in 1 .. Cardinality(DOMAIN machine)
                         /\ (w % l) + 1 <= l /\ w % l <= w /\ w % l \in Nat
                         /\ w < l => w % l = w
  <2> SUFFICES ASSUME NEW w \in Started
               PROVE  /\ w % l \in 0 .. l - 1 /\ w % l <= w
                      /\ w < l => w % l = w
    BY <1>1
  <2> QED BY <1>1, <1>2, Remainder
<1>6. ASSUME NEW w \in Started, cpuOf[w] \in {slots[i]}
      PROVE  i <= l /\ i <= n
  <2>1. slots[(w % l) + 1] = slots[i]
    BY <1>3, <1>6
  <2>2. PICK k \in 1 .. Cardinality(DOMAIN machine) : k = (w % l) + 1
    BY <1>5
  <2>3. slots[k] = slots[i]
    BY <2>1, <2>2
  <2>4. k = i
    <3>1. \A j, h \in 1 .. Cardinality(DOMAIN machine) : slots[j] = slots[h] => j = h
      BY SlotsDiffer
    <3> QED BY <3>1, <2>3
  <2>5. w \in Nat /\ w < n /\ w % l \in Nat /\ i = (w % l) + 1 /\ w % l <= w /\ i <= l
    BY <2>2, <2>4, <1>5, <1>2
  <2> QED BY <2>5, <1>2
<1>7. ASSUME i <= l, i <= n
      PROVE  \E w \in Started : cpuOf[w] \in {slots[i]}
  <2>1. i - 1 \in Nat /\ i - 1 < n /\ i - 1 < l
    BY <1>1, <1>2, <1>7
  <2>2. i - 1 \in Started /\ (i - 1) % l = i - 1
    BY <2>1, <1>2, <1>5
  <2>3. cpuOf[i - 1] = slots[i]
    BY <2>2, <1>3, <2>1
  <2> QED BY <2>2, <2>3
<1> QED BY <1>4, <1>6, <1>7 DEF n, l

(***************************************************************************)
(* What the invariant means for the machine.                               *)
(***************************************************************************)
LEMMA SpreadEvenly == PlacementInv => EvenlySpread
<1> SUFFICES ASSUME PlacementInv, NEW i \in 1 .. UsedCount, NEW j \in 1 .. UsedCount
             PROVE  On({slots[i]}) <= On({slots[j]}) + 1
  BY DEF EvenlySpread
<1>1. Cardinality(Started) \in Nat
  BY StartedNumbers DEF PlacementInv
<1>2. PICK q \in 0 .. Cardinality(Started) : \A k \in 1 .. UsedCount :
        On({slots[k]}) = q + (IF k <= Cardinality(Started) % UsedCount THEN 1 ELSE 0)
  BY DEF PlacementInv, CountedPerSlot
<1>3. On({slots[i]}) \in {q, q + 1} /\ On({slots[j]}) \in {q, q + 1}
  BY <1>1, <1>2
<1> QED BY <1>1, <1>3

\* The place of a CPU among the slots.
LEMMA HasSlot ==
  ASSUME machine \in Machines, slots \in Sorted(machine), NEW cpu \in DOMAIN machine
  PROVE  \E i \in 1 .. Cardinality(DOMAIN machine) : slots[i] = cpu
BY SortedSlots

LEMMA CoresFirst == PlacementInv => CoresBeforeSiblings
<1> SUFFICES ASSUME PlacementInv, CoresAlike,
                    NEW a \in DOMAIN machine, NEW b \in DOMAIN machine,
                    NEW c \in CpusOfCore(a) \ {a}, On({a}) > 0, On({c}) > 0,
                    PerformanceTier(machine, a) = PerformanceTier(machine, b)
             PROVE  On(CpusOfCore(b)) > 0
  BY DEF CoresBeforeSiblings
<1>1. machine \in Machines /\ slots \in Sorted(machine) /\ PlacedByNumber
  BY DEF PlacementInv
<1>2. c \in DOMAIN machine /\ c # a /\ Core(machine, c) = Core(machine, a)
  BY DEF CpusOfCore
<1>3. a \in Nat /\ c \in Nat
  BY <1>1, <1>2, KeyParts
<1>4. \E x \in {a, c} : SiblingIndex(machine, x) > 0
  <2>1. CASE a < c
    BY <2>1, <1>1, <1>2, LaterSibling
  <2>2. CASE c < a
    BY <2>2, <1>1, <1>2, LaterSibling
  <2> QED BY <2>1, <2>2, <1>3
<1>5. PICK x \in {a, c} : SiblingIndex(machine, x) > 0
  BY <1>4
<1>6. x \in DOMAIN machine /\ On({x}) > 0
      /\ PerformanceTier(machine, x) = PerformanceTier(machine, b)
  BY <1>1, <1>2, CoreIsOneTier
<1>7. PICK d \in DOMAIN machine : Core(machine, d) = Core(machine, b) /\ SiblingIndex(machine, d) = 0
  BY <1>1, CoreHasFirst
<1>8. PerformanceTier(machine, d) = PerformanceTier(machine, b)
  BY <1>1, <1>7, CoreIsOneTier
<1>9. PICK i \in 1 .. Cardinality(DOMAIN machine) : slots[i] = x
  BY <1>1, <1>6, HasSlot
<1>10. PICK j \in 1 .. Cardinality(DOMAIN machine) : slots[j] = d
  BY <1>1, HasSlot
<1>11. j < i
  BY <1>1, <1>5, <1>6, <1>7, <1>8, <1>9, <1>10, SlotOrder
<1>12. i <= UsedCount /\ i <= Cardinality(Started)
  BY <1>1, <1>6, <1>9, SlotTaken
<1>13. UsedCount \in Int /\ Cardinality(Started) \in Int /\ IsFiniteSet(Started)
  BY <1>1, SlotsInUse, StartedNumbers
<1>14. On({d}) > 0
  <2>1. j <= UsedCount /\ j <= Cardinality(Started)
    BY <1>11, <1>12, <1>13
  <2> QED BY <2>1, <1>1, <1>10, SlotTaken
<1>15. d \in CpusOfCore(b)
  BY <1>7 DEF CpusOfCore
<1>16. PICK w \in Started : cpuOf[w] \in {d}
  BY <1>13, <1>14, OnSome
<1> QED BY <1>13, <1>15, <1>16, OnSome

LEMMA FastFirst == PlacementInv => FastBeforeSlow
<1> SUFFICES ASSUME PlacementInv, NEW a \in DOMAIN machine, NEW b \in DOMAIN machine,
                    PerformanceTier(machine, a) < PerformanceTier(machine, b), On({b}) > 0
             PROVE  On({a}) > 0 /\ ~performance_cores_only
  BY DEF FastBeforeSlow
<1>1. machine \in Machines /\ slots \in Sorted(machine) /\ PlacedByNumber
  BY DEF PlacementInv
<1> DEFINE n == Cardinality(DOMAIN machine)
<1>2. PICK i \in 1 .. n : slots[i] = a
  BY <1>1, HasSlot
<1>3. PICK j \in 1 .. n : slots[j] = b
  BY <1>1, HasSlot
<1>4. i < j
  BY <1>1, <1>2, <1>3, SlotOrder
<1>5. j <= UsedCount /\ j <= Cardinality(Started)
  BY <1>1, <1>3, SlotTaken
<1>6. UsedCount \in Int /\ Cardinality(Started) \in Int /\ n \in Nat
  BY <1>1, SlotsInUse, StartedNumbers
<1>7. i <= UsedCount /\ i <= Cardinality(Started)
  BY <1>4, <1>5, <1>6
<1>8. On({a}) > 0
  BY <1>1, <1>2, <1>7, SlotTaken
<1>9. ASSUME performance_cores_only PROVE FALSE
  <2>1. slots \in [1 .. n -> DOMAIN machine] /\ Tier(i) # Tier(j)
        /\ Tier(i) \in 0 .. 1 /\ Tier(j) \in 0 .. 1
    BY <1>1, <1>2, <1>3, SlotsInUse, KeyParts DEF Tier
  <2>2. HybridTopology
    BY <2>1 DEF HybridTopology
  <2>3. Tier(i) = Tier(1) /\ Tier(j) = Tier(1)
    BY <1>1, <1>5, <1>7, <1>9, <2>2, SlotsInUse
  <2> QED BY <2>1, <2>3
<1> QED BY <1>8, <1>9

LEMMA OneEach == PlacementInv => CoreEach
<1> SUFFICES ASSUME PlacementInv, CoresAlike, Cardinality(Started) <= RecommendedMiningThreads,
                    performance_cores_only \/ ~HybridTopology, NEW cpu \in DOMAIN machine
             PROVE  On(CpusOfCore(cpu)) <= 1
  BY DEF CoreEach
<1> DEFINE n == Cardinality(Started)
           l == UsedCount
           slotsAll == 1 .. Cardinality(DOMAIN machine)
           cores == {Core(machine, slots[i]) : i \in 1 .. l}
           coreOf == [i \in slotsAll |-> Core(machine, slots[i])]
<1>1. machine \in Machines /\ slots \in Sorted(machine) /\ PlacedByNumber
  BY DEF PlacementInv
<1>2. /\ l \in slotsAll /\ Cardinality(DOMAIN machine) \in Nat
      /\ slots \in [slotsAll -> DOMAIN machine]
  BY <1>1, SlotsInUse
<1>3. n \in Nat /\ IsFiniteSet(Started) /\ Started \subseteq Nat
      /\ \A w \in Nat : w \in Started <=> w < n
  BY <1>1, StartedNumbers
<1>4. \A i \in slotsAll : i <= l <=> Tier(i) = Tier(1)
  <2>1. CASE performance_cores_only /\ HybridTopology
    BY <2>1, <1>1, SlotsInUse
  <2>2. CASE ~HybridTopology
    BY <2>2, <1>1, <1>2, SlotsInUse DEF HybridTopology
  <2> QED BY <2>1, <2>2
<1>5. PhysicalCores = Cardinality(cores) /\ n <= Cardinality(cores)
  BY DEF PhysicalCores, RecommendedMiningThreads
<1>6. IsFiniteSet(cores) /\ Cardinality(cores) \in Nat /\ Cardinality(cores) <= l
  <2>1. \A c \in cores : \E i \in 1 .. l : c = coreOf[i]
    BY <1>2
  <2>2. l \in Nat
    BY <1>2
  <2> HIDE DEF cores, coreOf, l
  <2> QED BY <2>1, <2>2, FewValues, FS_CardinalityType
<1>7. ASSUME NEW w \in Started
      PROVE  w + 1 \in slotsAll /\ w + 1 <= n /\ w + 1 <= l /\ cpuOf[w] = slots[w + 1]
  <2>1. w \in Nat /\ w < n /\ w < l
    BY <1>2, <1>3, <1>5, <1>6
  <2>2. l \in Nat /\ l > 0
    BY <1>2
  <2>3. w % l = w
    <3> HIDE DEF l
    <3> QED BY <2>1, <2>2, Remainder
  <2>4. cpuOf[w] = slots[(w % l) + 1]
    BY <1>1 DEF PlacedByNumber, CpuForWorker
  <2>5. w + 1 \in slotsAll /\ w + 1 <= n /\ w + 1 <= l
    <3> HIDE DEF n, l
    <3> QED BY <2>1, <1>2, <1>3
  <2> QED BY <2>3, <2>4, <2>5
<1>8. ASSUME NEW w \in Started, SiblingIndex(machine, slots[w + 1]) > 0
      PROVE  FALSE
  <2>1. w + 1 \in slotsAll /\ w + 1 <= n /\ w + 1 <= l /\ w \in Nat
    BY <1>3, <1>7
  <2>2. ASSUME NEW k \in 1 .. l
        PROVE  \E j \in 1 .. w : Core(machine, slots[k]) = coreOf[j]
    <3>1. k \in slotsAll /\ slots[k] \in DOMAIN machine
      BY <1>2
    <3>2. PICK d \in DOMAIN machine :
            Core(machine, d) = Core(machine, slots[k]) /\ SiblingIndex(machine, d) = 0
      BY <1>1, <3>1, CoreHasFirst
    <3>3. PICK j \in slotsAll : slots[j] = d
      BY <1>1, HasSlot
    <3>4. Tier(k) = Tier(1) /\ Tier(w + 1) = Tier(1)
      BY <1>4, <3>1, <2>1, <1>2
    <3>5. PerformanceTier(machine, slots[j]) = PerformanceTier(machine, slots[w + 1])
      BY <1>1, <3>1, <3>2, <3>3, <3>4, CoreIsOneTier DEF Tier
    <3>6. j < w + 1
      BY <1>1, <1>8, <2>1, <3>2, <3>3, <3>5, SlotOrder
    <3>7. j \in 1 .. w
      BY <3>6, <2>1, <1>2
    <3> QED BY <3>2, <3>3, <3>7
  <2>3. \A c \in cores : \E j \in 1 .. w : c = coreOf[j]
    BY <2>2
  <2>4. Cardinality(cores) <= w
    <3> HIDE DEF cores, coreOf, l
    <3> QED BY <2>1, <2>3, FewValues
  <2> HIDE DEF cores, l, n
  <2> QED BY <2>1, <2>4, <1>3, <1>5, <1>6
<1> DEFINE S == {w \in Started : cpuOf[w] \in CpusOfCore(cpu)}
<1>9. \A v, w \in S : v = w
  <2> SUFFICES ASSUME NEW v \in S, NEW w \in S, v # w PROVE FALSE
    OBVIOUS
  <2>1. /\ v \in Started /\ cpuOf[v] \in CpusOfCore(cpu)
        /\ w \in Started /\ cpuOf[w] \in CpusOfCore(cpu)
    OBVIOUS
  <2> HIDE DEF S
  <2>2. v \in Nat /\ w \in Nat
    BY <2>1, <1>3
  <2>3. /\ v + 1 \in slotsAll /\ cpuOf[v] = slots[v + 1]
        /\ w + 1 \in slotsAll /\ cpuOf[w] = slots[w + 1]
    BY <2>1, <1>7
  <2>4. slots[v + 1] # slots[w + 1]
    BY <2>2, <2>3, <1>1, SlotsDiffer
  <2>5. /\ slots[v + 1] \in DOMAIN machine /\ slots[w + 1] \in DOMAIN machine
        /\ Core(machine, slots[v + 1]) = Core(machine, slots[w + 1])
    BY <2>1, <2>3 DEF CpusOfCore
  <2>6. slots[v + 1] \in Nat /\ slots[w + 1] \in Nat
    BY <2>5, <1>1, KeyParts
  <2>7. CASE slots[v + 1] < slots[w + 1]
    BY <2>7, <2>5, <2>1, <1>1, <1>8, LaterSibling
  <2>8. CASE slots[w + 1] < slots[v + 1]
    BY <2>8, <2>5, <2>1, <1>1, <1>8, LaterSibling
  <2> QED BY <2>4, <2>6, <2>7, <2>8
<1>10. IsFiniteSet(S)
  BY <1>3, OnSome
<1>11. On(CpusOfCore(cpu)) = Cardinality(S)
  BY DEF On
<1> HIDE DEF S
<1> QED BY <1>9, <1>10, <1>11, AtMostOne

(***************************************************************************)
(* The invariant.                                                          *)
(***************************************************************************)
LEMMA PlacementInitInv == PlacementInit => PlacementInv
<1> SUFFICES ASSUME PlacementInit PROVE PlacementInv
  OBVIOUS
<1>1. machine \in Machines /\ slots \in Sorted(machine) /\ cpuOf = << >>
  BY DEF PlacementInit
<1>2. Started = {} /\ 0 .. 0 - 1 = {}
  BY <1>1 DEF Started
<1>3. PlacedByNumber
  <2>1. 0 \in 0 .. MaxWorkers /\ Started = 0 .. 0 - 1
    BY <1>2, PlacementAssumption
  <2> QED BY <2>1, <1>2 DEF PlacedByNumber
<1>4. Cardinality(Started) = 0
  BY <1>2, FS_EmptySet
<1>5. CountedPerSlot
  <2>1. UsedCount \in Nat /\ UsedCount > 0
    BY <1>1, SlotsInUse
  <2>2. 0 % UsedCount = 0
    <3> DEFINE l == UsedCount
    <3> HIDE DEF l
    <3>1. l \in Nat /\ l > 0 => 0 % l = 0
      BY Remainder
    <3> QED BY <3>1, <2>1 DEF l
  <2>3. \A cpus : On(cpus) = 0
    <3> SUFFICES ASSUME NEW cpus PROVE On(cpus) = 0
      OBVIOUS
    <3>1. {w \in Started : cpuOf[w] \in cpus} = {}
      BY <1>2
    <3> QED BY <3>1, FS_EmptySet DEF On
  <2>4. \A i \in 1 .. UsedCount :
          On({slots[i]}) = 0 + (IF i <= Cardinality(Started) % UsedCount THEN 1 ELSE 0)
    BY <1>4, <2>2, <2>3
  <2> QED BY <2>4, <1>4 DEF CountedPerSlot
<1> QED BY <1>1, <1>3, <1>5 DEF PlacementInv

LEMMA PlacementStepInv == PlacementInv /\ [StartWorker]_placementVars => PlacementInv'
<1> SUFFICES ASSUME PlacementInv, [StartWorker]_placementVars PROVE PlacementInv'
  OBVIOUS
<1>1. machine \in Machines /\ slots \in Sorted(machine) /\ PlacedByNumber /\ CountedPerSlot
  BY DEF PlacementInv
<1>2. machine' = machine /\ performance_cores_only' = performance_cores_only /\ slots' = slots
  BY DEF StartWorker, placementVars
<1>3. UsedCount' = UsedCount /\ \A w : CpuForWorker(w)' = CpuForWorker(w)
  BY <1>2 DEF UsedCount, CpuForWorker, HybridTopology, PerformancePrefixCount, Tier
<1>4. CASE UNCHANGED placementVars
  <2>1. cpuOf' = cpuOf
    BY <1>4 DEF placementVars
  <2>2. Started' = Started /\ \A cpus : On(cpus)' = On(cpus)
    BY <2>1 DEF Started, On
  <2>3. PlacedByNumber'
    BY <1>1, <1>3, <2>1, <2>2 DEF PlacedByNumber
  <2>4. CountedPerSlot'
    BY <1>1, <1>2, <1>3, <2>2 DEF CountedPerSlot
  <2> QED BY <1>1, <1>2, <2>3, <2>4 DEF PlacementInv
<1>5. CASE StartWorker
  <2> DEFINE n == Cardinality(Started)
             l == UsedCount
  <2>1. /\ n \in Nat /\ IsFiniteSet(Started) /\ Started \subseteq Nat
        /\ \A w \in Nat : w \in Started <=> w < n
    BY <1>1, StartedNumbers
  <2>2. l \in Nat /\ l > 0 /\ l \in 1 .. Cardinality(DOMAIN machine)
        /\ Cardinality(DOMAIN machine) \in Nat
    BY <1>1, SlotsInUse
  <2>3. n < MaxWorkers
        /\ cpuOf' = [w \in 0 .. n |-> IF w = n THEN CpuForWorker(w) ELSE cpuOf[w]]
    BY <1>5 DEF StartWorker
  <2>4. Started' = 0 .. n /\ Started' = Started \cup {n} /\ n \notin Started
    <3>1. DOMAIN cpuOf' = 0 .. n
      BY <2>3
    <3>2. Started' = 0 .. n
      <4> HIDE DEF n
      <4> QED BY <3>1 DEF Started
    <3> HIDE DEF n
    <3>3. n \notin Started
      BY <2>1
    <3>4. \A w : w \in 0 .. n <=> w \in Started \/ w = n
      <4>1. ASSUME NEW w \in 0 .. n PROVE w \in Started \/ w = n
        BY <2>1
      <4>2. ASSUME NEW w \in Started PROVE w \in 0 .. n
        BY <2>1
      <4>3. n \in 0 .. n
        BY <2>1
      <4> QED BY <4>1, <4>2, <4>3
    <3>5. 0 .. n = Started \cup {n}
      BY <3>4
    <3> QED BY <3>2, <3>3, <3>5
  <2>5. /\ cpuOf'[n] = CpuForWorker(n)
        /\ \A w \in Started : cpuOf'[w] = cpuOf[w]
    BY <2>1, <2>3, <2>4
  <2>6. Cardinality(Started)' = n + 1
    BY <2>1, <2>4, FS_AddElement
  <2>7. PlacedByNumber'
    <3>1. n + 1 \in 0 .. MaxWorkers /\ Started' = 0 .. (n + 1) - 1
      BY <2>1, <2>3, <2>4, PlacementAssumption
    <3>2. \A w \in Started' : cpuOf'[w] = CpuForWorker(w)'
      BY <1>1, <1>3, <2>4, <2>5 DEF PlacedByNumber
    <3> QED BY <3>1, <3>2 DEF PlacedByNumber
  <2>8. CountedPerSlot'
    <3>1. PICK q \in 0 .. n : \A i \in 1 .. l :
            On({slots[i]}) = q + (IF i <= n % l THEN 1 ELSE 0)
      BY <1>1 DEF CountedPerSlot
    <3> DEFINE r == n % l
               next == IF r = l - 1 THEN q + 1 ELSE q
    <3>2. r \in 0 .. l - 1 /\ (n + 1) % l = (IF r = l - 1 THEN 0 ELSE r + 1)
      <4> HIDE DEF n, l
      <4> QED BY <2>1, <2>2, Remainder, NextRemainder
    <3>3. ASSUME NEW i \in 1 .. l
          PROVE  On({slots[i]})' = On({slots[i]}) + (IF i = r + 1 THEN 1 ELSE 0)
      <4> DEFINE S == {w \in Started : cpuOf[w] \in {slots[i]}}
      <4>1. IsFiniteSet(S) /\ Cardinality(S) = On({slots[i]})
        BY <2>1, OnSome DEF On
      <4>2. On({slots[i]})' = Cardinality({w \in Started' : cpuOf'[w] \in {slots[i]}})
        BY <1>2 DEF On
      <4>3. i \in 1 .. Cardinality(DOMAIN machine) /\ r + 1 \in 1 .. Cardinality(DOMAIN machine)
        <5> HIDE DEF r, l
        <5> QED BY <2>2, <3>2
      <4>4. slots[r + 1] = slots[i] <=> r + 1 = i
        BY <1>1, <4>3, SlotsDiffer
      <4>5. cpuOf'[n] = slots[r + 1]
        BY <2>5 DEF CpuForWorker
      <4>6. {w \in Started' : cpuOf'[w] \in {slots[i]}} =
              IF i = r + 1 THEN S \cup {n} ELSE S
        <5> HIDE DEF n, r, l
        <5> QED BY <2>4, <2>5, <4>4, <4>5
      <4>7. n \notin S /\ Cardinality(S \cup {n}) = Cardinality(S) + 1
        <5>1. n \notin S
          BY <2>4
        <5> HIDE DEF S, n
        <5> QED BY <5>1, <4>1, FS_AddElement
      <4>8. On({slots[i]}) \in Nat
        BY <2>1, OnSome
      <4>9. On({slots[i]})' = IF i = r + 1 THEN Cardinality(S \cup {n}) ELSE Cardinality(S)
        BY <4>2, <4>6
      <4> HIDE DEF S, n, r
      <4> QED BY <4>1, <4>7, <4>8, <4>9
    <3>4. next \in 0 .. n + 1
      BY <2>1
    <3>5. ASSUME NEW i \in 1 .. l
          PROVE  On({slots[i]})' = next + (IF i <= (n + 1) % l THEN 1 ELSE 0)
      <4>1. On({slots[i]}) = q + (IF i <= r THEN 1 ELSE 0)
        BY <3>1
      <4>2. On({slots[i]})' = q + (IF i <= r THEN 1 ELSE 0) + (IF i = r + 1 THEN 1 ELSE 0)
        BY <4>1, <3>3
      <4> HIDE DEF r
      <4>3. i \in Int /\ r \in Int /\ l \in Int /\ q \in Int /\ i <= l
        BY <2>1, <2>2, <3>2
      <4> HIDE DEF l
      <4> QED BY <4>2, <4>3, <3>2
    <3> HIDE DEF next, n
    <3>6. \A i \in 1 .. UsedCount' : On({slots[i]})' =
            next + (IF i <= Cardinality(Started)' % UsedCount' THEN 1 ELSE 0)
      BY <3>5, <2>6, <1>3
    <3>7. next \in 0 .. Cardinality(Started)'
      BY <3>4, <2>6
    <3> QED BY <3>6, <3>7, <1>2 DEF CountedPerSlot
  <2> QED BY <1>1, <1>2, <2>7, <2>8 DEF PlacementInv
<1> QED BY <1>4, <1>5

THEOREM PlacementInvHolds == PlacementSpec => []PlacementInv
<1> QED BY PlacementInitInv, PlacementStepInv, PTL DEF PlacementSpec

\* pin_current_thread: however many workers there are, on whatever machine, and
\* whether or not they keep to its fast cores, they are spread evenly over the
\* CPUs and over fast ones before slow ones, and over cores before siblings where
\* the CPUs of a core are of one tier.
THEOREM AlwaysSpread == PlacementSpec => []WorkersSpread
<1>1. PlacementInv => WorkersSpread
  BY SpreadEvenly, CoresFirst, FastFirst, OneEach DEF WorkersSpread
<1> QED BY <1>1, PlacementInvHolds, PTL
=============================================================================

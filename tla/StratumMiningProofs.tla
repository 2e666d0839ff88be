------------------------- MODULE StratumMiningProofs -------------------------
(***************************************************************************)
(* StratumInv is inductive, for any number of workers, jobs and shares: a  *)
(* worker's version names its job, a share goes out under the active       *)
(* job_id only, and every share has one fate.                              *)
(***************************************************************************)
EXTENDS StratumMining, TLAPS

(***************************************************************************)
(* The queue of shares.                                                    *)
(***************************************************************************)
Elements(q) == {q[i] : i \in DOMAIN q}
NoRepeats(q) == \A i, j \in DOMAIN q : q[i] = q[j] => i = j

LEMMA Pushed ==
  ASSUME NEW q \in Seq(Share), NEW s \in Share
  PROVE  /\ Append(q, s) \in Seq(Share)
         /\ Elements(Append(q, s)) = Elements(q) \cup {s}
         /\ NoRepeats(q) /\ s \notin Elements(q) => NoRepeats(Append(q, s))
<1>1. /\ Append(q, s) \in Seq(Share) /\ DOMAIN Append(q, s) = 1 .. Len(q) + 1
      /\ DOMAIN q = 1 .. Len(q) /\ Len(q) \in Nat
      /\ \A i \in 1 .. Len(q) : Append(q, s)[i] = q[i]
      /\ Append(q, s)[Len(q) + 1] = s
  OBVIOUS
<1>2. Elements(Append(q, s)) = Elements(q) \cup {s}
  <2>1. Elements(Append(q, s)) \subseteq Elements(q) \cup {s}
    BY <1>1 DEF Elements
  <2>2. Elements(q) \subseteq Elements(Append(q, s))
    <3> SUFFICES ASSUME NEW i \in 1 .. Len(q) PROVE q[i] \in Elements(Append(q, s))
      BY <1>1 DEF Elements
    <3>1. i \in 1 .. Len(q) + 1 /\ Append(q, s)[i] = q[i]
      BY <1>1
    <3> QED BY <1>1, <3>1 DEF Elements
  <2>3. s \in Elements(Append(q, s))
    BY <1>1 DEF Elements
  <2> QED BY <2>1, <2>2, <2>3
<1>3. ASSUME NoRepeats(q), s \notin Elements(q) PROVE NoRepeats(Append(q, s))
  <2>1. \A i \in 1 .. Len(q) : q[i] # s
    BY <1>1, <1>3 DEF Elements
  <2>2. \A i, j \in 1 .. Len(q) : q[i] = q[j] => i = j
    BY <1>1, <1>3 DEF NoRepeats
  <2>3. SUFFICES ASSUME NEW i \in 1 .. Len(q) + 1, NEW j \in 1 .. Len(q) + 1,
                        Append(q, s)[i] = Append(q, s)[j]
                 PROVE  i = j
    BY <1>1 DEF NoRepeats
  <2>4. (i \in 1 .. Len(q) \/ i = Len(q) + 1) /\ (j \in 1 .. Len(q) \/ j = Len(q) + 1)
    BY <1>1
  <2> QED BY <1>1, <2>1, <2>2, <2>3, <2>4
<1> QED BY <1>1, <1>2, <1>3

LEMMA Popped ==
  ASSUME NEW q \in Seq(Share), q # << >>
  PROVE  /\ Head(q) \in Elements(q) /\ Tail(q) \in Seq(Share)
         /\ Elements(Tail(q)) \subseteq Elements(q)
         /\ NoRepeats(q) => NoRepeats(Tail(q)) /\ Head(q) \notin Elements(Tail(q))
<1>1. /\ Len(q) \in Nat \ {0} /\ DOMAIN q = 1 .. Len(q) /\ Head(q) = q[1]
      /\ Tail(q) \in Seq(Share) /\ DOMAIN Tail(q) = 1 .. Len(q) - 1
      /\ \A i \in 1 .. Len(q) - 1 : Tail(q)[i] = q[i + 1]
  OBVIOUS
<1>2. \A i \in 1 .. Len(q) - 1 : i + 1 \in 1 .. Len(q) /\ i + 1 # 1
  BY <1>1
<1>3. 1 \in 1 .. Len(q)
  BY <1>1
<1>4. Elements(Tail(q)) \subseteq Elements(q)
  BY <1>1, <1>2 DEF Elements
<1>5. ASSUME NoRepeats(q) PROVE NoRepeats(Tail(q)) /\ Head(q) \notin Elements(Tail(q))
  <2>1. \A i, j \in 1 .. Len(q) : q[i] = q[j] => i = j
    BY <1>1, <1>5 DEF NoRepeats
  <2>2. NoRepeats(Tail(q))
    <3> SUFFICES ASSUME NEW i \in 1 .. Len(q) - 1, NEW j \in 1 .. Len(q) - 1,
                        Tail(q)[i] = Tail(q)[j]
                 PROVE  i = j
      BY <1>1 DEF NoRepeats
    <3>1. q[i + 1] = q[j + 1] BY <1>1
    <3>2. i + 1 = j + 1 BY <2>1, <3>1, <1>2
    <3> QED BY <3>2
  <2>3. \A i \in 1 .. Len(q) - 1 : q[i + 1] # q[1]
    BY <2>1, <1>2, <1>3
  <2> QED BY <1>1, <2>2, <2>3 DEF Elements
<1> QED BY <1>1, <1>3, <1>4, <1>5 DEF Elements

LEMMA NoShareIsNone == NoShare \notin Share
  BY DEF NoShare, Share

LEMMA NoJobIsAJob == NoJob \in Job
<1>1. FALSE \in BOOLEAN BY Zenon
<1>2. 0 \in 0 .. MaxJobs BY StratumAssumption
<1> QED BY <1>1, <1>2 DEF NoJob, Job

\* A worker with a share in its hands has found it for a job.
LEMMA ShareTyped ==
  ASSUME StratumInv, NEW w \in Workers, pc[w] = "push"
  PROVE  ShareOf(w) \in Share
<1>1. hits[w] \in 1 .. MaxHits
  BY StratumAssumption DEF StratumInv, TypeOK, SharesHaveAnOrigin
<1>2. local_job[w] \in Job
  BY DEF StratumInv, TypeOK
<1> QED BY <1>1, <1>2 DEF ShareOf, Share, Job

\* Types.
LEMMA Typed ==
  ASSUME StratumInv, [Next]_vars
  PROVE  TypeOK'
<1> USE DEF StratumInv, TypeOK, WorkerPC, MainPC, jobVars, workerVars, mainVars, poolVars,
     userVars, Move
<1>1. ASSUME NEW w \in Workers, Top(w) PROVE TypeOK'
  BY <1>1 DEF Top
<1>2. ASSUME NEW w \in Workers, TakeJob(w) PROVE TypeOK'
  BY <1>2 DEF TakeJob, SeenVersion
<1>3. ASSUME NEW w \in Workers, WaitForJob(w) PROVE TypeOK'
  BY <1>3 DEF WaitForJob
<1>4. ASSUME NEW w \in Workers, FallAsleep(w) PROVE TypeOK'
  BY <1>4 DEF FallAsleep
<1>5. ASSUME NEW w \in Workers, SpuriousWakeup(w) PROVE TypeOK'
  BY <1>5 DEF SpuriousWakeup
<1>6. ASSUME NEW w \in Workers, LeaveHotLoop(w) PROVE TypeOK'
  BY <1>6 DEF LeaveHotLoop
<1>7. ASSUME NEW w \in Workers, Hit(w) PROVE TypeOK'
  <2>1. hits' \in [Workers -> 0 .. MaxHits]
    BY <1>7, StratumAssumption DEF Hit, MayHash
  <2> QED BY <1>7, <2>1 DEF Hit, MayHash
<1>8. ASSUME NEW w \in Workers, PushShare(w) PROVE TypeOK'
  <2>1. ShareOf(w) \in Share
    BY <1>8, ShareTyped DEF PushShare
  <2>2. pending' \in Seq(Share)
    BY <1>8, <2>1 DEF PushShare
  <2> QED BY <1>8, <2>2 DEF PushShare
<1>9. CASE LeaveLoop
  BY <1>9 DEF LeaveLoop
<1>10. ASSUME NEW id \in JobIds, NEW clean \in BOOLEAN, PollJob(id, clean) PROVE TypeOK'
  <2>1. incoming' \in Job
    BY <1>10, StratumAssumption DEF PollJob, Job
  <2> QED BY <1>10, <2>1 DEF PollJob
<1>11. CASE PollTimesOut
  BY <1>11 DEF PollTimesOut
<1>12. CASE PollFails
  BY <1>12 DEF PollFails, AfterBrokenPoll
<1>13. CASE InstallJob
  <2>1. version' \in 0 .. MaxJobs
    BY <1>13 DEF InstallJob, MainKnows, Job
  <2> QED BY <1>13, <2>1, NoJobIsAJob DEF InstallJob
<1>14. CASE ClearPending
  <2>1. \A i \in DOMAIN pending : pending[i] \in Share
    OBVIOUS
  <2>2. ledger' \subseteq [share : Share, outcome : Outcome]
    BY <1>14, <2>1 DEF ClearPending, Outcome
  <2>3. pending' \in Seq(Share)
    BY <1>14 DEF ClearPending
  <2> QED BY <1>14, <2>2, <2>3 DEF ClearPending
<1>15. CASE NotifyJob
  BY <1>15 DEF NotifyJob, WakeWorkers
<1>16. CASE PopShare
  <2>1. pending' \in Seq(Share)
    BY <1>16, Popped DEF PopShare, AfterPop
  <2>2. share' \in Share
    BY <1>16 DEF PopShare, AfterPop
  <2> QED BY <1>16, <2>1, <2>2 DEF PopShare, AfterPop
<1>17. CASE NothingToSubmit
  BY <1>17 DEF NothingToSubmit
<1>18. CASE CheckShare
  <2>1. ledger' \subseteq [share : Share, outcome : Outcome]
    BY <1>18, NoShareIsNone DEF CheckShare, IsStale, Seal, Outcome, MainKnows
  <2> QED BY <1>18, <2>1 DEF CheckShare, IsStale, Seal
<1>19. CASE SubmitFails
  <2>1. ledger' \subseteq [share : Share, outcome : Outcome]
    BY <1>19, NoShareIsNone DEF SubmitFails, Resolve, Seal, Outcome, MainKnows
  <2> QED BY <1>19, <2>1 DEF SubmitFails, Resolve, Seal
<1>20. CASE SubmitAccepted
  <2>1. ledger' \subseteq [share : Share, outcome : Outcome]
    BY <1>20, NoShareIsNone DEF SubmitAccepted, Resolve, Seal, Outcome, MainKnows
  <2> QED BY <1>20, <2>1 DEF SubmitAccepted, Resolve, Seal
<1>21. CASE SubmitRejected
  <2>1. ledger' \subseteq [share : Share, outcome : Outcome]
    BY <1>21, NoShareIsNone DEF SubmitRejected, Resolve, Seal, Outcome, MainKnows
  <2> QED BY <1>21, <2>1 DEF SubmitRejected, Resolve, Seal
<1>22. CASE SubmitMismatch
  BY <1>22 DEF SubmitMismatch
<1>23. CASE Fallback
  <2>1. PICK ok \in BOOLEAN :
          /\ prefer_alt' = FormatAfter(ok)
          /\ Resolve(IF ok THEN "accepted" ELSE "rejected")
    BY <1>23 DEF Fallback
  <2>2. prefer_alt' \in BOOLEAN
    BY <2>1, Zenon DEF FormatAfter
  <2>3. ledger' \subseteq [share : Share, outcome : Outcome]
    BY <1>23, <2>1, NoShareIsNone DEF Fallback, Resolve, Seal, Outcome, MainKnows
  <2> QED BY <1>23, <2>1, <2>2, <2>3 DEF Fallback, Resolve
<1>24. CASE QuitFlag
  <2>1. quit' \in BOOLEAN
    BY <1>24, Zenon DEF QuitFlag
  <2> QED BY <1>24, <2>1 DEF QuitFlag
<1>25. CASE QuitNotify
  BY <1>25 DEF QuitNotify, WakeWorkers
<1>26. CASE JoinWorkers
  BY <1>26 DEF JoinWorkers
<1>27. CASE Stop
  <2>1. stop' \in BOOLEAN
    BY <1>27, Zenon DEF Stop
  <2> QED BY <1>27, <2>1 DEF Stop
<1>28. CASE Pause
  <2>1. paused' \in BOOLEAN
    BY <1>28, Zenon DEF Pause
  <2> QED BY <1>28, <2>1 DEF Pause
<1>29. CASE Resume
  <2>1. paused' \in BOOLEAN
    BY <1>29, Zenon DEF Resume
  <2> QED BY <1>29, <2>1 DEF Resume
<1>30. CASE StreamBreaks
  BY <1>30 DEF StreamBreaks
<1>31. CASE UNCHANGED vars
  BY <1>31 DEF vars
<1> QED
  BY <1>1, <1>2, <1>3, <1>4, <1>5, <1>6, <1>7, <1>8, <1>9, <1>10, <1>11,
     <1>12, <1>13, <1>14, <1>15, <1>16, <1>17, <1>18, <1>19, <1>20, <1>21,
     <1>22, <1>23, <1>24, <1>25, <1>26, <1>27, <1>28, <1>29, <1>30, <1>31
  DEF Next, Main, Worker, Environment

\* The number and the job are replaced, and copied, together.
LEMMA VersionKept ==
  ASSUME StratumInv, [Next]_vars
  PROVE  VersionNamesTheJob'
<1> USE DEF StratumInv, TypeOK, VersionNamesTheJob, MainKnows, NoJob, jobVars, workerVars,
     mainVars, poolVars, userVars, Move
<1>1. ASSUME NEW w \in Workers, Top(w) PROVE VersionNamesTheJob'
  BY <1>1 DEF Top
<1>2. ASSUME NEW w \in Workers, TakeJob(w) PROVE VersionNamesTheJob'
  BY <1>2 DEF TakeJob, SeenVersion
<1>3. ASSUME NEW w \in Workers, WaitForJob(w) PROVE VersionNamesTheJob'
  BY <1>3 DEF WaitForJob
<1>4. ASSUME NEW w \in Workers, FallAsleep(w) PROVE VersionNamesTheJob'
  BY <1>4 DEF FallAsleep
<1>5. ASSUME NEW w \in Workers, SpuriousWakeup(w) PROVE VersionNamesTheJob'
  BY <1>5 DEF SpuriousWakeup
<1>6. ASSUME NEW w \in Workers, LeaveHotLoop(w) PROVE VersionNamesTheJob'
  BY <1>6 DEF LeaveHotLoop
<1>7. ASSUME NEW w \in Workers, Hit(w) PROVE VersionNamesTheJob'
  BY <1>7 DEF Hit, MayHash
<1>8. ASSUME NEW w \in Workers, PushShare(w) PROVE VersionNamesTheJob'
  BY <1>8 DEF PushShare
<1>9. CASE LeaveLoop
  BY <1>9 DEF LeaveLoop
<1>10. ASSUME NEW id \in JobIds, NEW clean \in BOOLEAN, PollJob(id, clean) PROVE VersionNamesTheJob'
  BY <1>10 DEF PollJob
<1>11. CASE PollTimesOut
  BY <1>11 DEF PollTimesOut
<1>12. CASE PollFails
  BY <1>12 DEF PollFails, AfterBrokenPoll
<1>13. CASE InstallJob
  BY <1>13 DEF InstallJob
<1>14. CASE ClearPending
  BY <1>14 DEF ClearPending
<1>15. CASE NotifyJob
  BY <1>15 DEF NotifyJob, WakeWorkers
<1>16. CASE PopShare
  BY <1>16 DEF PopShare, AfterPop
<1>17. CASE NothingToSubmit
  BY <1>17 DEF NothingToSubmit
<1>18. CASE CheckShare
  BY <1>18 DEF CheckShare, IsStale, Seal
<1>19. CASE SubmitFails
  BY <1>19 DEF SubmitFails, Resolve, Seal
<1>20. CASE SubmitAccepted
  BY <1>20 DEF SubmitAccepted, Resolve, Seal
<1>21. CASE SubmitRejected
  BY <1>21 DEF SubmitRejected, Resolve, Seal
<1>22. CASE SubmitMismatch
  BY <1>22 DEF SubmitMismatch
<1>23. CASE Fallback
  BY <1>23 DEF Fallback, FormatAfter, Resolve, Seal
<1>24. CASE QuitFlag
  BY <1>24 DEF QuitFlag
<1>25. CASE QuitNotify
  BY <1>25 DEF QuitNotify, WakeWorkers
<1>26. CASE JoinWorkers
  BY <1>26 DEF JoinWorkers
<1>27. CASE Stop
  BY <1>27 DEF Stop
<1>28. CASE Pause
  BY <1>28 DEF Pause
<1>29. CASE Resume
  BY <1>29 DEF Resume
<1>30. CASE StreamBreaks
  BY <1>30 DEF StreamBreaks
<1>31. CASE UNCHANGED vars
  BY <1>31 DEF vars
<1> QED
  BY <1>1, <1>2, <1>3, <1>4, <1>5, <1>6, <1>7, <1>8, <1>9, <1>10, <1>11,
     <1>12, <1>13, <1>14, <1>15, <1>16, <1>17, <1>18, <1>19, <1>20, <1>21,
     <1>22, <1>23, <1>24, <1>25, <1>26, <1>27, <1>28, <1>29, <1>30, <1>31
  DEF Next, Main, Worker, Environment

\* The main loop checks a share against the active job, and only it replaces that.
LEMMA MainKept ==
  ASSUME StratumInv, [Next]_vars
  PROVE  MainKnows' /\ SubmitsTheActiveJob'
<1> USE DEF StratumInv, TypeOK, SubmitsTheActiveJob, MainKnows, jobVars, workerVars, mainVars,
     poolVars, userVars, Move
<1>1. ASSUME NEW w \in Workers, Top(w) PROVE MainKnows' /\ SubmitsTheActiveJob'
  BY <1>1 DEF Top
<1>2. ASSUME NEW w \in Workers, TakeJob(w) PROVE MainKnows' /\ SubmitsTheActiveJob'
  BY <1>2 DEF TakeJob, SeenVersion
<1>3. ASSUME NEW w \in Workers, WaitForJob(w) PROVE MainKnows' /\ SubmitsTheActiveJob'
  BY <1>3 DEF WaitForJob
<1>4. ASSUME NEW w \in Workers, FallAsleep(w) PROVE MainKnows' /\ SubmitsTheActiveJob'
  BY <1>4 DEF FallAsleep
<1>5. ASSUME NEW w \in Workers, SpuriousWakeup(w) PROVE MainKnows' /\ SubmitsTheActiveJob'
  BY <1>5 DEF SpuriousWakeup
<1>6. ASSUME NEW w \in Workers, LeaveHotLoop(w) PROVE MainKnows' /\ SubmitsTheActiveJob'
  BY <1>6 DEF LeaveHotLoop
<1>7. ASSUME NEW w \in Workers, Hit(w) PROVE MainKnows' /\ SubmitsTheActiveJob'
  BY <1>7 DEF Hit, MayHash
<1>8. ASSUME NEW w \in Workers, PushShare(w) PROVE MainKnows' /\ SubmitsTheActiveJob'
  BY <1>8 DEF PushShare
<1>9. CASE LeaveLoop
  BY <1>9 DEF LeaveLoop
<1>10. ASSUME NEW id \in JobIds, NEW clean \in BOOLEAN, PollJob(id, clean)
       PROVE  MainKnows' /\ SubmitsTheActiveJob'
  BY <1>10 DEF PollJob
<1>11. CASE PollTimesOut
  BY <1>11 DEF PollTimesOut
<1>12. CASE PollFails
  BY <1>12 DEF PollFails, AfterBrokenPoll
<1>13. CASE InstallJob
  BY <1>13 DEF InstallJob
<1>14. CASE ClearPending
  BY <1>14 DEF ClearPending
<1>15. CASE NotifyJob
  BY <1>15 DEF NotifyJob, WakeWorkers
<1>16. CASE PopShare
  <2>1. share' \in Share
    BY <1>16 DEF PopShare
  <2> QED BY <1>16, <2>1, NoShareIsNone DEF PopShare, AfterPop
<1>17. CASE NothingToSubmit
  BY <1>17 DEF NothingToSubmit
<1>18. CASE CheckShare
  <2>1. version > 0
    BY <1>18 DEF CheckShare, SharesHaveAnOrigin, MainKnows
  <2> QED BY <1>18, <2>1 DEF CheckShare, IsStale, Seal
<1>19. CASE SubmitFails
  BY <1>19 DEF SubmitFails, Resolve, Seal
<1>20. CASE SubmitAccepted
  BY <1>20 DEF SubmitAccepted, Resolve, Seal
<1>21. CASE SubmitRejected
  BY <1>21 DEF SubmitRejected, Resolve, Seal
<1>22. CASE SubmitMismatch
  BY <1>22 DEF SubmitMismatch
<1>23. CASE Fallback
  BY <1>23 DEF Fallback, FormatAfter, Resolve, Seal
<1>24. CASE QuitFlag
  BY <1>24 DEF QuitFlag
<1>25. CASE QuitNotify
  BY <1>25 DEF QuitNotify, WakeWorkers
<1>26. CASE JoinWorkers
  BY <1>26 DEF JoinWorkers
<1>27. CASE Stop
  BY <1>27 DEF Stop
<1>28. CASE Pause
  BY <1>28 DEF Pause
<1>29. CASE Resume
  BY <1>29 DEF Resume
<1>30. CASE StreamBreaks
  BY <1>30 DEF StreamBreaks
<1>31. CASE UNCHANGED vars
  BY <1>31 DEF vars
<1> QED
  BY <1>1, <1>2, <1>3, <1>4, <1>5, <1>6, <1>7, <1>8, <1>9, <1>10, <1>11,
     <1>12, <1>13, <1>14, <1>15, <1>16, <1>17, <1>18, <1>19, <1>20, <1>21,
     <1>22, <1>23, <1>24, <1>25, <1>26, <1>27, <1>28, <1>29, <1>30, <1>31
  DEF Next, Main, Worker, Environment

\* There is no share before the first job.
LEMMA OriginKept ==
  ASSUME StratumInv, [Next]_vars
  PROVE  SharesHaveAnOrigin'
<1> USE DEF StratumInv, TypeOK, SharesHaveAnOrigin, VersionNamesTheJob, MainKnows, jobVars,
     workerVars, mainVars, poolVars, userVars, Move
<1>1. ASSUME NEW w \in Workers, Top(w) PROVE SharesHaveAnOrigin'
  BY <1>1 DEF Top
<1>2. ASSUME NEW w \in Workers, TakeJob(w) PROVE SharesHaveAnOrigin'
  BY <1>2 DEF TakeJob, SeenVersion
<1>3. ASSUME NEW w \in Workers, WaitForJob(w) PROVE SharesHaveAnOrigin'
  BY <1>3 DEF WaitForJob
<1>4. ASSUME NEW w \in Workers, FallAsleep(w) PROVE SharesHaveAnOrigin'
  BY <1>4 DEF FallAsleep
<1>5. ASSUME NEW w \in Workers, SpuriousWakeup(w) PROVE SharesHaveAnOrigin'
  BY <1>5 DEF SpuriousWakeup
<1>6. ASSUME NEW w \in Workers, LeaveHotLoop(w) PROVE SharesHaveAnOrigin'
  BY <1>6 DEF LeaveHotLoop
<1>7. ASSUME NEW w \in Workers, Hit(w) PROVE SharesHaveAnOrigin'
  BY <1>7 DEF Hit, MayHash
<1>8. ASSUME NEW w \in Workers, PushShare(w) PROVE SharesHaveAnOrigin'
  BY <1>8 DEF PushShare
<1>9. CASE LeaveLoop
  BY <1>9 DEF LeaveLoop
<1>10. ASSUME NEW id \in JobIds, NEW clean \in BOOLEAN, PollJob(id, clean) PROVE SharesHaveAnOrigin'
  BY <1>10 DEF PollJob
<1>11. CASE PollTimesOut
  BY <1>11 DEF PollTimesOut
<1>12. CASE PollFails
  BY <1>12 DEF PollFails, AfterBrokenPoll
<1>13. CASE InstallJob
  BY <1>13 DEF InstallJob
<1>14. CASE ClearPending
  BY <1>14 DEF ClearPending
<1>15. CASE NotifyJob
  BY <1>15 DEF NotifyJob, WakeWorkers
<1>16. CASE PopShare
  BY <1>16 DEF PopShare, AfterPop
<1>17. CASE NothingToSubmit
  BY <1>17 DEF NothingToSubmit
<1>18. CASE CheckShare
  BY <1>18 DEF CheckShare, IsStale, Seal
<1>19. CASE SubmitFails
  BY <1>19 DEF SubmitFails, Resolve, Seal
<1>20. CASE SubmitAccepted
  BY <1>20 DEF SubmitAccepted, Resolve, Seal
<1>21. CASE SubmitRejected
  BY <1>21 DEF SubmitRejected, Resolve, Seal
<1>22. CASE SubmitMismatch
  BY <1>22 DEF SubmitMismatch
<1>23. CASE Fallback
  BY <1>23 DEF Fallback, FormatAfter, Resolve, Seal
<1>24. CASE QuitFlag
  BY <1>24 DEF QuitFlag
<1>25. CASE QuitNotify
  BY <1>25 DEF QuitNotify, WakeWorkers
<1>26. CASE JoinWorkers
  BY <1>26 DEF JoinWorkers
<1>27. CASE Stop
  BY <1>27 DEF Stop
<1>28. CASE Pause
  BY <1>28 DEF Pause
<1>29. CASE Resume
  BY <1>29 DEF Resume
<1>30. CASE StreamBreaks
  BY <1>30 DEF StreamBreaks
<1>31. CASE UNCHANGED vars
  BY <1>31 DEF vars
<1> QED
  BY <1>1, <1>2, <1>3, <1>4, <1>5, <1>6, <1>7, <1>8, <1>9, <1>10, <1>11,
     <1>12, <1>13, <1>14, <1>15, <1>16, <1>17, <1>18, <1>19, <1>20, <1>21,
     <1>22, <1>23, <1>24, <1>25, <1>26, <1>27, <1>28, <1>29, <1>30, <1>31
  DEF Next, Main, Worker, Environment

(***************************************************************************)
(* Nobody sleeps on a job that has been replaced.                          *)
(***************************************************************************)
Heard == NoJobSleptThrough /\ LeavesOnStop

\* job_mutex is what it takes: a worker that has found no new job and is not
\* asleep yet keeps the main loop from installing one.
LEMMA HeardKept ==
  ASSUME StratumInv, Heard, [Next]_vars
  PROVE  Heard'
<1> USE DEF StratumInv, TypeOK, Heard, NoJobSleptThrough, LeavesOnStop, JobMutexFree, jobVars,
     workerVars, mainVars, poolVars, userVars, Move
<1>1. ASSUME NEW w \in Workers, Top(w) PROVE Heard'
  BY <1>1 DEF Top
<1>2. ASSUME NEW w \in Workers, TakeJob(w) PROVE Heard'
  BY <1>2 DEF TakeJob, SeenVersion
<1>3. ASSUME NEW w \in Workers, WaitForJob(w) PROVE Heard'
  BY <1>3 DEF WaitForJob
<1>4. ASSUME NEW w \in Workers, FallAsleep(w) PROVE Heard'
  BY <1>4 DEF FallAsleep
<1>5. ASSUME NEW w \in Workers, SpuriousWakeup(w) PROVE Heard'
  BY <1>5 DEF SpuriousWakeup
<1>6. ASSUME NEW w \in Workers, LeaveHotLoop(w) PROVE Heard'
  BY <1>6 DEF LeaveHotLoop
<1>7. ASSUME NEW w \in Workers, Hit(w) PROVE Heard'
  BY <1>7 DEF Hit, MayHash
<1>8. ASSUME NEW w \in Workers, PushShare(w) PROVE Heard'
  BY <1>8 DEF PushShare
<1>9. CASE LeaveLoop
  BY <1>9 DEF LeaveLoop
<1>10. ASSUME NEW id \in JobIds, NEW clean \in BOOLEAN, PollJob(id, clean) PROVE Heard'
  BY <1>10 DEF PollJob
<1>11. CASE PollTimesOut
  BY <1>11 DEF PollTimesOut
<1>12. CASE PollFails
  BY <1>12 DEF PollFails, AfterBrokenPoll
<1>13. CASE InstallJob
  BY <1>13 DEF InstallJob, JobMayInstall, WorkerPC
<1>14. CASE ClearPending
  BY <1>14 DEF ClearPending
<1>15. CASE NotifyJob
  BY <1>15 DEF NotifyJob, WakeWorkers
<1>16. CASE PopShare
  BY <1>16 DEF PopShare, AfterPop
<1>17. CASE NothingToSubmit
  BY <1>17 DEF NothingToSubmit
<1>18. CASE CheckShare
  BY <1>18 DEF CheckShare, IsStale, Seal
<1>19. CASE SubmitFails
  BY <1>19 DEF SubmitFails, Resolve, Seal
<1>20. CASE SubmitAccepted
  BY <1>20 DEF SubmitAccepted, Resolve, Seal
<1>21. CASE SubmitRejected
  BY <1>21 DEF SubmitRejected, Resolve, Seal
<1>22. CASE SubmitMismatch
  BY <1>22 DEF SubmitMismatch
<1>23. CASE Fallback
  BY <1>23 DEF Fallback, FormatAfter, Resolve, Seal
<1>24. CASE QuitFlag
  BY <1>24 DEF QuitFlag
<1>25. CASE QuitNotify
  BY <1>25 DEF QuitNotify, WakeWorkers
<1>26. CASE JoinWorkers
  BY <1>26 DEF JoinWorkers
<1>27. CASE Stop
  BY <1>27 DEF Stop
<1>28. CASE Pause
  BY <1>28 DEF Pause
<1>29. CASE Resume
  BY <1>29 DEF Resume
<1>30. CASE StreamBreaks
  BY <1>30 DEF StreamBreaks
<1>31. CASE UNCHANGED vars
  BY <1>31 DEF vars
<1> QED
  BY <1>1, <1>2, <1>3, <1>4, <1>5, <1>6, <1>7, <1>8, <1>9, <1>10, <1>11,
     <1>12, <1>13, <1>14, <1>15, <1>16, <1>17, <1>18, <1>19, <1>20, <1>21,
     <1>22, <1>23, <1>24, <1>25, <1>26, <1>27, <1>28, <1>29, <1>30, <1>31
  DEF Next, Main, Worker, Environment

(***************************************************************************)
(* The fates of the shares.                                                *)
(***************************************************************************)
Fates == SharesNumbered /\ EveryShareOneFate

\* A step that leaves the shares where they are.
LEMMA SharesUntouched ==
  ASSUME StratumInv, UNCHANGED <<pending, share, ledger, hits>>,
         \A w \in Workers : pc'[w] = "push" => pc[w] = "push"
  PROVE  Fates'
<1>1. Fates
  BY DEF StratumInv, Fates
<1>2. UNCHANGED <<Queued, InHand, Resolved>>
  BY DEF Queued, InHand, Resolved
<1>3. \A s \in Share : s.by \in Workers
  BY DEF Share
<1> QED BY <1>1, <1>2, <1>3 DEF Fates, SharesNumbered, EveryShareOneFate

\* A share leaves the queue, or the main loop's hands, for good.
LEMMA SharesSealed ==
  ASSUME StratumInv, NEW gone \in SUBSET (Queued \cup InHand), NEW outcome \in Outcome,
         ledger' = ledger \cup {[share |-> s, outcome |-> outcome] : s \in gone},
         Queued' \subseteq Queued \ gone, InHand' \subseteq InHand \ gone,
         NoRepeats(pending'), UNCHANGED <<hits, pc>>
  PROVE  Fates'
<1>1. SharesNumbered /\ EveryShareOneFate
  BY DEF StratumInv
<1>2. Resolved' = Resolved \cup gone
  <2>1. Resolved' = {e.share : e \in ledger} \cup
                    {e.share : e \in {[share |-> s, outcome |-> outcome] : s \in gone}}
    BY DEF Resolved
  <2>2. {e.share : e \in {[share |-> s, outcome |-> outcome] : s \in gone}} = gone
    <3>1. ASSUME NEW s \in gone
          PROVE  s \in {e.share : e \in {[share |-> t, outcome |-> outcome] : t \in gone}}
      <4>1. [share |-> s, outcome |-> outcome] \in {[share |-> t, outcome |-> outcome] : t \in gone}
        OBVIOUS
      <4>2. [share |-> s, outcome |-> outcome].share = s
        OBVIOUS
      <4> QED BY <4>1, <4>2
    <3>2. ASSUME NEW e \in {[share |-> t, outcome |-> outcome] : t \in gone}
          PROVE  e.share \in gone
      OBVIOUS
    <3> QED BY <3>1, <3>2
  <2> QED BY <2>1, <2>2 DEF Resolved
<1>3. SharesNumbered'
  <2>1. (Queued \cup InHand \cup Resolved)' \subseteq Queued \cup InHand \cup Resolved
    BY <1>2
  <2> QED BY <1>1, <2>1 DEF SharesNumbered
<1>4. \A a, b \in ledger' : a.share = b.share => a = b
  <2>1. \A a \in ledger : a.share \notin gone
    BY <1>1 DEF EveryShareOneFate, Resolved
  <2>2. \A a \in ledger' : a \notin ledger =>
          a.share \in gone /\ a = [share |-> a.share, outcome |-> outcome]
    <3> SUFFICES ASSUME NEW a \in ledger', a \notin ledger
                 PROVE  a.share \in gone /\ a = [share |-> a.share, outcome |-> outcome]
      OBVIOUS
    <3>1. PICK s \in gone : a = [share |-> s, outcome |-> outcome]
      OBVIOUS
    <3>2. a.share = s
      BY <3>1
    <3> QED BY <3>1, <3>2
  <2> QED BY <1>1, <2>1, <2>2 DEF EveryShareOneFate
<1>5. (Queued' \cap InHand') = {} /\ (Queued' \cup InHand') \cap Resolved' = {}
  BY <1>1, <1>2 DEF EveryShareOneFate
<1>6. \A i, j \in DOMAIN pending' : pending'[i] = pending'[j] => i = j
  BY DEF NoRepeats
<1> QED BY <1>3, <1>4, <1>5, <1>6 DEF Fates, EveryShareOneFate

\* The main loop is done with the share in its hands.
LEMMA HandSealed ==
  ASSUME StratumInv, share # NoShare, NEW outcome \in Outcome,
         Seal(share, outcome), share' = NoShare, UNCHANGED <<pending, hits, pc>>
  PROVE  Fates'
<1>1. ledger' = ledger \cup {[share |-> s, outcome |-> outcome] : s \in {share}}
  BY DEF Seal
<1>2. InHand = {share} /\ InHand' = {} /\ Queued' = Queued
  BY DEF InHand, Queued
<1>3. Queued \cap InHand = {} /\ NoRepeats(pending')
  BY DEF StratumInv, EveryShareOneFate, NoRepeats
<1>4. /\ {share} \in SUBSET (Queued \cup InHand) /\ Queued' \subseteq Queued \ {share}
      /\ InHand' \subseteq InHand \ {share}
  BY <1>2, <1>3
<1> QED BY <1>1, <1>3, <1>4, SharesSealed

\* A worker finds a share: its number is new.
LEMMA HitFates ==
  ASSUME StratumInv, NEW w \in Workers, Hit(w)
  PROVE  Fates'
<1>1. Fates /\ hits \in [Workers -> 0 .. MaxHits] /\ pc \in [Workers -> WorkerPC]
  BY DEF StratumInv, Fates, TypeOK
<1>2. UNCHANGED <<Queued, InHand, Resolved, pending, ledger>>
  BY DEF Hit, Queued, InHand, Resolved, mainVars
<1>3. /\ hits' = [hits EXCEPT ![w] = @ + 1] /\ pc' = [pc EXCEPT ![w] = "push"]
      /\ MaxHits \in Nat
  BY StratumAssumption DEF Hit, Move
<1>4. \A s \in Share : s.by \in Workers /\ s.n \in Nat
  BY StratumAssumption DEF Share
<1>5. SharesNumbered'
  <2> SUFFICES ASSUME NEW s \in Queued \cup InHand \cup Resolved
               PROVE  s \in Share /\ s.n <= hits'[s.by] /\ (pc'[s.by] = "push" => s.n < hits'[s.by])
    BY <1>2 DEF SharesNumbered
  <2>1. s \in Share /\ s.n <= hits[s.by] /\ (pc[s.by] = "push" => s.n < hits[s.by])
    BY <1>1 DEF Fates, SharesNumbered
  <2>2. s.by \in Workers /\ s.n \in Nat /\ hits[s.by] \in Nat
    BY <1>1, <1>3, <1>4, <2>1
  <2>3. CASE s.by = w
    BY <1>1, <1>3, <2>1, <2>2, <2>3
  <2>4. CASE s.by # w
    BY <1>1, <1>3, <2>1, <2>2, <2>4
  <2> QED BY <2>3, <2>4
<1> QED BY <1>1, <1>2, <1>5 DEF Fates, EveryShareOneFate

\* A worker queues its share: nobody else has it.
LEMMA PushFates ==
  ASSUME StratumInv, NEW w \in Workers, PushShare(w)
  PROVE  Fates'
<1> DEFINE new == ShareOf(w)
<1>1. Fates /\ pending \in Seq(Share) /\ pc \in [Workers -> WorkerPC]
  BY DEF StratumInv, Fates, TypeOK
<1>2. new \in Share /\ new.by = w /\ new.n = hits[w]
  BY ShareTyped DEF PushShare, ShareOf
<1>3. /\ pc[w] = "push" /\ pc' = [pc EXCEPT ![w] = "hot"] /\ hits' = hits
      /\ pending' = Append(pending, new) /\ ledger' = ledger /\ share' = share
  BY DEF PushShare, Move, mainVars
<1>4. hits[w] \in Nat
  BY StratumAssumption DEF StratumInv, TypeOK
<1> HIDE DEF new
<1>5. new \notin Queued \cup InHand \cup Resolved
  BY <1>1, <1>2, <1>3, <1>4 DEF Fates, SharesNumbered
<1>6. Queued' = Queued \cup {new} /\ NoRepeats(pending')
  <2>1. Queued = Elements(pending) /\ Queued' = Elements(pending')
    BY DEF Queued, Elements
  <2>2. NoRepeats(pending)
    BY <1>1 DEF Fates, EveryShareOneFate, NoRepeats
  <2> QED BY <1>1, <1>2, <1>3, <1>5, <2>1, <2>2, Pushed
<1>7. UNCHANGED <<InHand, Resolved>>
  BY <1>3 DEF InHand, Resolved
<1>8. SharesNumbered'
  <2> SUFFICES ASSUME NEW s \in Queued \cup {new} \cup InHand \cup Resolved
               PROVE  s \in Share /\ s.n <= hits'[s.by] /\ (pc'[s.by] = "push" => s.n < hits'[s.by])
    BY <1>6, <1>7 DEF SharesNumbered
  <2>1. CASE s = new
    BY <1>1, <1>2, <1>3, <1>4, <2>1
  <2>2. CASE s # new
    <3>1. s \in Share /\ s.n <= hits[s.by] /\ (pc[s.by] = "push" => s.n < hits[s.by])
      BY <1>1, <2>2 DEF Fates, SharesNumbered
    <3> QED BY <1>1, <1>3, <3>1
  <2> QED BY <2>1, <2>2
<1>9. EveryShareOneFate'
  BY <1>1, <1>3, <1>5, <1>6, <1>7 DEF Fates, EveryShareOneFate, NoRepeats
<1> QED BY <1>8, <1>9 DEF Fates

\* The queue hands its first share to the main loop, or is emptied.
LEMMA PopFates ==
  ASSUME StratumInv, PopShare
  PROVE  Fates'
<1>1. /\ Fates /\ pending \in Seq(Share) /\ pending # << >> /\ share = NoShare
  BY DEF StratumInv, Fates, TypeOK, PopShare, MainKnows
<1>2. /\ share' = Head(pending) /\ pending' = Tail(pending)
      /\ UNCHANGED <<hits, pc, ledger>>
  BY DEF PopShare, AfterPop, workerVars
<1>3. Queued = Elements(pending) /\ Queued' = Elements(pending') /\ NoRepeats(pending)
  BY <1>1 DEF Queued, Elements, Fates, EveryShareOneFate, NoRepeats
<1>4. /\ Head(pending) \in Queued /\ Queued' \subseteq Queued /\ Head(pending) \notin Queued'
      /\ NoRepeats(pending')
  BY <1>1, <1>2, <1>3, Popped
<1>5. InHand' \subseteq {Head(pending)} /\ Resolved' = Resolved
  BY <1>2 DEF InHand, Resolved
<1>6. SharesNumbered'
  <2>1. (Queued \cup InHand \cup Resolved)' \subseteq Queued \cup InHand \cup Resolved
    BY <1>4, <1>5
  <2> QED BY <1>1, <1>2, <2>1 DEF Fates, SharesNumbered
<1>7. EveryShareOneFate'
  BY <1>1, <1>2, <1>4, <1>5 DEF Fates, EveryShareOneFate, NoRepeats
<1> QED BY <1>6, <1>7 DEF Fates

LEMMA ClearFates ==
  ASSUME StratumInv, ClearPending
  PROVE  Fates'
<1>1. /\ pending' = << >> /\ UNCHANGED <<hits, pc, share>>
      /\ ledger' = ledger \cup
           {[share |-> pending[i], outcome |-> "clean"] : i \in DOMAIN pending}
  BY DEF ClearPending, workerVars
<1>2. {[share |-> pending[i], outcome |-> "clean"] : i \in DOMAIN pending}
        = {[share |-> s, outcome |-> "clean"] : s \in Queued}
  BY DEF Queued
<1>3. Queued' = {} /\ NoRepeats(pending') /\ InHand' = InHand
  BY <1>1 DEF Queued, NoRepeats, InHand
<1>4. Queued \cap InHand = {} /\ "clean" \in Outcome
  BY DEF StratumInv, EveryShareOneFate, Outcome
<1>5. /\ Queued \in SUBSET (Queued \cup InHand) /\ Queued' \subseteq Queued \ Queued
      /\ InHand' \subseteq InHand \ Queued
  BY <1>3, <1>4
<1> QED BY <1>1, <1>2, <1>3, <1>4, <1>5, SharesSealed

\* Every step leaves every share with one fate.
LEMMA FatesKept ==
  ASSUME StratumInv, [Next]_vars
  PROVE  Fates'
<1> USE DEF StratumInv, TypeOK, jobVars, workerVars, mainVars, poolVars, userVars, Move
<1>1. ASSUME NEW w \in Workers, Top(w) PROVE Fates'
  BY <1>1, SharesUntouched DEF Top
<1>2. ASSUME NEW w \in Workers, TakeJob(w) PROVE Fates'
  BY <1>2, SharesUntouched DEF TakeJob, SeenVersion
<1>3. ASSUME NEW w \in Workers, WaitForJob(w) PROVE Fates'
  BY <1>3, SharesUntouched DEF WaitForJob
<1>4. ASSUME NEW w \in Workers, FallAsleep(w) PROVE Fates'
  BY <1>4, SharesUntouched DEF FallAsleep
<1>5. ASSUME NEW w \in Workers, SpuriousWakeup(w) PROVE Fates'
  BY <1>5, SharesUntouched DEF SpuriousWakeup
<1>6. ASSUME NEW w \in Workers, LeaveHotLoop(w) PROVE Fates'
  BY <1>6, SharesUntouched DEF LeaveHotLoop
<1>7. ASSUME NEW w \in Workers, Hit(w) PROVE Fates'
  BY <1>7, HitFates
<1>8. ASSUME NEW w \in Workers, PushShare(w) PROVE Fates'
  BY <1>8, PushFates
<1>9. CASE LeaveLoop
  BY <1>9, SharesUntouched DEF LeaveLoop
<1>10. ASSUME NEW id \in JobIds, NEW clean \in BOOLEAN, PollJob(id, clean) PROVE Fates'
  BY <1>10, SharesUntouched DEF PollJob
<1>11. CASE PollTimesOut
  BY <1>11, SharesUntouched DEF PollTimesOut
<1>12. CASE PollFails
  BY <1>12, SharesUntouched DEF PollFails, AfterBrokenPoll
<1>13. CASE InstallJob
  BY <1>13, SharesUntouched DEF InstallJob
<1>14. CASE ClearPending
  BY <1>14, ClearFates
<1>15. CASE NotifyJob
  BY <1>15, SharesUntouched DEF NotifyJob, WakeWorkers
<1>16. CASE PopShare
  BY <1>16, PopFates
<1>17. CASE NothingToSubmit
  BY <1>17, SharesUntouched DEF NothingToSubmit
<1>18. CASE CheckShare
  <2>1. CASE IsStale(share)
    BY <1>18, <2>1, HandSealed DEF CheckShare, MainKnows, Outcome
  <2>2. CASE ~IsStale(share)
    BY <1>18, <2>2, SharesUntouched DEF CheckShare
  <2> QED BY <2>1, <2>2
<1>19. CASE SubmitFails
  BY <1>19, HandSealed DEF SubmitFails, Resolve, MainKnows, Outcome
<1>20. CASE SubmitAccepted
  BY <1>20, HandSealed DEF SubmitAccepted, Resolve, MainKnows, Outcome
<1>21. CASE SubmitRejected
  BY <1>21, HandSealed DEF SubmitRejected, Resolve, MainKnows, Outcome
<1>22. CASE SubmitMismatch
  BY <1>22, SharesUntouched DEF SubmitMismatch
<1>23. CASE Fallback
  <2>1. PICK ok \in BOOLEAN : Resolve(IF ok THEN "accepted" ELSE "rejected")
    BY <1>23 DEF Fallback
  <2> DEFINE outcome == IF ok THEN "accepted" ELSE "rejected"
  <2>2. outcome \in Outcome
    BY DEF Outcome
  <2>3. Seal(share, outcome) /\ share' = NoShare
    BY <2>1 DEF Resolve
  <2> HIDE DEF outcome
  <2> QED BY <1>23, <2>2, <2>3, HandSealed DEF Fallback, MainKnows
<1>24. CASE QuitFlag
  BY <1>24, SharesUntouched DEF QuitFlag
<1>25. CASE QuitNotify
  BY <1>25, SharesUntouched DEF QuitNotify, WakeWorkers
<1>26. CASE JoinWorkers
  BY <1>26, SharesUntouched DEF JoinWorkers
<1>27. CASE Stop
  BY <1>27, SharesUntouched DEF Stop
<1>28. CASE Pause
  BY <1>28, SharesUntouched DEF Pause
<1>29. CASE Resume
  BY <1>29, SharesUntouched DEF Resume
<1>30. CASE StreamBreaks
  BY <1>30, SharesUntouched DEF StreamBreaks
<1>31. CASE UNCHANGED vars
  BY <1>31, SharesUntouched DEF vars
<1> QED
  BY <1>1, <1>2, <1>3, <1>4, <1>5, <1>6, <1>7, <1>8, <1>9, <1>10, <1>11,
     <1>12, <1>13, <1>14, <1>15, <1>16, <1>17, <1>18, <1>19, <1>20, <1>21,
     <1>22, <1>23, <1>24, <1>25, <1>26, <1>27, <1>28, <1>29, <1>30, <1>31
  DEF Next, Main, Worker, Environment

(***************************************************************************)
(* The theorems.                                                           *)
(***************************************************************************)
LEMMA InitEstablishes == Init => StratumInv
<1> SUFFICES ASSUME Init PROVE StratumInv OBVIOUS
<1>1. TypeOK
  <2>1. /\ stop \in BOOLEAN /\ paused \in BOOLEAN /\ quit \in BOOLEAN
        /\ prefer_alt \in BOOLEAN /\ pool_alt \in BOOLEAN
    BY Zenon DEF Init
  <2>2. version \in 0 .. MaxJobs /\ active_job \in Job /\ incoming \in Job
    BY NoJobIsAJob, StratumAssumption DEF Init
  <2>3. /\ pending \in Seq(Share) /\ share \in Share \cup {NoShare}
        /\ ledger \subseteq [share : Share, outcome : Outcome]
        /\ mpc \in MainPC /\ stream \in {"up", "broken"}
    BY DEF Init, MainPC
  <2>4. /\ pc \in [Workers -> WorkerPC]
        /\ observed \in [Workers -> 0 .. MaxJobs] /\ hits \in [Workers -> 0 .. MaxHits]
        /\ local_job \in [Workers -> Job]
    BY NoJobIsAJob, StratumAssumption DEF Init, WorkerPC
  <2> QED BY <2>1, <2>2, <2>3, <2>4 DEF TypeOK
<1>2. MainKnows /\ SubmitsTheActiveJob /\ VersionNamesTheJob
  BY DEF Init, MainKnows, SubmitsTheActiveJob, VersionNamesTheJob, NoJob
<1>3. SharesHaveAnOrigin
  BY DEF Init, SharesHaveAnOrigin
<1>4. Queued = {} /\ InHand = {} /\ Resolved = {} /\ DOMAIN pending = {} /\ ledger = {}
  BY DEF Init, Queued, InHand, Resolved
<1>5. SharesNumbered /\ EveryShareOneFate
  BY <1>4 DEF SharesNumbered, EveryShareOneFate
<1> QED BY <1>1, <1>2, <1>3, <1>5 DEF StratumInv

\* run_pool_stratum keeps its invariant, with any number of workers.
THEOREM StratumInvHolds == Spec => []StratumInv
<1>1. StratumInv /\ [Next]_vars => StratumInv'
  BY Typed, VersionKept, MainKept, OriginKept, FatesKept DEF StratumInv, Fates
<1> QED
  BY InitEstablishes, <1>1, PTL DEF Spec

\* No share goes to the pool under a job_id that is no longer active.
THEOREM AlwaysTheActiveJob == Spec => []SubmitsTheActiveJob
<1>1. StratumInv => SubmitsTheActiveJob BY DEF StratumInv
<1> QED BY <1>1, StratumInvHolds, PTL

\* No share is queued twice, submitted twice, or both submitted and dropped.
THEOREM OneFateForEveryShare == Spec => []EveryShareOneFate
<1>1. StratumInv => EveryShareOneFate BY DEF StratumInv
<1> QED BY <1>1, StratumInvHolds, PTL

\* No worker hashes one job under the version of another.
THEOREM VersionAlwaysNamesTheJob == Spec => []VersionNamesTheJob
<1>1. StratumInv => VersionNamesTheJob BY DEF StratumInv
<1> QED BY <1>1, StratumInvHolds, PTL

\* No worker sleeps through a change of job: when it is not on the active job
\* it is awake, gone because of a stop, or about to be notified.
THEOREM NoJobIsSleptThrough == Spec => []NoJobSleptThrough
<1>1. Init => Heard
  BY DEF Init, Heard, NoJobSleptThrough, LeavesOnStop
<1>2. StratumInv /\ Heard /\ [Next]_vars => Heard'
  BY HeardKept
<1>3. Heard => NoJobSleptThrough
  BY DEF Heard
<1> QED BY <1>1, <1>2, <1>3, StratumInvHolds, PTL DEF Spec

\* Once the format of the nonce is right it stays right.
THEOREM FormatStaysRight == Spec => FormatSettles
<1>1. [Next]_vars => [prefer_alt = pool_alt => prefer_alt' = prefer_alt]_vars
  <2> SUFFICES ASSUME Next, prefer_alt = pool_alt
               PROVE  prefer_alt' = prefer_alt
    OBVIOUS
  <2>1. CASE Fallback
    BY <2>1 DEF Fallback, FormatAfter
  <2>2. CASE ~Fallback
    BY <2>2 DEF Next, Main, Worker, Environment, mainVars, Top, TakeJob, WaitForJob,
       FallAsleep, SpuriousWakeup, LeaveHotLoop, Hit, PushShare, LeaveLoop, PollJob,
       PollTimesOut, PollFails, InstallJob, ClearPending, NotifyJob, PopShare,
       NothingToSubmit, CheckShare, SubmitFails, SubmitAccepted, SubmitRejected,
       SubmitMismatch, QuitFlag, QuitNotify, JoinWorkers, Stop, Pause, Resume, StreamBreaks
  <2> QED BY <2>1, <2>2
<1> QED
  BY <1>1, PTL DEF Spec, FormatSettles
=============================================================================

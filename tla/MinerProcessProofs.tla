-------------------------- MODULE MinerProcessProofs --------------------------
(***************************************************************************)
(* ProcessInv is inductive, for any number of workers, dataset items and   *)
(* init threads and any machine.  The properties of MinerProcess and of    *)
(* RandomXRuntime, liveness apart, follow from it.                         *)
(***************************************************************************)
EXTENDS MinerProcess, Integers, TLAPS

(***************************************************************************)
(* The chunks of try_init_randomx_once partition the dataset.              *)
(***************************************************************************)
LEMMA Division ==
  ASSUME NEW a \in Nat, NEW b \in Nat \ {0}
  PROVE  /\ a \div b \in Nat
         /\ b * (a \div b) <= a
         /\ a < b * (a \div b) + b
OBVIOUS

LEMMA ChunkSize == Chunk \in Nat \ {0} /\ Items <= Chunk * InitThreads
<1> DEFINE total == Items + InitThreads - 1
<1>1. total \in Nat /\ InitThreads \in Nat \ {0} /\ Items \in Nat \ {0}
  BY RandomXAssumption
<1>2. /\ total \div InitThreads \in Nat
      /\ total < InitThreads * (total \div InitThreads) + InitThreads
  BY <1>1, Division
<1>3. Chunk \in Nat /\ total < InitThreads * Chunk + InitThreads
  BY <1>2 DEF Chunk
<1>4. InitThreads * Chunk = Chunk * InitThreads /\ Chunk * InitThreads \in Nat
  BY <1>1, <1>3
<1>5. Items <= Chunk * InitThreads
  BY <1>1, <1>3, <1>4
<1>6. Chunk # 0
  BY <1>1, <1>3, <1>5
<1> QED BY <1>3, <1>5, <1>6

LEMMA Multiples ==
  ASSUME NEW c \in Nat, NEW i \in Nat, NEW j \in Nat, i < j
  PROVE  c * i + c <= c * j
<1>1. PICK d \in Nat : j = i + 1 + d
  BY i + 1 + (j - i - 1) = j, j - i - 1 \in Nat
<1>2. c * j = c * i + c + c * d /\ c * d \in Nat
  BY <1>1
<1> QED BY <1>2

LEMMA ChunkMembers ==
  ASSUME NEW i \in Threads, NEW k \in ItemIds
  PROVE  k \in Filled(i) <=> Chunk * i <= k /\ k < Chunk * i + Chunk
<1>1. Chunk \in Nat /\ i \in Nat /\ k \in Nat /\ Items \in Nat /\ k < Items
  BY ChunkSize, RandomXAssumption DEF Threads, ItemIds
<1>2. Chunk * i \in Nat
  BY <1>1
<1> QED BY <1>1, <1>2 DEF Filled, Least

LEMMA ChunksDisjoint ==
  ASSUME NEW i \in Threads, NEW j \in Threads, i # j,
         NEW k \in ItemIds, k \in Filled(i)
  PROVE  k \notin Filled(j)
<1>1. Chunk \in Nat /\ i \in Nat /\ j \in Nat /\ k \in Nat
  BY ChunkSize, RandomXAssumption DEF Threads, ItemIds
<1>2. Chunk * i \in Nat /\ Chunk * j \in Nat
  BY <1>1
<1>3. i < j => Chunk * i + Chunk <= Chunk * j
  BY <1>1, Multiples
<1>4. j < i => Chunk * j + Chunk <= Chunk * i
  BY <1>1, Multiples
<1> QED BY <1>1, <1>2, <1>3, <1>4, ChunkMembers

LEMMA ChunksCover ==
  ASSUME NEW k \in ItemIds
  PROVE  \E i \in Threads : Chunk * i < Items /\ k \in Filled(i)
<1> DEFINE i == k \div Chunk
<1>1. /\ Chunk \in Nat \ {0} /\ Items <= Chunk * InitThreads
      /\ InitThreads \in Nat /\ Items \in Nat /\ k \in Nat /\ k < Items
  BY ChunkSize, RandomXAssumption DEF ItemIds
<1>2. i \in Nat /\ Chunk * i <= k /\ k < Chunk * i + Chunk
  BY <1>1, Division
<1> HIDE DEF i
<1>3. Chunk * i \in Nat /\ Chunk * InitThreads \in Nat
  BY <1>1, <1>2
<1>4. i < InitThreads
  <2>1. InitThreads < i => Chunk * InitThreads + Chunk <= Chunk * i
    BY <1>1, <1>2, Multiples
  <2>2. InitThreads = i => Chunk * InitThreads = Chunk * i
    OBVIOUS
  <2> QED BY <1>1, <1>2, <1>3, <2>1, <2>2
<1>5. i \in Threads
  BY <1>1, <1>2, <1>4 DEF Threads
<1> QED BY <1>1, <1>2, <1>3, <1>5, ChunkMembers

(***************************************************************************)
(* A step of init_randomx_internal.                                        *)
(***************************************************************************)
LEMMA InitializeStep ==
  ASSUME RxInv, Initialize
  PROVE  RxInv'
<1> USE RandomXAssumption
<1> USE DEF RxInv, RxTypeOK, Options, Held, machineVars, memoryVars, stateVars
<1>1. CASE ComputeFlags
  <2>1. Granted' = Granted /\ Granted \subseteq Options
    BY <1>1 DEF ComputeFlags, Granted
  <2> QED BY <1>1, <2>1 DEF ComputeFlags
<1>2. CASE CacheFails
  BY <1>2 DEF CacheFails, Works, Granted
<1>3. CASE AllocCache
  BY <1>3 DEF AllocCache, Works, Granted
<1>4. CASE DatasetFails
  BY <1>4 DEF DatasetFails, ReleasedCaches, Works, Granted
<1>5. CASE AllocDataset
  <2>1. /\ chunks' = {i \in Threads : Chunk * i < Items}
        /\ times' = [k \in ItemIds |-> 0]
    BY <1>5 DEF AllocDataset
  <2>2. \A k \in ItemIds :
          times'[k] = IF \E i \in chunks' : k \in Filled(i) THEN 0 ELSE 1
    BY <2>1, ChunksCover
  <2>3. chunks' \subseteq Threads /\ times' \in [ItemIds -> Nat]
    BY <2>1
  <2> HIDE DEF Filled
  <2> QED BY <1>5, <2>2, <2>3 DEF AllocDataset, Works, Granted
<1>6. ASSUME NEW i \in Threads, FillChunk(i) PROVE RxInv'
  <2>1. /\ chunks' = chunks \ {i} /\ i \in chunks
        /\ times' = [k \in ItemIds |-> IF k \in Filled(i) THEN times[k] + 1 ELSE times[k]]
        /\ rxpc = "fill"
    BY <1>6 DEF FillChunk
  <2>2. ASSUME NEW k \in ItemIds
        PROVE  times'[k] = IF \E j \in chunks' : k \in Filled(j) THEN 0 ELSE 1
    <3>1. times[k] = IF \E j \in chunks : k \in Filled(j) THEN 0 ELSE 1
      BY <2>1
    <3>2. CASE k \in Filled(i)
      <4>1. \A j \in chunks' : k \notin Filled(j)
        BY <2>1, <3>2, ChunksDisjoint
      <4> QED BY <2>1, <3>1, <3>2, <4>1
    <3>3. CASE k \notin Filled(i)
      BY <2>1, <3>1, <3>3
    <3> QED BY <3>2, <3>3
  <2>3. chunks' \subseteq Threads /\ times' \in [ItemIds -> Nat]
    BY <2>1
  <2> QED BY <1>6, <2>2, <2>3 DEF FillChunk, Works, Granted
<1>7. CASE JoinFillers
  BY <1>7 DEF JoinFillers, Works, Granted
<1>8. CASE Publish
  BY <1>8 DEF Publish, Works, Granted
<1>9. CASE FallBack
  <2>1. PICK r \in 1 .. 4 :
          /\ Rungs[r] \in wanted
          /\ \A q \in 1 .. r - 1 : Rungs[q] \notin wanted
          /\ wanted' = wanted \ Dropped(Rungs[r])
    BY <1>9 DEF FallBack
  <2>2. wanted' \subseteq Options
    BY <2>1
  <2>3. ASSUME bad \subseteq {"large"}
        PROVE  wanted' = Granted \ bad
    <3>1. "large" \in bad /\ "large" \in wanted
      <4>1. ~ Works(wanted)
        BY <1>9 DEF FallBack
      <4> QED BY <2>3, <4>1 DEF Works
    <3>2. wanted \in {Granted, Granted \ bad}
      BY <1>9, <2>3 DEF FallBack
    <3>3. wanted = Granted
      BY <3>1, <3>2, Zenon
    <3>4. r = 1
      BY <2>1, <3>1 DEF Rungs
    <3>5. wanted' = wanted \ {"large"}
      BY <2>1, <3>4 DEF Rungs, Dropped
    <3>6. \A o : o \in bad <=> o = "large"
      BY <2>3, <3>1
    <3> QED BY <3>3, <3>5, <3>6
  <2>4. Granted' = Granted
    BY <1>9 DEF FallBack, Granted
  <2> HIDE DEF Options
  <2> QED BY <1>9, <2>2, <2>3, <2>4 DEF FallBack
<1>10. CASE InitThrows
  BY <1>10 DEF InitThrows, Works, Granted
<1> QED BY <1>1, <1>2, <1>3, <1>4, <1>5, <1>6, <1>7, <1>8, <1>9, <1>10 DEF Initialize

\* The runtime is as it was.
LEMMA RuntimeUnchanged ==
  ASSUME RxInv, UNCHANGED rxVars
  PROVE  RxInv'
BY DEF RxInv, RxTypeOK, rxVars, machineVars, memoryVars, stateVars, Works, Granted

\* A thread makes a VM, or takes its VM with it.
LEMMA VmStep ==
  ASSUME RxInv, vm' \in [Hashers -> (SUBSET Options) \cup {NoVm}],
         UNCHANGED <<machineVars, rxpc, wanted, memoryVars, stateVars>>
  PROVE  RxInv'
BY DEF RxInv, RxTypeOK, machineVars, memoryVars, stateVars, Works, Granted

LEMMA ReleaseStep ==
  ASSUME RxInv, rxpc = "ready", ReleaseState
  PROVE  RxInv'
BY DEF RxInv, RxTypeOK, ReleaseState, machineVars, memoryVars, Works, Granted
(* PROCESS *)

\* Which threads there are: births come before, joins after, in main's order.
LEMMA ThreadsStep ==
  ASSUME ProcessInv, Next
  PROVE  ThreadsInv'
<1> USE ProcessAssumption
<1> USE DEF ProcessInv, TypeOK, ThreadsInv, UiPC, WalletPC, PoolPC, NoKeysPC, MainPC,
           Main, Go, Ends, Steps, Over,
           procVars, mainVars, flagVars, sideVars, keyVars, sigVars
<1>1. CASE StartUp
  BY <1>1 DEF StartUp
<1>2. CASE StartHotkeys
  BY <1>2 DEF StartHotkeys
<1>3. CASE InitializeHashing
  BY <1>3 DEF InitializeHashing
<1>4. CASE StartUi
  BY <1>4 DEF StartUi
<1>5. CASE StartWallet
  BY <1>5 DEF StartWallet
<1>6. CASE StartWorkers
  BY <1>6 DEF StartWorkers
<1>7. CASE ModeForks
  BY <1>7 DEF ModeForks
<1>8. CASE ModeReturns
  BY <1>8 DEF ModeReturns
<1>9. CASE ModeThrows
  BY <1>9 DEF ModeThrows
<1>10. CASE ShutdownUi
  BY <1>10 DEF ShutdownUi
<1>11. CASE JoinWorkers
  BY <1>11 DEF JoinWorkers, WorkersJoined
<1>12. CASE JoinWallet
  BY <1>12 DEF JoinWallet
<1>13. CASE JoinUi
  BY <1>13 DEF JoinUi
<1>14. CASE ShutdownHashing
  BY <1>14 DEF ShutdownHashing, ReleaseState
<1>15. CASE RunReturned
  BY <1>15 DEF RunReturned, ForgetMiner
<1>16. CASE StopWatcher
  BY <1>16 DEF StopWatcher
<1>17. CASE JoinWatcher
  BY <1>17 DEF JoinWatcher, RestoreTerminal
<1>18. CASE DestroyMiner
  BY <1>18 DEF DestroyMiner
<1>19. CASE LeaveMain
  BY <1>19 DEF LeaveMain
<1>20. CASE UiEnds
  BY <1>20 DEF UiEnds
<1>21. CASE WalletTop
  BY <1>21 DEF WalletTop
<1>22. CASE WalletAnswered
  BY <1>22 DEF WalletAnswered
<1>23. CASE KeyPressed
  BY <1>23 DEF KeyPressed
<1>24. CASE WatcherEnds
  BY <1>24 DEF WatcherEnds
<1>25. CASE HandleKey
  BY <1>25 DEF HandleKey
<1>26. CASE TriggerStop
  BY <1>26 DEF TriggerStop
<1>27. CASE HardExit
  BY <1>27 DEF HardExit, RestoreTerminal
<1>28. CASE HandlerChecks
  BY <1>28 DEF HandlerChecks
<1>29. CASE HandlerStops
  BY <1>29 DEF HandlerStops
<1>30. ASSUME NEW h \in Hashers, HashOne(h)
      PROVE  ThreadsInv'
  BY <1>30 DEF HashOne, Hash
<1>31. ASSUME NEW h \in Hashers, EndThread(h)
      PROVE  ThreadsInv'
  BY <1>31 DEF EndThread, DestroyVm
<1>32. ASSUME NEW t \in Hashers \cup {"main", "ui", "wallet", "watcher"}, Signal(t)
      PROVE  ThreadsInv'
  BY <1>32 DEF Signal
<1> QED
  BY <1>1, <1>2, <1>3, <1>4, <1>5, <1>6, <1>7, <1>8, <1>9, <1>10,
     <1>11, <1>12, <1>13, <1>14, <1>15, <1>16, <1>17, <1>18, <1>19, <1>20,
     <1>21, <1>22, <1>23, <1>24, <1>25, <1>26, <1>27, <1>28, <1>29, <1>30, <1>31, <1>32
  DEF Next, MainStep, WalletStep, WatcherStep, SignalStep, HandlerStep

\* Who may hold the miner.
LEMMA MinerStep ==
  ASSUME ProcessInv, Next
  PROVE  MinerInv'
<1> USE ProcessAssumption
<1> USE DEF ProcessInv, TypeOK, ThreadsInv, MinerInv, Alive, NoHandler, UiPC, WalletPC, PoolPC,
           NoKeysPC, MainPC, Main, Go, Ends, Steps, Over,
           procVars, mainVars, flagVars, sideVars, keyVars, sigVars
<1>1. CASE StartUp
  BY <1>1 DEF StartUp
<1>2. CASE StartHotkeys
  <2>1. /\ miner_alive' = miner_alive /\ g_miner' = g_miner
        /\ mpc \notin {"start", "leave"} /\ mpc' \notin {"start", "leave"}
    BY <1>2 DEF StartHotkeys
  <2>2. (miner_alive <=> mpc \notin {"start", "leave"})'
    BY <2>1, Zenon
  <2>3. (g_miner => miner_alive \/ (failed /\ mpc = "leave"))'
    BY <2>1, <2>2, Zenon
  <2>4. (g_miner /\ mpc \in {"stop_watcher", "join_watcher", "destroy"} => failed)'
    BY <1>2 DEF StartHotkeys
  <2>5. (handler.at # "none" => handler.on \in Alive)'
    BY <1>2 DEF StartHotkeys
  <2>6. (handler.at = "use" /\ handler.on = "main" => g_miner)'
    BY <1>2 DEF StartHotkeys
  <2> QED BY <2>2, <2>3, <2>4, <2>5, <2>6
<1>3. CASE InitializeHashing
  BY <1>3 DEF InitializeHashing
<1>4. CASE StartUi
  <2>1. /\ miner_alive' = miner_alive /\ g_miner' = g_miner
        /\ mpc \notin {"start", "leave"} /\ mpc' \notin {"start", "leave"}
    BY <1>4 DEF StartUi
  <2>2. (miner_alive <=> mpc \notin {"start", "leave"})'
    BY <2>1, Zenon
  <2>3. (g_miner => miner_alive \/ (failed /\ mpc = "leave"))'
    BY <2>1, <2>2, Zenon
  <2>4. (g_miner /\ mpc \in {"stop_watcher", "join_watcher", "destroy"} => failed)'
    BY <1>4 DEF StartUi
  <2>5. (handler.at # "none" => handler.on \in Alive)'
    BY <1>4 DEF StartUi
  <2>6. (handler.at = "use" /\ handler.on = "main" => g_miner)'
    BY <1>4 DEF StartUi
  <2> QED BY <2>2, <2>3, <2>4, <2>5, <2>6
<1>5. CASE StartWallet
  <2>1. /\ miner_alive' = miner_alive /\ g_miner' = g_miner
        /\ mpc \notin {"start", "leave"} /\ mpc' \notin {"start", "leave"}
    BY <1>5 DEF StartWallet
  <2>2. (miner_alive <=> mpc \notin {"start", "leave"})'
    BY <2>1, Zenon
  <2>3. (g_miner => miner_alive \/ (failed /\ mpc = "leave"))'
    BY <2>1, <2>2, Zenon
  <2>4. (g_miner /\ mpc \in {"stop_watcher", "join_watcher", "destroy"} => failed)'
    BY <1>5 DEF StartWallet
  <2>5. (handler.at # "none" => handler.on \in Alive)'
    BY <1>5 DEF StartWallet
  <2>6. (handler.at = "use" /\ handler.on = "main" => g_miner)'
    BY <1>5 DEF StartWallet
  <2> QED BY <2>2, <2>3, <2>4, <2>5, <2>6
<1>6. CASE StartWorkers
  <2>1. /\ miner_alive' = miner_alive /\ g_miner' = g_miner
        /\ mpc \notin {"start", "leave"} /\ mpc' \notin {"start", "leave"}
    BY <1>6 DEF StartWorkers
  <2>2. (miner_alive <=> mpc \notin {"start", "leave"})'
    BY <2>1, Zenon
  <2>3. (g_miner => miner_alive \/ (failed /\ mpc = "leave"))'
    BY <2>1, <2>2, Zenon
  <2>4. (g_miner /\ mpc \in {"stop_watcher", "join_watcher", "destroy"} => failed)'
    BY <1>6 DEF StartWorkers
  <2>5. (handler.at # "none" => handler.on \in Alive)'
    BY <1>6 DEF StartWorkers
  <2>6. (handler.at = "use" /\ handler.on = "main" => g_miner)'
    BY <1>6 DEF StartWorkers
  <2> QED BY <2>2, <2>3, <2>4, <2>5, <2>6
<1>7. CASE ModeForks
  BY <1>7 DEF ModeForks
<1>8. CASE ModeReturns
  BY <1>8 DEF ModeReturns
<1>9. CASE ModeThrows
  <2>1. /\ miner_alive' = miner_alive /\ g_miner' = g_miner
        /\ mpc \notin {"start", "leave"} /\ mpc' \notin {"start", "leave"}
    BY <1>9 DEF ModeThrows
  <2>2. (miner_alive <=> mpc \notin {"start", "leave"})'
    BY <2>1, Zenon
  <2>3. (g_miner => miner_alive \/ (failed /\ mpc = "leave"))'
    BY <2>1, <2>2, Zenon
  <2>4. (g_miner /\ mpc \in {"stop_watcher", "join_watcher", "destroy"} => failed)'
    BY <1>9 DEF ModeThrows
  <2>5. (handler.at # "none" => handler.on \in Alive)'
    BY <1>9 DEF ModeThrows
  <2>6. (handler.at = "use" /\ handler.on = "main" => g_miner)'
    BY <1>9 DEF ModeThrows
  <2> QED BY <2>2, <2>3, <2>4, <2>5, <2>6
<1>10. CASE ShutdownUi
  BY <1>10 DEF ShutdownUi
<1>11. CASE JoinWorkers
  BY <1>11 DEF JoinWorkers, WorkersJoined
<1>12. CASE JoinWallet
  BY <1>12 DEF JoinWallet
<1>13. CASE JoinUi
  BY <1>13 DEF JoinUi
<1>14. CASE ShutdownHashing
  BY <1>14 DEF ShutdownHashing, ReleaseState
<1>15. CASE RunReturned
  BY <1>15 DEF RunReturned, ForgetMiner
<1>16. CASE StopWatcher
  BY <1>16 DEF StopWatcher
<1>17. CASE JoinWatcher
  BY <1>17 DEF JoinWatcher, RestoreTerminal
<1>18. CASE DestroyMiner
  <2>2. (miner_alive <=> mpc \notin {"start", "leave"})'
    BY <1>18 DEF DestroyMiner
  <2>3. (g_miner => miner_alive \/ (failed /\ mpc = "leave"))'
    <3>1. g_miner => failed
      BY <1>18 DEF DestroyMiner
    <3>2. g_miner' = g_miner /\ failed' = failed /\ mpc' = "leave"
      BY <1>18 DEF DestroyMiner
    <3> QED BY <3>1, <3>2, Zenon
  <2>4. (g_miner /\ mpc \in {"stop_watcher", "join_watcher", "destroy"} => failed)'
    BY <1>18 DEF DestroyMiner
  <2>5. (handler.at # "none" => handler.on \in Alive)'
    BY <1>18 DEF DestroyMiner
  <2>6. (handler.at = "use" /\ handler.on = "main" => g_miner)'
    BY <1>18 DEF DestroyMiner
  <2> QED BY <2>2, <2>3, <2>4, <2>5, <2>6
<1>19. CASE LeaveMain
  BY <1>19 DEF LeaveMain
<1>20. CASE UiEnds
  BY <1>20 DEF UiEnds
<1>21. CASE WalletTop
  BY <1>21 DEF WalletTop
<1>22. CASE WalletAnswered
  BY <1>22 DEF WalletAnswered
<1>23. CASE KeyPressed
  BY <1>23 DEF KeyPressed
<1>24. CASE WatcherEnds
  BY <1>24 DEF WatcherEnds
<1>25. CASE HandleKey
  BY <1>25 DEF HandleKey
<1>26. CASE TriggerStop
  BY <1>26 DEF TriggerStop
<1>27. CASE HardExit
  BY <1>27 DEF HardExit, RestoreTerminal
<1>28. CASE HandlerChecks
  BY <1>28 DEF HandlerChecks
<1>29. CASE HandlerStops
  BY <1>29 DEF HandlerStops
<1>30. ASSUME NEW h \in Hashers, HashOne(h)
      PROVE  MinerInv'
  BY <1>30 DEF HashOne, Hash
<1>31. ASSUME NEW h \in Hashers, EndThread(h)
      PROVE  MinerInv'
  BY <1>31 DEF EndThread, DestroyVm
<1>32. ASSUME NEW t \in Hashers \cup {"main", "ui", "wallet", "watcher"}, Signal(t)
      PROVE  MinerInv'
  BY <1>32 DEF Signal
<1> QED
  BY <1>1, <1>2, <1>3, <1>4, <1>5, <1>6, <1>7, <1>8, <1>9, <1>10,
     <1>11, <1>12, <1>13, <1>14, <1>15, <1>16, <1>17, <1>18, <1>19, <1>20,
     <1>21, <1>22, <1>23, <1>24, <1>25, <1>26, <1>27, <1>28, <1>29, <1>30, <1>31, <1>32
  DEF Next, MainStep, WalletStep, WatcherStep, SignalStep, HandlerStep

\* The terminal.
LEMMA TerminalStep ==
  ASSUME ProcessInv, Next
  PROVE  TerminalInv'
<1> USE ProcessAssumption
<1> USE DEF ProcessInv, TypeOK, ThreadsInv, TerminalInv, NoKeysPC, MainPC,
           Main, Go, Ends, Steps, Over,
           procVars, mainVars, flagVars, sideVars, keyVars, sigVars
<1>1. CASE StartUp
  BY <1>1 DEF StartUp
<1>2. CASE StartHotkeys
  BY <1>2 DEF StartHotkeys
<1>3. CASE InitializeHashing
  BY <1>3 DEF InitializeHashing
<1>4. CASE StartUi
  BY <1>4 DEF StartUi
<1>5. CASE StartWallet
  BY <1>5 DEF StartWallet
<1>6. CASE StartWorkers
  BY <1>6 DEF StartWorkers
<1>7. CASE ModeForks
  BY <1>7 DEF ModeForks
<1>8. CASE ModeReturns
  BY <1>8 DEF ModeReturns
<1>9. CASE ModeThrows
  BY <1>9 DEF ModeThrows
<1>10. CASE ShutdownUi
  BY <1>10 DEF ShutdownUi
<1>11. CASE JoinWorkers
  BY <1>11 DEF JoinWorkers, WorkersJoined
<1>12. CASE JoinWallet
  BY <1>12 DEF JoinWallet
<1>13. CASE JoinUi
  BY <1>13 DEF JoinUi
<1>14. CASE ShutdownHashing
  BY <1>14 DEF ShutdownHashing, ReleaseState
<1>15. CASE RunReturned
  BY <1>15 DEF RunReturned, ForgetMiner
<1>16. CASE StopWatcher
  BY <1>16 DEF StopWatcher
<1>17. CASE JoinWatcher
  BY <1>17 DEF JoinWatcher, RestoreTerminal
<1>18. CASE DestroyMiner
  BY <1>18 DEF DestroyMiner
<1>19. CASE LeaveMain
  BY <1>19 DEF LeaveMain
<1>20. CASE UiEnds
  BY <1>20 DEF UiEnds
<1>21. CASE WalletTop
  BY <1>21 DEF WalletTop
<1>22. CASE WalletAnswered
  BY <1>22 DEF WalletAnswered
<1>23. CASE KeyPressed
  BY <1>23 DEF KeyPressed
<1>24. CASE WatcherEnds
  BY <1>24 DEF WatcherEnds
<1>25. CASE HandleKey
  BY <1>25 DEF HandleKey
<1>26. CASE TriggerStop
  BY <1>26 DEF TriggerStop
<1>27. CASE HardExit
  BY <1>27 DEF HardExit, RestoreTerminal
<1>28. CASE HandlerChecks
  BY <1>28 DEF HandlerChecks
<1>29. CASE HandlerStops
  BY <1>29 DEF HandlerStops
<1>30. ASSUME NEW h \in Hashers, HashOne(h)
      PROVE  TerminalInv'
  BY <1>30 DEF HashOne, Hash
<1>31. ASSUME NEW h \in Hashers, EndThread(h)
      PROVE  TerminalInv'
  BY <1>31 DEF EndThread, DestroyVm
<1>32. ASSUME NEW t \in Hashers \cup {"main", "ui", "wallet", "watcher"}, Signal(t)
      PROVE  TerminalInv'
  BY <1>32 DEF Signal
<1> QED
  BY <1>1, <1>2, <1>3, <1>4, <1>5, <1>6, <1>7, <1>8, <1>9, <1>10,
     <1>11, <1>12, <1>13, <1>14, <1>15, <1>16, <1>17, <1>18, <1>19, <1>20,
     <1>21, <1>22, <1>23, <1>24, <1>25, <1>26, <1>27, <1>28, <1>29, <1>30, <1>31, <1>32
  DEF Next, MainStep, WalletStep, WatcherStep, SignalStep, HandlerStep

\* The runtime keeps its invariant in every step of the process.
LEMMA RxStep ==
  ASSUME ProcessInv, Next
  PROVE  RxInv'
<1> USE DEF ProcessInv
<1>1. CASE InitializeHashing
  BY <1>1, InitializeStep DEF InitializeHashing
<1>2. CASE ShutdownHashing
  <2>1. rxpc = "ready"
    BY <1>2 DEF ShutdownHashing, Main, MemoryInv, HashPC
  <2> QED BY <1>2, <2>1, ReleaseStep DEF ShutdownHashing
<1>3. ASSUME NEW h \in Hashers, HashOne(h)
      PROVE  RxInv'
  <2>1. vm \in [Hashers -> (SUBSET Options) \cup {NoVm}] /\ flags \subseteq Options
    BY DEF RxInv, RxTypeOK
  <2>2. vm' \in [Hashers -> (SUBSET Options) \cup {NoVm}]
    BY <1>3, <2>1 DEF HashOne, Hash
  <2> QED BY <1>3, <2>2, VmStep DEF HashOne, Hash
<1>4. ASSUME NEW h \in Hashers, EndThread(h)
      PROVE  RxInv'
  <2>1. vm \in [Hashers -> (SUBSET Options) \cup {NoVm}]
    BY DEF RxInv, RxTypeOK
  <2>2. vm' \in [Hashers -> (SUBSET Options) \cup {NoVm}]
    BY <1>4, <2>1 DEF EndThread, DestroyVm
  <2> QED BY <1>4, <2>2, VmStep DEF EndThread
<1>5. CASE UNCHANGED rxVars
  BY <1>5, RuntimeUnchanged
<1>6. \/ InitializeHashing \/ ShutdownHashing \/ UNCHANGED rxVars
      \/ \E h \in Hashers : HashOne(h) \/ EndThread(h)
  BY DEF Next, MainStep, WalletStep, WatcherStep, SignalStep, HandlerStep,
         StartUp, StartHotkeys, StartUi, StartWallet, StartWorkers, ModeForks,
         ModeReturns, ModeThrows, ShutdownUi, JoinWorkers, JoinWallet, JoinUi,
         RunReturned, StopWatcher, JoinWatcher, DestroyMiner, LeaveMain, UiEnds,
         WalletTop, WalletAnswered, KeyPressed, WatcherEnds, HandleKey, TriggerStop,
         HardExit, HandlerChecks, HandlerStops, Signal
<1> QED BY <1>1, <1>2, <1>3, <1>4, <1>5, <1>6


\* Types.
LEMMA TypeStep ==
  ASSUME ProcessInv, Next
  PROVE  TypeOK'
<1> USE ProcessAssumption
<1>0. RxTypeOK'
  BY RxStep DEF RxInv
<1> USE DEF ProcessInv, TypeOK, MainPC, NoHandler, Alive,
           Main, Go, Ends, Steps, Over,
           procVars, mainVars, flagVars, sideVars, keyVars, sigVars
<1>1. CASE StartUp
  <2>1. failed' \in BOOLEAN /\ g_miner' \in BOOLEAN /\ miner_alive' \in BOOLEAN
    BY <1>0, <1>1, Zenon DEF StartUp
  <2> QED BY <1>0, <1>1, <2>1 DEF StartUp
<1>2. CASE StartHotkeys
  <2>1. failed' \in BOOLEAN /\ running' \in BOOLEAN /\ raw_mode' \in BOOLEAN /\ tty_open' \in BOOLEAN
    BY <1>0, <1>2, Zenon DEF StartHotkeys
  <2> QED BY <1>0, <1>2, <2>1 DEF StartHotkeys
<1>3. CASE InitializeHashing
  BY <1>0, <1>3 DEF InitializeHashing
<1>4. CASE StartUi
  <2>1. failed' \in BOOLEAN /\ shutdown_ui' \in BOOLEAN
    BY <1>0, <1>4, Zenon DEF StartUi
  <2> QED BY <1>0, <1>4, <2>1 DEF StartUi
<1>5. CASE StartWallet
  BY <1>0, <1>5 DEF StartWallet
<1>6. CASE StartWorkers
  <2>1. failed' \in BOOLEAN
    BY <1>0, <1>6, Zenon DEF StartWorkers
  <2> QED BY <1>0, <1>6, <2>1 DEF StartWorkers
<1>7. CASE ModeForks
  BY <1>0, <1>7 DEF ModeForks
<1>8. CASE ModeReturns
  BY <1>0, <1>8 DEF ModeReturns
<1>9. CASE ModeThrows
  <2>1. failed' \in BOOLEAN
    BY <1>0, <1>9, Zenon DEF ModeThrows
  <2> QED BY <1>0, <1>9, <2>1 DEF ModeThrows
<1>10. CASE ShutdownUi
  BY <1>0, <1>10 DEF ShutdownUi
<1>11. CASE JoinWorkers
  BY <1>0, <1>11 DEF JoinWorkers, WorkersJoined
<1>12. CASE JoinWallet
  BY <1>0, <1>12 DEF JoinWallet
<1>13. CASE JoinUi
  BY <1>0, <1>13 DEF JoinUi
<1>14. CASE ShutdownHashing
  BY <1>0, <1>14 DEF ShutdownHashing, ReleaseState
<1>15. CASE RunReturned
  <2>1. g_miner' \in BOOLEAN
    BY <1>0, <1>15, Zenon DEF RunReturned, ForgetMiner
  <2> QED BY <1>0, <1>15, <2>1 DEF RunReturned, ForgetMiner
<1>16. CASE StopWatcher
  <2>1. running' \in BOOLEAN
    BY <1>0, <1>16, Zenon DEF StopWatcher
  <2> QED BY <1>0, <1>16, <2>1 DEF StopWatcher
<1>17. CASE JoinWatcher
  <2>1. raw_mode' \in BOOLEAN /\ tty_open' \in BOOLEAN
    BY <1>0, <1>17, Zenon DEF JoinWatcher, RestoreTerminal
  <2> QED BY <1>0, <1>17, <2>1 DEF JoinWatcher, RestoreTerminal
<1>18. CASE DestroyMiner
  <2>1. miner_alive' \in BOOLEAN
    BY <1>0, <1>18, Zenon DEF DestroyMiner
  <2> QED BY <1>0, <1>18, <2>1 DEF DestroyMiner
<1>19. CASE LeaveMain
  BY <1>0, <1>19 DEF LeaveMain
<1>20. CASE UiEnds
  BY <1>0, <1>20 DEF UiEnds
<1>21. CASE WalletTop
  BY <1>0, <1>21 DEF WalletTop
<1>22. CASE WalletAnswered
  BY <1>0, <1>22 DEF WalletAnswered
<1>23. CASE KeyPressed
  BY <1>0, <1>23 DEF KeyPressed
<1>24. CASE WatcherEnds
  BY <1>0, <1>24 DEF WatcherEnds
<1>25. CASE HandleKey
  BY <1>0, <1>25 DEF HandleKey
<1>26. CASE TriggerStop
  <2>1. stop' \in BOOLEAN /\ running' \in BOOLEAN
    BY <1>0, <1>26, Zenon DEF TriggerStop
  <2> QED BY <1>0, <1>26, <2>1 DEF TriggerStop
<1>27. CASE HardExit
  <2>1. raw_mode' \in BOOLEAN /\ tty_open' \in BOOLEAN
    BY <1>0, <1>27, Zenon DEF HardExit, RestoreTerminal
  <2> QED BY <1>0, <1>27, <2>1 DEF HardExit, RestoreTerminal
<1>28. CASE HandlerChecks
  BY <1>0, <1>28 DEF HandlerChecks
<1>29. CASE HandlerStops
  BY <1>0, <1>29 DEF HandlerStops
<1>30. ASSUME NEW h \in Hashers, HashOne(h)
      PROVE  TypeOK'
  BY <1>0, <1>30 DEF HashOne, Hash
<1>31. ASSUME NEW h \in Hashers, EndThread(h)
      PROVE  TypeOK'
  BY <1>0, <1>31 DEF EndThread, DestroyVm
<1>32. ASSUME NEW t \in Hashers \cup {"main", "ui", "wallet", "watcher"}, Signal(t)
      PROVE  TypeOK'
  BY <1>0, <1>32 DEF Signal
<1> QED
  BY <1>0, <1>1, <1>2, <1>3, <1>4, <1>5, <1>6, <1>7, <1>8, <1>9, <1>10,
     <1>11, <1>12, <1>13, <1>14, <1>15, <1>16, <1>17, <1>18, <1>19, <1>20,
     <1>21, <1>22, <1>23, <1>24, <1>25, <1>26, <1>27, <1>28, <1>29, <1>30, <1>31, <1>32
  DEF Next, MainStep, WalletStep, WatcherStep, SignalStep, HandlerStep

\* What there is to hash with.
LEMMA MemoryStep ==
  ASSUME ProcessInv, Next
  PROVE  MemoryInv'
<1> USE ProcessAssumption
<1> USE DEF ProcessInv, RxInv, TypeOK, RxTypeOK, ThreadsInv, MemoryInv, HashPC, UiPC, PoolPC,
     MainPC,
           Main, Go, Ends, Steps, Over,
           procVars, mainVars, flagVars, sideVars, keyVars, sigVars,
           rxVars, machineVars, memoryVars, stateVars
<1>1. CASE StartUp
  BY <1>1 DEF StartUp
<1>2. CASE StartHotkeys
  BY <1>2 DEF StartHotkeys
<1>3. CASE InitializeHashing
  <2>1. rxpc' = "ready" => Publish
    BY <1>3 DEF InitializeHashing, Initialize, ComputeFlags, CacheFails, AllocCache,
             DatasetFails, AllocDataset, FillChunk, JoinFillers, FallBack, InitThrows
  <2>2. \A h \in Hashers : vm[h] = NoVm
    BY <1>3 DEF InitializeHashing
  <2>3. UNCHANGED vm
    BY <1>3 DEF InitializeHashing, Initialize, ComputeFlags, CacheFails, AllocCache, DatasetFails,
             AllocDataset, FillChunk, JoinFillers, Publish, FallBack, InitThrows
  <2>4. mpc' \in {"initialize", "start_ui", "stop_watcher"}
    BY <1>3 DEF InitializeHashing
  <2>5. mpc' = "initialize" => rxpc' \notin {"ready", "threw"}
    BY <1>3 DEF InitializeHashing
  <2>6. mpc' = "start_ui" => rxpc' = "ready"
    BY <1>3 DEF InitializeHashing
  <2>7. rxpc' = "ready" => /\ initialized' /\ caches' = 1
                           /\ "full" \in flags' => datasets' = 1
    BY <2>1 DEF Publish, Held
  <2> QED BY <2>2, <2>3, <2>4, <2>5, <2>6, <2>7
<1>4. CASE StartUi
  BY <1>4 DEF StartUi
<1>5. CASE StartWallet
  BY <1>5 DEF StartWallet
<1>6. CASE StartWorkers
  BY <1>6 DEF StartWorkers
<1>7. CASE ModeForks
  BY <1>7 DEF ModeForks
<1>8. CASE ModeReturns
  BY <1>8 DEF ModeReturns
<1>9. CASE ModeThrows
  BY <1>9 DEF ModeThrows
<1>10. CASE ShutdownUi
  BY <1>10 DEF ShutdownUi
<1>11. CASE JoinWorkers
  BY <1>11 DEF JoinWorkers, WorkersJoined
<1>12. CASE JoinWallet
  BY <1>12 DEF JoinWallet
<1>13. CASE JoinUi
  BY <1>13 DEF JoinUi
<1>14. CASE ShutdownHashing
  BY <1>14 DEF ShutdownHashing, ReleaseState
<1>15. CASE RunReturned
  BY <1>15 DEF RunReturned, ForgetMiner
<1>16. CASE StopWatcher
  BY <1>16 DEF StopWatcher
<1>17. CASE JoinWatcher
  BY <1>17 DEF JoinWatcher, RestoreTerminal
<1>18. CASE DestroyMiner
  BY <1>18 DEF DestroyMiner
<1>19. CASE LeaveMain
  BY <1>19 DEF LeaveMain
<1>20. CASE UiEnds
  BY <1>20 DEF UiEnds
<1>21. CASE WalletTop
  BY <1>21 DEF WalletTop
<1>22. CASE WalletAnswered
  BY <1>22 DEF WalletAnswered
<1>23. CASE KeyPressed
  BY <1>23 DEF KeyPressed
<1>24. CASE WatcherEnds
  BY <1>24 DEF WatcherEnds
<1>25. CASE HandleKey
  BY <1>25 DEF HandleKey
<1>26. CASE TriggerStop
  BY <1>26 DEF TriggerStop
<1>27. CASE HardExit
  BY <1>27 DEF HardExit, RestoreTerminal
<1>28. CASE HandlerChecks
  BY <1>28 DEF HandlerChecks
<1>29. CASE HandlerStops
  BY <1>29 DEF HandlerStops
<1>30. ASSUME NEW h \in Hashers, HashOne(h)
      PROVE  MemoryInv'
  BY <1>30 DEF HashOne, Hash
<1>31. ASSUME NEW h \in Hashers, EndThread(h)
      PROVE  MemoryInv'
  BY <1>31 DEF EndThread, DestroyVm
<1>32. ASSUME NEW t \in Hashers \cup {"main", "ui", "wallet", "watcher"}, Signal(t)
      PROVE  MemoryInv'
  BY <1>32 DEF Signal
<1> QED
  BY <1>1, <1>2, <1>3, <1>4, <1>5, <1>6, <1>7, <1>8, <1>9, <1>10,
     <1>11, <1>12, <1>13, <1>14, <1>15, <1>16, <1>17, <1>18, <1>19, <1>20,
     <1>21, <1>22, <1>23, <1>24, <1>25, <1>26, <1>27, <1>28, <1>29, <1>30, <1>31, <1>32
  DEF Next, MainStep, WalletStep, WatcherStep, SignalStep, HandlerStep

(***************************************************************************)
(* The inductive invariant: the threads there are at each step of main,    *)
(* the memory, the holders of the miner, the terminal, and the runtime.    *)
(***************************************************************************)
THEOREM ProcessInvariant == Spec => []ProcessInv
<1>1. Init => ProcessInv
  <2> SUFFICES ASSUME Init
               PROVE  ProcessInv
    OBVIOUS
  <2> USE ProcessAssumption, RandomXAssumption
  <2> USE DEF Init, RxInit
  <2>1. RxInv
    <3>1. Granted \subseteq Options /\ asked \subseteq Options
      BY DEF Granted
    <3>2. supported \subseteq {"jit", "aes", "large"}
      BY <3>1 DEF Options
    <3>3. bad \subseteq {"jit", "aes", "full", "large", "memory"}
      BY <3>1 DEF Options
    <3>4. vm \in [Hashers -> (SUBSET Options) \cup {NoVm}]
      OBVIOUS
    <3>5. initialized \in BOOLEAN
      BY Zenon
    <3> HIDE DEF Init, RxInit
    <3>6. /\ rxpc = "uninitialized" /\ wanted = {} /\ caches = 0 /\ datasets = 0
          /\ chunks = {} /\ times = [k \in ItemIds |-> 0] /\ ~ initialized /\ flags = {}
      BY DEF Init, RxInit
    <3> QED BY <3>1, <3>2, <3>3, <3>4, <3>5, <3>6 DEF RxInv, RxTypeOK, Held
  <2>2. TypeOK
    BY <2>1 DEF RxInv, TypeOK, MainPC, NoHandler
  <2>3. ThreadsInv
    BY DEF ThreadsInv, Over, NoKeysPC
  <2>4. MemoryInv
    BY DEF MemoryInv, HashPC, UiPC
  <2>5. MinerInv
    BY DEF MinerInv, NoHandler
  <2>6. TerminalInv
    BY DEF TerminalInv
  <2> QED BY <2>1, <2>2, <2>3, <2>4, <2>5, <2>6 DEF ProcessInv
<1>2. ProcessInv /\ [Next]_vars => ProcessInv'
  <2>1. ASSUME ProcessInv, Next
        PROVE  ProcessInv'
    BY <2>1, RxStep, TypeStep, ThreadsStep, MemoryStep, MinerStep, TerminalStep DEF ProcessInv
  <2>2. ASSUME ProcessInv, UNCHANGED vars
        PROVE  ProcessInv'
    <3>1. RxInv'
      BY <2>2, RuntimeUnchanged DEF ProcessInv, vars
    <3> USE <2>2 DEF ProcessInv, vars, procVars, mainVars, flagVars, sideVars, keyVars, sigVars,
                     rxVars, machineVars, memoryVars, stateVars
    <3>2. TypeOK'
      BY <3>1 DEF RxInv, TypeOK
    <3>3. ThreadsInv'
      BY DEF ThreadsInv, Over
    <3>4. MemoryInv'
      BY DEF MemoryInv
    <3>5. MinerInv'
      BY DEF MinerInv, Alive, Over
    <3>6. TerminalInv'
      BY DEF TerminalInv
    <3> QED BY <3>1, <3>2, <3>3, <3>4, <3>5, <3>6
  <2> QED BY <2>1, <2>2
<1> QED BY <1>1, <1>2, PTL DEF Spec

(***************************************************************************)
(* Each hashing thread has the memory its VM reads, however run() is left. *)
(***************************************************************************)
THEOREM HashMemorySafe == Spec => []HashMemoryLive
<1>1. ProcessInv => HashMemoryLive
  BY DEF ProcessInv, ThreadsInv, MemoryInv, HashMemoryLive, PoolPC, HashPC, UiPC
<1> QED BY <1>1, ProcessInvariant, PTL

(***************************************************************************)
(* Neither the hotkey thread nor the signal handler, on whichever thread   *)
(* it runs, uses a Miner that is gone, except after an exception.          *)
(***************************************************************************)
THEOREM MinerOutlivesItsUsers == Spec => []LiveMiner
<1>1. ProcessInv => LiveMiner
  <2> SUFFICES ASSUME ProcessInv
               PROVE  LiveMiner
    OBVIOUS
  <2> USE DEF ProcessInv, ThreadsInv, MinerInv, NoKeysPC, UiPC, WalletPC, PoolPC, Over
  <2>1. watcher \in {"key", "quit"} => miner_alive
    OBVIOUS
  <2>2. (\E h \in Hashers : thread[h] = "running") => miner_alive
    OBVIOUS
  <2>3. ~ Over(ui) \/ ~ Over(wallet) => miner_alive
    OBVIOUS
  <2>4. handler.at = "use" => miner_alive \/ (failed /\ mpc = "leave")
    BY ProcessAssumption DEF Alive
  <2> QED BY <2>1, <2>2, <2>3, <2>4 DEF LiveMiner
<1> QED BY <1>1, ProcessInvariant, PTL

(***************************************************************************)
(* Every end of the process but std::terminate leaves the terminal as it   *)
(* was found.                                                              *)
(***************************************************************************)
THEOREM TerminalIsRestored == Spec => []TerminalRestored
<1>1. ProcessInv => TerminalRestored
  BY DEF ProcessInv, TerminalInv, TerminalRestored, NoKeysPC
<1> QED BY <1>1, ProcessInvariant, PTL

(***************************************************************************)
(* The ladder of attempts, on any machine and for any HashingConfig, gives *)
(* up only where there is no memory, and costs a machine without large     *)
(* pages nothing else.                                                     *)
(***************************************************************************)
THEOREM LadderSettles == Spec => []LadderOutcome
<1>1. ProcessInv => LadderOutcome
  <2> SUFFICES ASSUME ProcessInv
               PROVE  LadderOutcome
    OBVIOUS
  <2>1. rxpc = "threw" => "memory" \in bad
    BY DEF ProcessInv, RxInv
  <2>2. rxpc = "ready" => Works(flags) /\ flags = wanted
    BY DEF ProcessInv, RxInv
  <2>3. ASSUME rxpc = "ready", bad \subseteq {"large"}
        PROVE  flags = Granted \ bad
    <3>1. flags \in {Granted, Granted \ bad}
      BY <2>2, <2>3 DEF ProcessInv, RxInv
    <3>2. \A o : o \in flags => o \notin bad
      BY <2>2, <2>3 DEF Works
    <3> QED BY <3>1, <3>2
  <2> QED BY <2>1, <2>2, <2>3 DEF LadderOutcome
<1> QED BY <1>1, ProcessInvariant, PTL

(***************************************************************************)
(* For any number of items and init threads, each item is initialised      *)
(* once, before anything is hashed in full-memory mode.                    *)
(***************************************************************************)
THEOREM DatasetIsWhole == Spec => []DatasetWhole
<1>1. ProcessInv => DatasetWhole
  BY DEF ProcessInv, RxInv, DatasetWhole, Held
<1> QED BY <1>1, ProcessInvariant, PTL
=============================================================================

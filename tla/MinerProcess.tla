---------------------------- MODULE MinerProcess ----------------------------
(***************************************************************************)
(* The life of the process: main, Miner::run and its statistics and wallet *)
(* threads, the worker pool and the threads of the mode as far as their    *)
(* birth and end go, the hotkey watcher (linux/runtime_platform.cpp; macOS *)
(* has the same control), and the signal handler, which the system runs on *)
(* any thread of the process, in the middle of whatever that thread does.  *)
(* The RandomX runtime is RandomXRuntime.                                  *)
(*                                                                         *)
(* What run_solo and run_pool do between their first thread and their last *)
(* join is in the modules of the modes; here they are one helper thread    *)
(* that hashes (a reward thread, a stratum worker) or does not.            *)
(***************************************************************************)
EXTENDS RandomXRuntime

CONSTANTS Workers,     \* the threads of the worker pool
          Helper,      \* the thread of the mode
          MaxSignals   \* bound on the signals delivered

ASSUME ProcessAssumption ==
  /\ Hashers = Workers \cup {Helper} /\ Helper \notin Workers
  /\ MaxSignals \in Nat

VARIABLES
  mpc,           \* where the main thread is
  exit,          \* how the process ended, "running" until then
  failed,        \* run() or what precedes it threw
  g_miner,       \* g_miner # nullptr
  miner_alive,   \* the Miner object exists
  stop,          \* stop_
  shutdown_ui,   \* shutdown_ui_
  thread,        \* each hashing thread: not started, running, ended
  ui,            \* the statistics thread
  wallet,        \* the wallet thread
  watcher,       \* the hotkey thread
  running,       \* QuitHotkeyWatcher::Impl::running_
  raw_mode,      \* raw_mode_enabled_, and the terminal is in raw mode
  tty_open,      \* tty_fd_ >= 0
  handler,       \* the thread that runs handle_signal, and how far it is
  signals        \* signals delivered so far

mainVars == <<mpc, exit, failed, g_miner, miner_alive>>
flagVars == <<stop, shutdown_ui>>
sideVars == <<thread, ui, wallet>>
keyVars  == <<watcher, running, raw_mode, tty_open>>
sigVars  == <<handler, signals>>
procVars == <<mainVars, flagVars, sideVars, keyVars, sigVars>>
vars == <<rxVars, procVars>>

NoHandler == [on |-> "none", at |-> "none"]

Init ==
  /\ RxInit
  /\ mpc = "start" /\ exit = "running" /\ failed = FALSE
  /\ g_miner = FALSE /\ miner_alive = FALSE
  /\ stop = FALSE /\ shutdown_ui = FALSE
  /\ thread = [h \in Hashers |-> "none"] /\ ui = "none" /\ wallet = "none"
  /\ watcher = "none" /\ running = FALSE /\ raw_mode = FALSE /\ tty_open = FALSE
  /\ handler = NoHandler /\ signals = 0

(***************************************************************************)
(* A thread takes a step while the process runs, unless the signal handler *)
(* has interrupted it.  A thread is "over" when a join of it returns.      *)
(***************************************************************************)
Steps(t) == exit = "running" /\ handler.on # t
Over(state) == state \in {"none", "ended"}

Main(from) == Steps("main") /\ mpc = from
Go(to) == mpc' = to /\ UNCHANGED <<exit, g_miner, miner_alive>>
Ends(how) == exit' = how

(***************************************************************************)
(* main: the command line and the configuration, before any other thread. *)
(* --help, a configuration file just created and --validate-node end here. *)
(***************************************************************************)
StartUp ==
  /\ Main("start")
  /\ \/ mpc' = "hotkeys" /\ g_miner' = TRUE /\ miner_alive' = TRUE
        /\ UNCHANGED <<exit, failed>>
     \/ /\ \E how \in {"ok", "fatal"} : Ends(how) /\ failed' = (how = "fatal")
        /\ UNCHANGED <<mpc, g_miner, miner_alive>>
  /\ UNCHANGED <<rxVars, flagVars, sideVars, keyVars, sigVars>>

(***************************************************************************)
(* QuitHotkeyWatcher::start: no terminal or no raw mode; a watcher; or a   *)
(* terminal in raw mode and a std::thread that cannot be created.          *)
(***************************************************************************)
StartHotkeys ==
  /\ Main("hotkeys")
  /\ \/ /\ Go("initialize")
        /\ UNCHANGED <<failed, keyVars>>
     \/ /\ Go("initialize")
        /\ watcher' = "select" /\ running' = TRUE
        /\ raw_mode' = TRUE /\ tty_open' = TRUE
        /\ UNCHANGED failed
     \/ /\ Go("stop_watcher")
        /\ running' = TRUE /\ raw_mode' = TRUE /\ tty_open' = TRUE
        /\ failed' = TRUE
        /\ UNCHANGED watcher
  /\ UNCHANGED <<rxVars, flagVars, sideVars, sigVars>>

(***************************************************************************)
(* Miner::run.                                                             *)
(***************************************************************************)
InitializeHashing ==
  /\ Main("initialize")
  /\ Initialize
  /\ mpc' = CASE rxpc' = "ready" -> "start_ui"
              [] rxpc' = "threw" -> "stop_watcher"
              [] OTHER -> "initialize"
  /\ failed' = (rxpc' = "threw")
  /\ UNCHANGED <<exit, g_miner, miner_alive, flagVars, sideVars, keyVars, sigVars>>

StartUi ==
  /\ Main("start_ui")
  /\ shutdown_ui' = FALSE
  /\ \/ Go("start_wallet") /\ ui' = "running" /\ UNCHANGED failed
     \/ Go("stop_watcher") /\ failed' = TRUE /\ UNCHANGED ui
  /\ UNCHANGED <<rxVars, stop, thread, wallet, keyVars, sigVars>>

\* The second std::thread throws past the first, which is joinable.
StartWallet ==
  /\ Main("start_wallet")
  /\ \/ Go("start_workers") /\ wallet' = "top"
     \/ Ends("terminate") /\ UNCHANGED <<mpc, g_miner, miner_alive, wallet>>
  /\ UNCHANGED <<rxVars, failed, flagVars, thread, ui, keyVars, sigVars>>

StartWorkers ==
  /\ Main("start_workers")
  /\ \/ /\ Go("mode")
        /\ thread' = [h \in Hashers |-> IF h \in Workers THEN "running" ELSE thread[h]]
        /\ UNCHANGED failed
     \/ Go("shutdown") /\ failed' = TRUE /\ UNCHANGED thread
  /\ UNCHANGED <<rxVars, flagVars, ui, wallet, keyVars, sigVars>>

ModeForks ==
  /\ Main("mode")
  /\ thread[Helper] # "running"
  /\ ~ stop
  /\ thread' = [thread EXCEPT ![Helper] = "running"]
  /\ UNCHANGED <<rxVars, mainVars, flagVars, ui, wallet, keyVars, sigVars>>

\* run_solo and run_pool come back only after a stop and their last join.
ModeReturns ==
  /\ Main("mode")
  /\ stop
  /\ Over(thread[Helper])
  /\ Go("shutdown")
  /\ UNCHANGED <<rxVars, failed, flagVars, sideVars, keyVars, sigVars>>

\* The node cannot be reached, the login fails, a job cannot be built.
ModeThrows ==
  /\ Main("mode")
  /\ \/ Over(thread[Helper]) /\ Go("shutdown") /\ failed' = TRUE
     \/ /\ ~ Over(thread[Helper])
        /\ Ends("terminate")
        /\ UNCHANGED <<mpc, failed, g_miner, miner_alive>>
  /\ UNCHANGED <<rxVars, flagVars, sideVars, keyVars, sigVars>>

ShutdownUi_Forgotten ==
  /\ Main("shutdown")
  /\ Go("join_workers")
  /\ UNCHANGED <<rxVars, failed, flagVars, sideVars, keyVars, sigVars>>

ShutdownUi ==
  /\ Main("shutdown")
  /\ shutdown_ui' = TRUE
  /\ Go("join_workers")
  /\ UNCHANGED <<rxVars, failed, stop, sideVars, keyVars, sigVars>>

\* What the joins wait for, in the order of run().
WorkersJoined_NotAwaited == TRUE
WorkersJoined == \A w \in Workers : Over(thread[w])

JoinWorkers ==
  /\ Main("join_workers") /\ WorkersJoined
  /\ Go("join_wallet")
  /\ UNCHANGED <<rxVars, failed, flagVars, sideVars, keyVars, sigVars>>

JoinWallet ==
  /\ Main("join_wallet") /\ Over(wallet)
  /\ Go("join_ui")
  /\ UNCHANGED <<rxVars, failed, flagVars, sideVars, keyVars, sigVars>>

JoinUi ==
  /\ Main("join_ui") /\ Over(ui)
  /\ Go("release")
  /\ UNCHANGED <<rxVars, failed, flagVars, sideVars, keyVars, sigVars>>

ShutdownHashing ==
  /\ Main("release")
  /\ ReleaseState
  /\ Go(IF failed THEN "stop_watcher" ELSE "returned")
  /\ UNCHANGED <<failed, flagVars, sideVars, keyVars, sigVars>>

\* run() has returned; if it threw, main's locals go and g_miner stays.
ForgetMiner_Not == g_miner' = g_miner
ForgetMiner == g_miner' = FALSE

RunReturned ==
  /\ Main("returned")
  /\ ForgetMiner
  /\ mpc' = "stop_watcher"
  /\ UNCHANGED <<rxVars, exit, failed, miner_alive, flagVars, sideVars, keyVars, sigVars>>

(***************************************************************************)
(* main's locals are destroyed in reverse order: the watcher, whose stop   *)
(* joins its thread and restores the terminal, then the miner.             *)
(***************************************************************************)
StopWatcher ==
  /\ Main("stop_watcher")
  /\ running' = FALSE
  /\ Go("join_watcher")
  /\ UNCHANGED <<rxVars, failed, flagVars, sideVars, watcher, raw_mode, tty_open, sigVars>>

RestoreTerminal_CloseOnly == tty_open' = FALSE /\ UNCHANGED raw_mode
RestoreTerminal == raw_mode' = FALSE /\ tty_open' = FALSE

JoinWatcher ==
  /\ Main("join_watcher") /\ Over(watcher)
  /\ RestoreTerminal
  /\ Go("destroy")
  /\ UNCHANGED <<rxVars, failed, flagVars, sideVars, watcher, running, sigVars>>

DestroyMiner ==
  /\ Main("destroy")
  /\ miner_alive' = FALSE
  /\ mpc' = "leave"
  /\ UNCHANGED <<rxVars, exit, failed, g_miner, flagVars, sideVars, keyVars, sigVars>>

LeaveMain ==
  /\ Main("leave")
  /\ Ends(IF failed THEN "fatal" ELSE "ok")
  /\ UNCHANGED <<rxVars, mpc, failed, g_miner, miner_alive, flagVars, sideVars, keyVars, sigVars>>

MainStep ==
  \/ StartUp \/ StartHotkeys \/ InitializeHashing \/ StartUi \/ StartWallet
  \/ StartWorkers \/ ModeForks \/ ModeReturns \/ ModeThrows \/ ShutdownUi
  \/ JoinWorkers \/ JoinWallet \/ JoinUi \/ ShutdownHashing \/ RunReturned
  \/ StopWatcher \/ JoinWatcher \/ DestroyMiner \/ LeaveMain

(***************************************************************************)
(* The hashing threads: a pool worker leaves when stop_mining_workers or   *)
(* request_stop has set work_quit_; a thread of the mode, when it likes.   *)
(***************************************************************************)
HashOne(h) ==
  /\ Steps(h) /\ thread[h] = "running"
  /\ Hash(h)
  /\ UNCHANGED procVars

EndThread(h) ==
  /\ Steps(h) /\ thread[h] = "running"
  /\ h = Helper \/ stop \/ mpc = "join_workers"
  /\ thread' = [thread EXCEPT ![h] = "ended"]
  /\ DestroyVm(h)
  /\ UNCHANGED <<machineVars, rxpc, wanted, memoryVars, stateVars,
                 mainVars, flagVars, ui, wallet, keyVars, sigVars>>

\* refresh_stats_loop: what it samples and draws is left out.
UiEnds ==
  /\ Steps("ui") /\ ui = "running"
  /\ shutdown_ui
  /\ ui' = "ended"
  /\ UNCHANGED <<rxVars, mainVars, flagVars, thread, wallet, keyVars, sigVars>>

\* A request for the balance, answered, refused or broken off; then sleep.
WalletTop ==
  /\ Steps("wallet") /\ wallet = "top"
  /\ wallet' = IF shutdown_ui THEN "ended" ELSE "asking"
  /\ UNCHANGED <<rxVars, mainVars, flagVars, thread, ui, keyVars, sigVars>>

WalletAnswered ==
  /\ Steps("wallet") /\ wallet = "asking"
  /\ wallet' = "top"
  /\ UNCHANGED <<rxVars, mainVars, flagVars, thread, ui, keyVars, sigVars>>

(***************************************************************************)
(* The hotkey thread.  q calls request_stop and interrupt_all, restores    *)
(* the terminal and leaves the process from where it is; h, p and r call   *)
(* the miner.                                                              *)
(***************************************************************************)
KeyPressed ==
  /\ Steps("watcher") /\ watcher = "select" /\ running
  /\ watcher' \in {"key", "quit"}
  /\ UNCHANGED <<rxVars, mainVars, flagVars, sideVars, running, raw_mode, tty_open, sigVars>>

WatcherEnds ==
  /\ Steps("watcher") /\ watcher = "select" /\ ~ running
  /\ watcher' = "ended"
  /\ UNCHANGED <<rxVars, mainVars, flagVars, sideVars, running, raw_mode, tty_open, sigVars>>

HandleKey ==
  /\ Steps("watcher") /\ watcher = "key"
  /\ watcher' = IF running THEN "select" ELSE "ended"
  /\ UNCHANGED <<rxVars, mainVars, flagVars, sideVars, running, raw_mode, tty_open, sigVars>>

TriggerStop ==
  /\ Steps("watcher") /\ watcher = "quit"
  /\ stop' = TRUE
  /\ running' = FALSE
  /\ watcher' = "restore"
  /\ UNCHANGED <<rxVars, mainVars, shutdown_ui, sideVars, raw_mode, tty_open, sigVars>>

HardExit ==
  /\ Steps("watcher")
  /\ \/ watcher = "restore" /\ RestoreTerminal /\ watcher' = "leave" /\ UNCHANGED exit
     \/ watcher = "leave" /\ Ends("forced") /\ UNCHANGED <<watcher, raw_mode, tty_open>>
  /\ UNCHANGED <<rxVars, mpc, failed, g_miner, miner_alive, flagVars, sideVars, running, sigVars>>

WatcherStep == WatcherEnds \/ HandleKey \/ TriggerStop \/ HardExit

(***************************************************************************)
(* handle_signal.  Before main installs it the system's own handler ends   *)
(* the process, with nothing running and the terminal untouched.  It is    *)
(* taken to find work_mutex_ free (README, section 7).                     *)
(***************************************************************************)
Alive == {"main"} \cup {h \in Hashers : thread[h] = "running"}
                  \cup {t \in {"ui"} : ~ Over(ui)}
                  \cup {t \in {"wallet"} : ~ Over(wallet)}
                  \cup {t \in {"watcher"} : ~ Over(watcher)}

Signal(t) ==
  /\ exit = "running" /\ mpc # "start"
  /\ handler = NoHandler /\ signals < MaxSignals
  /\ t \in Alive
  /\ handler' = [on |-> t, at |-> "check"]
  /\ signals' = signals + 1
  /\ UNCHANGED <<rxVars, mainVars, flagVars, sideVars, keyVars>>

HandlerChecks ==
  /\ exit = "running" /\ handler.at = "check"
  /\ handler' = IF g_miner THEN [handler EXCEPT !.at = "use"] ELSE NoHandler
  /\ UNCHANGED <<rxVars, mainVars, flagVars, sideVars, keyVars, signals>>

HandlerStops ==
  /\ exit = "running" /\ handler.at = "use"
  /\ stop' = TRUE
  /\ handler' = NoHandler
  /\ UNCHANGED <<rxVars, mainVars, shutdown_ui, sideVars, keyVars, signals>>

HandlerStep == HandlerChecks \/ HandlerStops
WalletStep == WalletTop \/ WalletAnswered
SignalStep == \E t \in Hashers \cup {"main", "ui", "wallet", "watcher"} : Signal(t)

Next ==
  \/ MainStep \/ UiEnds \/ WalletStep \/ KeyPressed \/ WatcherStep
  \/ \E h \in Hashers : HashOne(h) \/ EndThread(h)
  \/ SignalStep \/ HandlerStep

Spec == Init /\ [][Next]_vars

(***************************************************************************)
(* Every thread runs; the node answers the wallet thread or its connection *)
(* breaks; the threads of a mode end after a stop.  No key need be pressed *)
(* and no signal sent.                                                     *)
(***************************************************************************)
FairSpec ==
  /\ Spec
  /\ WF_vars(MainStep) /\ WF_vars(UiEnds) /\ WF_vars(WalletStep)
  /\ WF_vars(WatcherStep) /\ WF_vars(HandlerStep)
  /\ \A h \in Hashers : WF_vars(EndThread(h) /\ (stop \/ mpc = "join_workers"))

-----------------------------------------------------------------------------
MainPC == {"start", "hotkeys", "initialize", "start_ui", "start_wallet",
           "start_workers", "mode", "shutdown", "join_workers", "join_wallet",
           "join_ui", "release", "returned", "stop_watcher", "join_watcher",
           "destroy", "leave"}

TypeOK ==
  /\ RxTypeOK
  /\ mpc \in MainPC
  /\ exit \in {"running", "ok", "fatal", "terminate", "forced"}
  /\ failed \in BOOLEAN /\ g_miner \in BOOLEAN /\ miner_alive \in BOOLEAN
  /\ stop \in BOOLEAN /\ shutdown_ui \in BOOLEAN
  /\ thread \in [Hashers -> {"none", "running", "ended"}]
  /\ ui \in {"none", "running", "ended"}
  /\ wallet \in {"none", "top", "asking", "ended"}
  /\ watcher \in {"none", "select", "key", "quit", "restore", "leave", "ended"}
  /\ running \in BOOLEAN /\ raw_mode \in BOOLEAN /\ tty_open \in BOOLEAN
  /\ handler \in [on : Hashers \cup {"none", "main", "ui", "wallet", "watcher"},
                  at : {"none", "check", "use"}]
  /\ signals \in Nat

(***************************************************************************)
(* The invariant: which threads there may be at each step of main, what    *)
(* memory there is, who may hold the miner, and when the terminal is raw.  *)
(***************************************************************************)
UiPC     == {"start_wallet", "start_workers", "mode", "shutdown", "join_workers",
             "join_wallet", "join_ui"}
WalletPC == UiPC \ {"start_wallet", "join_ui"}
PoolPC   == {"mode", "shutdown", "join_workers"}
HashPC   == UiPC \cup {"start_ui", "release"}
NoKeysPC == {"start", "hotkeys", "destroy", "leave"}

ThreadsInv ==
  /\ ~ Over(ui) => mpc \in UiPC
  /\ ~ Over(wallet) => mpc \in WalletPC
  /\ \A h \in Hashers : thread[h] = "running" =>
        mpc = "mode" \/ (h # Helper /\ mpc \in PoolPC)
  /\ ~ Over(watcher) => mpc \notin NoKeysPC

MemoryInv ==
  /\ mpc \in {"start", "hotkeys"} => rxpc = "uninitialized"
  /\ mpc = "initialize" => rxpc \notin {"ready", "threw"}
  /\ mpc \in HashPC =>
        /\ rxpc = "ready" /\ initialized /\ caches = 1
        /\ "full" \in flags => datasets = 1
  /\ \A h \in Hashers :
        /\ vm[h] \in {NoVm, flags}
        /\ vm[h] # NoVm => thread[h] = "running"

MinerInv ==
  /\ miner_alive <=> mpc \notin {"start", "leave"}
  /\ g_miner => miner_alive \/ (failed /\ mpc = "leave")
  /\ g_miner /\ mpc \in {"stop_watcher", "join_watcher", "destroy"} => failed
  /\ handler.at # "none" => handler.on \in Alive
  /\ handler.at = "use" /\ handler.on = "main" => g_miner

TerminalInv ==
  /\ mpc \in NoKeysPC \/ watcher = "leave" => ~ raw_mode /\ ~ tty_open
  /\ exit = "forced" => watcher = "leave"
  /\ exit \in {"ok", "fatal"} => mpc \in {"start", "leave"}

ProcessInv == TypeOK /\ RxInv /\ ThreadsInv /\ MemoryInv /\ MinerInv /\ TerminalInv

(***************************************************************************)
(* No hashing thread ever outlives the cache and the dataset its VM reads  *)
(* (crypto.cpp:760 releases them; the VMs are thread_local), whichever of  *)
(* the ways out of run() is taken, and none starts before they are whole.  *)
(***************************************************************************)
HashMemoryLive ==
  \A h \in Hashers : thread[h] = "running" =>
    /\ initialized /\ caches = 1
    /\ "full" \in flags => datasets = 1
    /\ vm[h] \in {NoVm, flags}

(***************************************************************************)
(* Nobody uses a Miner that is gone: not the hotkey thread, and not the    *)
(* signal handler, which reads g_miner and then calls through it on        *)
(* whatever thread it interrupted (main.cpp:28-32) - unless an exception   *)
(* left run(): then g_miner keeps the address of the destroyed object.     *)
(***************************************************************************)
LiveMiner ==
  exit = "running" =>
    /\ watcher \in {"key", "quit"} => miner_alive
    /\ (\E h \in Hashers : thread[h] = "running") => miner_alive
    /\ ~ Over(ui) \/ ~ Over(wallet) => miner_alive
    /\ handler.at = "use" => miner_alive \/ (failed /\ mpc = "leave")

(***************************************************************************)
(* However the process ends of its own accord, by a return from main, a    *)
(* fatal error or the q key, at any moment of start-up or shutdown, the    *)
(* terminal is out of raw mode.  std::terminate is the exception.          *)
(***************************************************************************)
TerminalRestored == exit \in {"ok", "fatal", "forced"} => ~ raw_mode /\ ~ tty_open

(***************************************************************************)
(* After Ctrl+C, q or an exception the process ends: the joins of run()    *)
(* and of the watcher's destructor all come to an end (miner.cpp:1716-1735,*)
(* linux/runtime_platform.cpp:81-91).                                      *)
(***************************************************************************)
ProcessEnds == (stop \/ failed) ~> exit # "running"
=============================================================================

------------------------------ MODULE SoloMining ------------------------------
(***************************************************************************)
(* Solo mining: Miner::run_solo (src/miner.cpp), its event thread, which   *)
(* counts the blocks the node announces, and the stale watcher that each   *)
(* round starts, which gives the job up when the chain has grown.          *)
(*                                                                         *)
(* The chain is its height, and a job the height it was built for.         *)
(* mine_block is its abstraction (MiningRound): it finds a solution, or    *)
(* returns nothing once the job is marked stale, or on a stop.  The node   *)
(* is external.  A request that throws while a job is being built or       *)
(* submitted, or while a watcher is joinable, ends the process and is left *)
(* out here; a watcher's failed poll is not.                               *)
(***************************************************************************)
EXTENDS Naturals

CONSTANT MaxHeight  \* bound on the height of the chain

ASSUME SoloAssumption == MaxHeight \in Nat

VARIABLES
  use_events,       \* config_.use_chain_events; never changes
  stop,             \* stop_
  paused,           \* paused_
  chain,            \* the node's height
  link,             \* the event connection: "none", "live" or "dead"
  inflight,         \* block events sent on it and not received yet
  active,           \* event_stream_active
  events,           \* chain_event_version
  epc,              \* the event thread: about to "connect", "activate", "wait"
  mpc,              \* where the main loop is
  job,              \* the height the job was built for (initial_height)
  initial_version,  \* initial_version
  found,            \* result.found
  stale,            \* stale
  stop_watcher,     \* stop_watcher
  wpc               \* where the stale watcher is

eventVars == <<link, inflight, active, events, epc>>
roundVars == <<job, initial_version, found, stale, stop_watcher>>
userVars  == <<use_events, stop, paused>>
vars == <<eventVars, roundVars, userVars, chain, mpc, wpc>>

MainPC == {"loop", "build", "snapshot", "mine", "stop_watcher", "join",
           "decide", "submit", "done"}
InRound == {"mine", "stop_watcher", "join", "decide", "submit"}
WatcherPC == {"none", "head", "events", "poll", "exited"}
Heights == 0 .. MaxHeight

Init ==
  /\ use_events \in BOOLEAN
  /\ stop = FALSE /\ paused = FALSE
  /\ chain = 0
  /\ link = "none" /\ inflight = 0 /\ active = FALSE /\ events = 0
  /\ epc = "connect"
  /\ mpc = "loop" /\ wpc = "none"
  /\ job = 0 /\ initial_version = 0
  /\ found = FALSE /\ stale = FALSE /\ stop_watcher = FALSE

(***************************************************************************)
(* A definition named D_<fault> is D with a plausible bug seeded; nothing  *)
(* of the specification uses it.  Each one breaks a property below.        *)
(***************************************************************************)

(***************************************************************************)
(* The node and the connection to it (external).                           *)
(***************************************************************************)
NewBlock ==
  /\ chain < MaxHeight
  /\ chain' = chain + 1
  /\ inflight' = IF link = "live" THEN inflight + 1 ELSE inflight
  /\ UNCHANGED <<link, active, events, epc, roundVars, userVars, mpc, wpc>>

LinkBreaks ==
  /\ link = "live"
  /\ link' = "dead"
  /\ inflight' = 0
  /\ UNCHANGED <<active, events, epc, roundVars, userVars, chain, mpc, wpc>>

(***************************************************************************)
(* The event thread.                                                       *)
(***************************************************************************)
\* disconnect, connect, subscribe_chain_events: the node sends what happens
\* from now on.  When it fails, the thread sleeps and tries again.
Connect ==
  /\ use_events /\ ~stop
  /\ epc = "connect"
  /\ epc' = "activate"
  /\ link' = "live" /\ inflight' = 0
  /\ UNCHANGED <<active, events, roundVars, userVars, chain, mpc, wpc>>

Activate ==
  /\ epc = "activate"
  /\ epc' = "wait"
  /\ active' = TRUE
  /\ UNCHANGED <<link, inflight, events, roundVars, userVars, chain, mpc, wpc>>

ReceiveEvent ==
  /\ epc = "wait"
  /\ inflight > 0
  /\ inflight' = inflight - 1
  /\ events' = events + 1
  /\ UNCHANGED <<link, active, epc, roundVars, userVars, chain, mpc, wpc>>

NoticeBreak ==
  /\ epc = "wait"
  /\ link = "dead"
  /\ epc' = "connect"
  /\ link' = "none"
  /\ active' = FALSE
  /\ UNCHANGED <<inflight, events, roundVars, userVars, chain, mpc, wpc>>

(***************************************************************************)
(* The main loop.                                                          *)
(***************************************************************************)
Leave ==
  /\ mpc = "loop"
  /\ stop
  /\ mpc' = "done"
  /\ UNCHANGED <<eventVars, roundVars, userVars, chain, wpc>>

\* build_solo_job: first the height; then difficulty, reward, mempool, the
\* previous block, and the reward transaction's proof of work take their time.
FetchHeight ==
  /\ mpc = "loop"
  /\ ~stop /\ ~paused
  /\ mpc' = "build"
  /\ job' = chain
  /\ UNCHANGED <<eventVars, initial_version, found, stale, stop_watcher,
                 userVars, chain, wpc>>

FinishBuilding ==
  /\ mpc = "build"
  /\ mpc' = "snapshot"
  /\ stale' = FALSE /\ stop_watcher' = FALSE /\ found' = FALSE
  /\ UNCHANGED <<eventVars, job, initial_version, userVars, chain, wpc>>

\* The version the watcher compares with is read after the job was built.
StartWatcher ==
  /\ mpc = "snapshot"
  /\ mpc' = "mine"
  /\ initial_version' = events
  /\ wpc' = "head"
  /\ UNCHANGED <<eventVars, job, found, stale, stop_watcher, userVars, chain>>

MineNothing ==
  /\ mpc = "mine"
  /\ stale \/ stop
  /\ mpc' = "stop_watcher"
  /\ UNCHANGED <<eventVars, roundVars, userVars, chain, wpc>>

MineSolution ==
  /\ mpc = "mine"
  /\ mpc' = "stop_watcher"
  /\ found' = TRUE
  /\ UNCHANGED <<eventVars, job, initial_version, stale, stop_watcher, userVars,
                 chain, wpc>>

StopWatcher ==
  /\ mpc = "stop_watcher"
  /\ mpc' = "join"
  /\ stop_watcher' = TRUE
  /\ UNCHANGED <<eventVars, job, initial_version, found, stale, userVars, chain,
                 wpc>>

\* stale_watcher.join() returns.
WatcherJoined_Detached == TRUE
WatcherJoined == wpc = "exited"

JoinWatcher ==
  /\ mpc = "join"
  /\ WatcherJoined
  /\ mpc' = "decide"
  /\ UNCHANGED <<eventVars, roundVars, userVars, chain, wpc>>

Decide ==
  /\ mpc = "decide"
  /\ mpc' = IF found /\ ~stale THEN "submit" ELSE "loop"
  /\ UNCHANGED <<eventVars, roundVars, userVars, chain, wpc>>

Submit ==
  /\ mpc = "submit"
  /\ mpc' = "loop"
  /\ UNCHANGED <<eventVars, roundVars, userVars, chain, wpc>>

(***************************************************************************)
(* The stale watcher.                                                      *)
(***************************************************************************)
WatcherMustLeave == stop_watcher \/ stale \/ stop

WatcherHead ==
  /\ wpc = "head"
  /\ wpc' = IF WatcherMustLeave THEN "exited"
            ELSE IF use_events /\ active THEN "events" ELSE "poll"
  /\ UNCHANGED <<eventVars, roundVars, userVars, chain, mpc>>

\* The events branch; its own height poll compares nothing.
CountMoved_OneMore == events > initial_version + 1
CountMoved == events # initial_version

WatchEvents ==
  /\ wpc = "events"
  /\ IF CountMoved THEN wpc' = "exited" /\ stale' = TRUE
                   ELSE wpc' = "head" /\ UNCHANGED stale
  /\ UNCHANGED <<eventVars, job, initial_version, found, stop_watcher, userVars,
                 chain, mpc>>

\* The polling branch.
ChainGrew == chain > job

PollHeight ==
  /\ wpc = "poll"
  /\ IF ChainGrew THEN wpc' = "exited" /\ stale' = TRUE
                  ELSE wpc' = "head" /\ UNCHANGED stale
  /\ UNCHANGED <<eventVars, job, initial_version, found, stop_watcher, userVars,
                 chain, mpc>>

PollFails ==
  /\ wpc = "poll"
  /\ wpc' = "head"
  /\ UNCHANGED <<eventVars, roundVars, userVars, chain, mpc>>

(***************************************************************************)
(* The user: request_stop, request_pause, request_resume.                  *)
(***************************************************************************)
Stop ==
  /\ ~stop
  /\ stop' = TRUE
  /\ UNCHANGED <<eventVars, roundVars, use_events, paused, chain, mpc, wpc>>

PauseOrResume ==
  /\ paused' = ~paused
  /\ UNCHANGED <<eventVars, roundVars, use_events, stop, chain, mpc, wpc>>
-----------------------------------------------------------------------------
\* The main loop without the luck of finding a solution.
MainSteps ==
  \/ Leave \/ FetchHeight \/ FinishBuilding \/ StartWatcher \/ MineNothing
  \/ StopWatcher \/ JoinWatcher \/ Decide \/ Submit

WatcherSteps == WatcherHead \/ WatchEvents \/ PollHeight \/ PollFails
EventSteps == Connect \/ Activate \/ ReceiveEvent \/ NoticeBreak

Next ==
  \/ MainSteps \/ MineSolution \/ WatcherSteps \/ EventSteps
  \/ NewBlock \/ LinkBreaks \/ Stop \/ PauseOrResume

Spec == Init /\ [][Next]_vars

(***************************************************************************)
(* Every thread runs, mine_block returns when it must (WorkerPool), and    *)
(* the node answers one of the watcher's polls after any number of failed  *)
(* ones: no code can notice a new block on a node that never answers.      *)
(***************************************************************************)
Fairness ==
  /\ WF_vars(MainSteps) /\ WF_vars(WatcherSteps) /\ WF_vars(EventSteps)
  /\ SF_vars(PollHeight)

FairSpec == Spec /\ Fairness
-----------------------------------------------------------------------------
TypeOK ==
  /\ use_events \in BOOLEAN /\ stop \in BOOLEAN /\ paused \in BOOLEAN
  /\ chain \in Heights /\ job \in Heights
  /\ link \in {"none", "live", "dead"} /\ active \in BOOLEAN
  /\ inflight \in Heights /\ events \in Heights /\ initial_version \in Heights
  /\ epc \in {"connect", "activate", "wait"}
  /\ mpc \in MainPC /\ wpc \in WatcherPC
  /\ found \in BOOLEAN /\ stale \in BOOLEAN /\ stop_watcher \in BOOLEAN

\* The watcher lives within its round: it reads the round's locals by
\* reference (stale, stop_watcher, initial_height), so it must be gone before
\* the iteration ends, whoever ended the round.
WatcherInsideRound ==
  wpc \in {"head", "events", "poll"} => mpc \in {"mine", "stop_watcher", "join"}

\* The count of events never runs ahead of the chain, and what the watcher
\* compares with is a count of this round or an earlier one.
CountsBlocks ==
  /\ events + inflight <= chain
  /\ initial_version <= events

\* By polling, a job is given up only when the chain has really grown.
NoFalseAlarm ==
  ~use_events /\ stale /\ mpc \in InRound => chain > job

\* What it takes to keep that: a round starts clean, and a watcher that polls
\* does nothing else.
RoundStartsClean ==
  /\ mpc = "snapshot" => ~stale
  /\ wpc = "events" => use_events
  /\ job <= chain

\* The inductive invariant.
SoloInv ==
  /\ TypeOK /\ WatcherInsideRound /\ CountsBlocks /\ NoFalseAlarm /\ RoundStartsClean

\* A job that has become stale while it is mined is given up: by polling
\* whenever the chain has grown beyond it; with events once one has been
\* counted during the round, also when the stream goes down before the
\* watcher looks.
StaleJobAbandoned ==
  /\ ~use_events /\ mpc = "mine" /\ chain > job ~> mpc # "mine"
  /\ mpc = "mine" /\ events # initial_version /\ chain > job ~> mpc # "mine"

\* README: "use node chain-event stream to detect new blocks faster than pure
\* polling".  With a stream that works, no stale job is mined for ever.
EventsDetectBlocks ==
  <>[](active /\ link = "live") => (mpc = "mine" /\ chain > job ~> mpc # "mine")
=============================================================================

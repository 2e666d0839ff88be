----------------------------- MODULE EventStream -----------------------------
(***************************************************************************)
(* The stream of chain events: the event threads of Miner::run_solo and    *)
(* Miner::run_pool (src/miner.cpp) on a NodeClient of their own, and the   *)
(* thread of run(), which takes the connection down at the end.  The two   *)
(* threads are alike but for the greeting that a pool expects.             *)
(*                                                                         *)
(* Every operation of NodeClient holds io_mutex_; one that must wait for   *)
(* the peer, a greeting or wait_chain_event, is two actions and holds the  *)
(* mutex in between: recv has no timeout.  What becomes of a block is the  *)
(* subject of PoolJobs and SoloMining.                                     *)
(***************************************************************************)
EXTENDS NodeClient, Sequences

VARIABLES
  stop,    \* stop_
  active,  \* event_stream_active
  io,      \* io_mutex_: "free", or "thread" while the event thread holds it
  epc,     \* where the event thread is
  mpc,     \* where the thread of run() is
  heard,   \* what the peer has been sent on this connection
  news     \* whether the peer has sent something that was not read yet

localVars == <<stop, active, epc, mpc>>
wireVars  == <<heard, news>>
vars == <<clientVars, peerVars, localVars, io, wireVars>>

Init ==
  /\ is_pool \in BOOLEAN
  /\ sock = "none" /\ subscribed = FALSE /\ handshake_done = FALSE
  /\ peer \in {"up", "down"} /\ drops = 0
  /\ stop = FALSE /\ active = FALSE /\ io = "free"
  /\ epc = "head" /\ mpc = "run"
  /\ heard = << >> /\ news = FALSE

(***************************************************************************)
(* A definition named D_<fault> is D with a plausible bug seeded; nothing  *)
(* of the specification uses it.  Each one breaks a property below.        *)
(***************************************************************************)

IoFree_Ignored == TRUE
IoFree == io = "free"

\* A connection starts, and ends, with nothing said on it.
NothingSaid == heard' = << >> /\ news' = FALSE

Go(there) == epc' = there /\ UNCHANGED <<stop, active, mpc>>

(***************************************************************************)
(* The event thread connects.                                              *)
(***************************************************************************)
MustLeave_Never == FALSE
MustLeave == stop

LoopHead ==
  /\ epc = "head"
  /\ Go(IF MustLeave THEN "exited" ELSE IF active THEN "wait" ELSE "disconnect")
  /\ UNCHANGED <<clientVars, peerVars, io, wireVars>>

Disconnect ==
  /\ epc = "disconnect"
  /\ IoFree
  /\ CloseSocket /\ NothingSaid
  /\ Go("connect")
  /\ UNCHANGED <<peerVars, io>>

Connect ==
  /\ epc = "connect"
  /\ IoFree
  /\ OpenSocket /\ NothingSaid
  /\ Go(IF is_pool THEN "greet" ELSE "subscribe")
  /\ UNCHANGED <<peerVars, io>>

\* connect, or an operation that finds the connection closed and reopens it,
\* cannot reach the peer: sleep and try again.
ConnectFails ==
  /\ epc \in {"connect", "greet", "subscribe"}
  /\ IoFree
  /\ sock = "none" /\ peer = "down"
  /\ Go("head")
  /\ UNCHANGED <<clientVars, peerVars, io, wireVars>>

\* The run thread has closed the connection under way: open it again.
Reopen ==
  /\ epc \in {"greet", "subscribe"}
  /\ IoFree
  /\ sock = "none"
  /\ OpenSocket /\ NothingSaid
  /\ UNCHANGED <<peerVars, localVars, io>>

\* initialize_pool_handshake, or the greeting subscribe_chain_events makes
\* first: the key goes out, and the thread waits for the difficulty.
GreetWrites ==
  /\ \/ epc = "greet" /\ Go("greeting")
     \/ epc = "subscribe" /\ MustGreet /\ Go("regreeting")
  /\ IoFree
  /\ sock = "live"
  /\ io' = "thread"
  /\ heard' = Append(heard, "key")
  /\ UNCHANGED <<clientVars, peerVars, news>>

GreetReads ==
  /\ epc = "greeting"
  /\ news
  /\ news' = FALSE
  /\ handshake_done' = TRUE
  /\ io' = "free"
  /\ Go("subscribe")
  /\ UNCHANGED <<sock, subscribed, peerVars, heard>>

\* The greeting inside subscribe_chain_events: the subscription follows at
\* once, or fails to.
RegreetReads ==
  /\ epc = "regreeting"
  /\ news
  /\ news' = FALSE
  /\ io' = "free"
  /\ \/ /\ sock = "live"
        /\ subscribed' = TRUE /\ handshake_done' = TRUE
        /\ heard' = Append(heard, "subscribe")
        /\ Go("activate")
        /\ UNCHANGED sock
     \/ /\ sock = "dead"
        /\ CloseSocket /\ heard' = << >>
        /\ Go("head")
  /\ UNCHANGED peerVars

\* The write or the read of a greeting fails: the socket stays as it is.
GreetFails ==
  /\ \/ epc = "greet" /\ IoFree
     \/ epc = "subscribe" /\ IoFree /\ MustGreet
     \/ epc \in {"greeting", "regreeting"} /\ ~news
  /\ sock = "dead"
  /\ io' = "free"
  /\ Go("head")
  /\ UNCHANGED <<clientVars, peerVars, wireVars>>

Subscribe ==
  /\ epc = "subscribe"
  /\ IoFree
  /\ ~MustGreet
  /\ \/ /\ sock = "live"
        /\ subscribed' = TRUE
        /\ heard' = Append(heard, "subscribe")
        /\ Go("activate")
        /\ UNCHANGED <<sock, handshake_done, news>>
     \/ /\ sock = "dead"
        /\ CloseSocket /\ NothingSaid
        /\ Go("head")
  /\ UNCHANGED <<peerVars, io>>

Activate ==
  /\ epc = "activate"
  /\ active' = TRUE
  /\ epc' = "wait"
  /\ UNCHANGED <<clientVars, peerVars, stop, mpc, io, wireVars>>

(***************************************************************************)
(* The event thread waits for events.                                      *)
(***************************************************************************)
WaitBegins ==
  /\ epc = "wait"
  /\ IoFree
  /\ IF subscribed THEN io' = "thread" /\ Go("waiting")
                   ELSE UNCHANGED io /\ Go("caught")
  /\ UNCHANGED <<clientVars, peerVars, wireVars>>

WaitEnds ==
  /\ epc = "waiting"
  /\ news
  /\ news' = FALSE
  /\ io' = "free"
  /\ Go("head")
  /\ UNCHANGED <<clientVars, peerVars, heard>>

\* The connection is gone, or what the peer sent is not an event.
WaitFails ==
  /\ epc = "waiting"
  /\ \/ sock = "dead" /\ ~news /\ UNCHANGED <<drops, news>>
     \/ news /\ drops < MaxDrops /\ drops' = drops + 1 /\ news' = FALSE
  /\ io' = "free"
  /\ Go("caught")
  /\ UNCHANGED <<clientVars, is_pool, peer, heard>>

\* The catch block: leave when stopped, else no longer trust the stream.
Untrust_KeepsTrusting == UNCHANGED active
Untrust == active' = FALSE

Catch ==
  /\ epc = "caught"
  /\ IF stop THEN epc' = "exited" /\ UNCHANGED active
             ELSE epc' = "close" /\ Untrust
  /\ UNCHANGED <<clientVars, peerVars, stop, mpc, io, wireVars>>

CloseStream ==
  /\ epc = "close"
  /\ IoFree
  /\ CloseSocket /\ NothingSaid
  /\ Go("head")
  /\ UNCHANGED <<peerVars, io>>

(***************************************************************************)
(* The end of run_solo and run_pool, and the signal handler.               *)
(***************************************************************************)
RunLoopEnds ==
  /\ mpc = "run"
  /\ stop
  /\ mpc' = "disconnect"
  /\ active' = FALSE
  /\ UNCHANGED <<clientVars, peerVars, stop, epc, io, wireVars>>

RunDisconnects ==
  /\ mpc = "disconnect"
  /\ IoFree
  /\ CloseSocket /\ NothingSaid
  /\ mpc' = "join"
  /\ UNCHANGED <<peerVars, stop, active, epc, io>>

RunJoins ==
  /\ mpc = "join"
  /\ epc = "exited"
  /\ mpc' = "done"
  /\ UNCHANGED <<clientVars, peerVars, stop, active, epc, io, wireVars>>

Stop ==
  /\ ~stop
  /\ stop' = TRUE
  /\ UNCHANGED <<clientVars, peerVars, active, epc, mpc, io, wireVars>>

(***************************************************************************)
(* The peer (external): it answers a greeting, announces a block, drops    *)
(* the connection, with or without what it had sent, or keeps silent.      *)
(***************************************************************************)
PeerSends ==
  /\ sock = "live" /\ heard # << >> /\ ~news
  /\ news' = TRUE
  /\ UNCHANGED <<clientVars, peerVars, localVars, io, heard>>

Peer ==
  \/ PeerSends
  \/ PeerReturns /\ UNCHANGED <<localVars, io, wireVars>>
  \/ PeerDrops /\ news' \in {FALSE, news} /\ UNCHANGED <<localVars, io, heard>>
-----------------------------------------------------------------------------
\* What the event thread does, and the part of it that needs io_mutex_.
Locking ==
  \/ Disconnect \/ Connect \/ ConnectFails \/ Reopen \/ GreetWrites
  \/ Subscribe \/ WaitBegins \/ CloseStream

EventThread ==
  \/ Locking \/ LoopHead \/ GreetReads \/ RegreetReads \/ GreetFails
  \/ Activate \/ WaitEnds \/ WaitFails \/ Catch

RunThread == RunLoopEnds \/ RunDisconnects \/ RunJoins

Next == EventThread \/ RunThread \/ Stop \/ Peer

Spec == Init /\ [][Next]_vars

(***************************************************************************)
(* Both threads run, and one that wants io_mutex_ gets it in the end.  The *)
(* peer owes nothing: what a property needs of it, it says.                *)
(***************************************************************************)
Fairness ==
  /\ WF_vars(EventThread) /\ SF_vars(Locking)
  /\ WF_vars(RunThread) /\ SF_vars(RunDisconnects)

FairSpec == Spec /\ Fairness

\* A connection never stays silent for ever: something arrives, or it ends.
NeverSilent == []<>(news \/ sock # "live")
-----------------------------------------------------------------------------
TypeOK ==
  /\ ClientTypeOK
  /\ stop \in BOOLEAN /\ active \in BOOLEAN
  /\ io \in {"free", "thread"}
  /\ epc \in {"head", "disconnect", "connect", "greet", "greeting", "subscribe",
              "regreeting", "activate", "wait", "waiting", "caught", "close",
              "exited"}
  /\ mpc \in {"run", "disconnect", "join", "done"}
  /\ news \in BOOLEAN

\* Where the event thread is blocked in recv.
Blocked == {"greeting", "regreeting", "waiting"}

\* No thread closes a socket that the other is blocked on in recv: the
\* descriptor could be reused, and the recv read someone else's bytes.
NoIoOnClosedSocket ==
  /\ io = "thread" <=> epc \in Blocked
  /\ epc \in Blocked => sock # "none"
  /\ subscribed => sock # "none"

\* While event_stream_active is set, the stale watcher waits for events
\* instead of polling: the connection must then be a subscribed one.
TrustedMeansSubscribed == active /\ ~stop => subscribed

\* What it takes to keep that: until a stop only the event thread closes the
\* connection, and never while the flag is set.
TrustEndsFirst ==
  /\ mpc # "run" => stop
  /\ epc = "activate" /\ ~stop => subscribed
  /\ active /\ ~stop => epc \in {"head", "wait", "waiting", "caught"}

\* On one connection the pool hears the key once and then the subscription,
\* also when the connection was closed and reopened between the two.
HeardInOrder ==
  heard \in {<< >>, <<"subscribe">>, <<"key">>, <<"key", "subscribe">>}

\* What it takes to keep that: what was said at each point of the greeting.
SaidSoFar ==
  /\ sock = "none" => ~handshake_done
  /\ epc = "connect" => sock = "none"
  /\ epc = "greet" => heard = << >>
  /\ epc \in {"greeting", "regreeting"} => heard = <<"key">>
  /\ epc = "subscribe" => heard = IF handshake_done THEN <<"key">> ELSE << >>

\* The inductive invariant: two threads share a connection whose operations
\* are atomic one by one, and no sequence of them is.
EventInv ==
  /\ TypeOK
  /\ NoIoOnClosedSocket
  /\ TrustedMeansSubscribed /\ TrustEndsFirst
  /\ HeardInOrder /\ SaidSoFar

\* The log: "Pool event stream interrupted, retrying".  If the peer comes
\* back for good and is never silent for ever, the stream is up again.
StreamRecovers ==
  <>[](peer = "up") /\ NeverSilent => []<>(stop \/ (active /\ sock = "live"))

\* A stop takes both threads down, on a connection that is never silent for
\* ever: each of them may find the connection closed or reopened by the other.
StopEnds == NeverSilent => (stop ~> mpc = "done")

\* main.cpp: "Use Ctrl+C to quit."  The same of any connection.
CtrlCEnds == stop ~> mpc = "done"
=============================================================================

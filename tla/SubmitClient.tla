----------------------------- MODULE SubmitClient -----------------------------
(***************************************************************************)
(* NodeClient::send_request (src/node_client.cpp) as run_solo and run_pool *)
(* use it, request after request, to fetch what a job needs (height,       *)
(* difficulty, reward, block hash, the pages of the mempool) and to submit *)
(* what was found.  One action is one system call on the socket and what   *)
(* the code does with its outcome; io_mutex_ is held throughout.           *)
(***************************************************************************)
EXTENDS NodeClient

VARIABLES
  pc,      \* where send_request is; "idle" between requests
  greeted, \* whether the peer has been greeted on this connection
  owed,    \* answers the peer owes on it
  last     \* how the last request ended: "none", "ok", "failed"

vars == <<clientVars, peerVars, pc, greeted, owed, last>>

\* The client is connected, and has greeted the pool, before the first
\* request: otherwise run_solo or run_pool throws and the miner ends.
Init ==
  /\ is_pool \in BOOLEAN
  /\ sock = "live" /\ subscribed = FALSE /\ handshake_done = is_pool
  /\ peer = "up" /\ drops = 0
  /\ pc = "idle" /\ greeted = is_pool /\ owed = 0 /\ last = "none"

(***************************************************************************)
(* A definition named D_<fault> is D with a plausible bug seeded; nothing  *)
(* of the specification uses it.  Each one breaks a property below.        *)
(***************************************************************************)

Fail == pc' = "idle" /\ last' = "failed"

SendRequest ==
  /\ pc = "idle"
  /\ pc' = "open"
  /\ UNCHANGED <<clientVars, peerVars, greeted, owed, last>>

UseOpenSocket ==
  /\ pc = "open"
  /\ sock # "none"
  /\ pc' = IF MustGreet THEN "greet" ELSE "write"
  /\ UNCHANGED <<clientVars, peerVars, greeted, owed, last>>

Reopen ==
  /\ pc = "open"
  /\ sock = "none"
  /\ OpenSocket
  /\ owed' = 0 /\ greeted' = FALSE
  /\ pc' = IF MustGreet THEN "greet" ELSE "write"
  /\ UNCHANGED <<peerVars, last>>

ReopenFails ==
  /\ pc = "open"
  /\ sock = "none" /\ peer = "down"
  /\ Fail
  /\ UNCHANGED <<clientVars, peerVars, greeted, owed>>

\* initialize_pool_handshake_locked: the public key out, a difficulty in.
Greet ==
  /\ pc = "greet"
  /\ sock = "live"
  /\ pc' = "write"
  /\ handshake_done' = TRUE /\ greeted' = TRUE
  /\ UNCHANGED <<sock, subscribed, peerVars, owed, last>>

\* It throws outside the try block of send_request.
GreetFails ==
  /\ pc = "greet"
  /\ sock = "dead"
  /\ Fail
  /\ UNCHANGED <<clientVars, peerVars, greeted, owed>>

Write ==
  /\ pc = "write"
  /\ sock = "live"
  /\ pc' = "read"
  /\ owed' = owed + 1
  /\ UNCHANGED <<clientVars, peerVars, greeted, last>>

Read ==
  /\ pc = "read"
  /\ sock = "live"
  /\ pc' = "idle"
  /\ last' = "ok"
  /\ owed' = owed - 1
  /\ UNCHANGED <<clientVars, peerVars, greeted>>

\* The whole answer was read, but it is not the variant that was asked for,
\* or lacks a field: height() and the others throw, the connection is kept.
Refused ==
  /\ pc = "read"
  /\ sock = "live"
  /\ Fail
  /\ owed' = owed - 1
  /\ UNCHANGED <<clientVars, peerVars, greeted>>

\* The catch block of send_request.
AfterFailedExchange_KeepsSocket == UNCHANGED <<sock, subscribed, handshake_done, owed>>
AfterFailedExchange == CloseSocket /\ owed' = 0

\* The connection is gone; or what was read as the answer is not JSON, or
\* says that it is longer than there is memory, and the rest is on its way.
ExchangeFails ==
  /\ pc \in {"write", "read"}
  /\ sock = "dead" \/ (pc = "read" /\ drops < MaxDrops)
  /\ Fail
  /\ AfterFailedExchange
  /\ drops' = IF sock = "dead" THEN drops ELSE drops + 1
  /\ UNCHANGED <<is_pool, peer, greeted>>
-----------------------------------------------------------------------------
Client ==
  \/ SendRequest \/ UseOpenSocket \/ Reopen \/ ReopenFails
  \/ Greet \/ GreetFails \/ Write \/ Read \/ Refused \/ ExchangeFails

Peer == (PeerDrops \/ PeerReturns) /\ UNCHANGED <<pc, greeted, owed, last>>

Next == Client \/ Peer

Spec == Init /\ [][Next]_vars
-----------------------------------------------------------------------------
TypeOK ==
  /\ ClientTypeOK
  /\ pc \in {"idle", "open", "greet", "write", "read"}
  /\ greeted \in BOOLEAN /\ owed \in Nat
  /\ last \in {"none", "ok", "failed"}

\* The answer a request reads is its own: between requests the peer owes
\* none, so no answer to an earlier, failed request is still on its way.
AnswersPaired == owed = IF pc = "read" THEN 1 ELSE 0

\* On each connection a pool is greeted once, before the first request.
GreetsFirst ==
  /\ pc \in {"write", "read"} => greeted = is_pool
  /\ pc = "greet" => ~greeted

\* What it takes to keep both: the flags describe the connection at hand.
FlagsTellTheTruth ==
  /\ sock = "none" => ~subscribed /\ ~handshake_done
  /\ sock # "none" => greeted = handshake_done
  /\ handshake_done \/ pc = "greet" => is_pool
  /\ pc \in {"greet", "write", "read"} => sock # "none"

\* The inductive invariant: connections are closed, reopened and greeted in
\* the middle of requests, and every request finds one it can be paired on.
ClientInv == TypeOK /\ FlagsTellTheTruth /\ AnswersPaired /\ GreetsFirst
=============================================================================

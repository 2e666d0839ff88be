------------------------------ MODULE NodeClient ------------------------------
(***************************************************************************)
(* NodeClient (src/node_client.cpp): one TCP connection to a node or to a  *)
(* pool that speaks the node protocol, what its operations do to it, and   *)
(* the peer at its other end, which is external.  A connection whose peer  *)
(* is gone stays in socket_fd_, "dead", until the client closes it.        *)
(*                                                                         *)
(* Threads and their steps are in the modules that extend this one:        *)
(* SubmitClient (requests) and EventStream (the chain events).             *)
(***************************************************************************)
EXTENDS Naturals

CONSTANT MaxDrops  \* bound on the connections the peer drops

ASSUME NodeClientAssumption == MaxDrops \in Nat

VARIABLES
  is_pool,         \* whether the peer is a pool, which is to be greeted (the
                   \* greeting sets pool_handshake_public_); never changes
  sock,            \* socket_fd_: "none", "live" or "dead"
  subscribed,      \* subscribed_
  handshake_done,  \* pool_handshake_done_
  peer,            \* whether the peer is "up", that is accepts connections
  drops            \* connections the peer has dropped

clientVars == <<sock, subscribed, handshake_done>>
peerVars   == <<is_pool, peer, drops>>

ClientTypeOK ==
  /\ is_pool \in BOOLEAN
  /\ sock \in {"none", "live", "dead"}
  /\ subscribed \in BOOLEAN /\ handshake_done \in BOOLEAN
  /\ peer \in {"up", "down"} /\ drops \in 0 .. MaxDrops

(***************************************************************************)
(* A definition named D_<fault> is D with a plausible bug seeded; nothing  *)
(* of the specification uses it.                                           *)
(***************************************************************************)

\* open_socket_locked, when connect_tcp_socket succeeds.
OpenSocket ==
  /\ peer = "up"
  /\ sock' = "live"
  /\ UNCHANGED <<subscribed, handshake_done>>

\* close_socket_locked.
CloseSocket_KeepsGreeting ==
  /\ sock' = "none"
  /\ subscribed' = FALSE
  /\ UNCHANGED handshake_done
CloseSocket ==
  /\ sock' = "none"
  /\ subscribed' = FALSE
  /\ handshake_done' = FALSE

\* send_request and subscribe_chain_events greet the pool on a connection
\* that has not been greeted yet.
MustGreet == is_pool /\ ~handshake_done

\* The peer crashes, restarts or drops the connection.
PeerDrops ==
  /\ drops < MaxDrops
  /\ drops' = drops + 1
  /\ peer' \in {"up", "down"}
  /\ sock' = IF sock = "live" THEN "dead" ELSE sock
  /\ UNCHANGED <<is_pool, subscribed, handshake_done>>

PeerReturns ==
  /\ peer = "down"
  /\ peer' = "up"
  /\ UNCHANGED <<clientVars, is_pool, drops>>
=============================================================================

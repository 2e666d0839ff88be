-------------------------- MODULE EventStreamProofs --------------------------
(***************************************************************************)
(* EventInv is inductive: two threads use one connection, and whatever the *)
(* peer does to it, the stream is trusted only while it is subscribed, a   *)
(* pool hears the key once and first, and no socket is closed under recv.  *)
(***************************************************************************)
EXTENDS EventStream, TLAPS

\* Types.
LEMMA Typed ==
  ASSUME EventInv, [Next]_vars
  PROVE  TypeOK'
<1> USE NodeClientAssumption
<1> USE DEF EventInv, TypeOK, ClientTypeOK, Go, clientVars, peerVars, localVars, wireVars
<1>1. CASE LoopHead
  BY <1>1 DEF LoopHead, MustLeave
<1>2. CASE Disconnect
  <2>1. subscribed' \in BOOLEAN /\ handshake_done' \in BOOLEAN /\ news' \in BOOLEAN
    BY <1>2, Zenon DEF Disconnect, IoFree, CloseSocket, NothingSaid
  <2> QED BY <1>2, <2>1 DEF Disconnect, IoFree, CloseSocket, NothingSaid
<1>3. CASE Connect
  <2>1. news' \in BOOLEAN
    BY <1>3, Zenon DEF Connect, IoFree, OpenSocket, NothingSaid
  <2> QED BY <1>3, <2>1 DEF Connect, IoFree, OpenSocket, NothingSaid
<1>4. CASE ConnectFails
  BY <1>4 DEF ConnectFails, IoFree
<1>5. CASE Reopen
  <2>1. news' \in BOOLEAN
    BY <1>5, Zenon DEF Reopen, IoFree, OpenSocket, NothingSaid
  <2> QED BY <1>5, <2>1 DEF Reopen, IoFree, OpenSocket, NothingSaid
<1>6. CASE GreetWrites
  BY <1>6 DEF GreetWrites, IoFree, MustGreet
<1>7. CASE GreetReads
  <2>1. handshake_done' \in BOOLEAN /\ news' \in BOOLEAN
    BY <1>7, Zenon DEF GreetReads
  <2> QED BY <1>7, <2>1 DEF GreetReads
<1>8. CASE RegreetReads
  <2>1. subscribed' \in BOOLEAN /\ handshake_done' \in BOOLEAN /\ news' \in BOOLEAN
    BY <1>8, Zenon DEF RegreetReads, CloseSocket
  <2> QED BY <1>8, <2>1 DEF RegreetReads, CloseSocket
<1>9. CASE GreetFails
  BY <1>9 DEF GreetFails, IoFree, MustGreet
<1>10. CASE Subscribe
  <2>1. subscribed' \in BOOLEAN /\ handshake_done' \in BOOLEAN /\ news' \in BOOLEAN
    BY <1>10, Zenon DEF Subscribe, IoFree, MustGreet, CloseSocket, NothingSaid
  <2> QED BY <1>10, <2>1 DEF Subscribe, IoFree, MustGreet, CloseSocket, NothingSaid
<1>11. CASE Activate
  <2>1. active' \in BOOLEAN
    BY <1>11, Zenon DEF Activate
  <2> QED BY <1>11, <2>1 DEF Activate
<1>12. CASE WaitBegins
  BY <1>12 DEF WaitBegins, IoFree
<1>13. CASE WaitEnds
  <2>1. news' \in BOOLEAN
    BY <1>13, Zenon DEF WaitEnds
  <2> QED BY <1>13, <2>1 DEF WaitEnds
<1>14. CASE WaitFails
  <2>1. news' \in BOOLEAN
    BY <1>14, Zenon DEF WaitFails
  <2> QED BY <1>14, <2>1 DEF WaitFails
<1>15. CASE Catch
  <2>1. active' \in BOOLEAN
    BY <1>15, Zenon DEF Catch, Untrust
  <2> QED BY <1>15, <2>1 DEF Catch, Untrust
<1>16. CASE CloseStream
  <2>1. subscribed' \in BOOLEAN /\ handshake_done' \in BOOLEAN /\ news' \in BOOLEAN
    BY <1>16, Zenon DEF CloseStream, IoFree, CloseSocket, NothingSaid
  <2> QED BY <1>16, <2>1 DEF CloseStream, IoFree, CloseSocket, NothingSaid
<1>17. CASE RunLoopEnds
  <2>1. active' \in BOOLEAN
    BY <1>17, Zenon DEF RunLoopEnds
  <2> QED BY <1>17, <2>1 DEF RunLoopEnds
<1>18. CASE RunDisconnects
  <2>1. subscribed' \in BOOLEAN /\ handshake_done' \in BOOLEAN /\ news' \in BOOLEAN
    BY <1>18, Zenon DEF RunDisconnects, IoFree, CloseSocket, NothingSaid
  <2> QED BY <1>18, <2>1 DEF RunDisconnects, IoFree, CloseSocket, NothingSaid
<1>19. CASE RunJoins
  BY <1>19 DEF RunJoins
<1>20. CASE Stop
  <2>1. stop' \in BOOLEAN
    BY <1>20, Zenon DEF Stop
  <2> QED BY <1>20, <2>1 DEF Stop
<1>21. CASE Peer
  <2>1. CASE PeerSends
    <3>1. news' \in BOOLEAN BY <2>1, Zenon DEF PeerSends
    <3> QED BY <2>1, <3>1 DEF PeerSends
  <2>2. CASE PeerReturns /\ UNCHANGED <<localVars, io, wireVars>>
    BY <2>2 DEF PeerReturns
  <2>3. CASE PeerDrops /\ news' \in {FALSE, news} /\ UNCHANGED <<localVars, io, heard>>
    <3>1. news' \in BOOLEAN BY <2>3, Zenon
    <3>2. drops' \in 0 .. MaxDrops BY <2>3 DEF PeerDrops
    <3> QED BY <2>3, <3>1, <3>2 DEF PeerDrops
  <2> QED BY <1>21, <2>1, <2>2, <2>3 DEF Peer
<1>22. CASE UNCHANGED vars
  BY <1>22 DEF vars
<1> QED
  BY <1>1, <1>2, <1>3, <1>4, <1>5, <1>6, <1>7, <1>8, <1>9, <1>10, <1>11,
     <1>12, <1>13, <1>14, <1>15, <1>16, <1>17, <1>18, <1>19, <1>20, <1>21, <1>22
  DEF Next, EventThread, Locking, RunThread

\* The mutex is held exactly while the event thread is in recv.
LEMMA SocketsKept ==
  ASSUME EventInv, [Next]_vars
  PROVE  NoIoOnClosedSocket'
<1> USE DEF EventInv, TypeOK, ClientTypeOK, NoIoOnClosedSocket, Blocked, Go, clientVars,
     peerVars, localVars, wireVars
<1>1. CASE LoopHead
  BY <1>1 DEF LoopHead, MustLeave
<1>2. CASE Disconnect
  BY <1>2 DEF Disconnect, IoFree, CloseSocket, NothingSaid
<1>3. CASE Connect
  BY <1>3 DEF Connect, IoFree, OpenSocket, NothingSaid
<1>4. CASE ConnectFails
  BY <1>4 DEF ConnectFails, IoFree
<1>5. CASE Reopen
  BY <1>5 DEF Reopen, IoFree, OpenSocket, NothingSaid
<1>6. CASE GreetWrites
  BY <1>6 DEF GreetWrites, IoFree, MustGreet
<1>7. CASE GreetReads
  BY <1>7 DEF GreetReads
<1>8. CASE RegreetReads
  BY <1>8 DEF RegreetReads, CloseSocket
<1>9. CASE GreetFails
  BY <1>9 DEF GreetFails, IoFree, MustGreet
<1>10. CASE Subscribe
  BY <1>10 DEF Subscribe, IoFree, MustGreet, CloseSocket, NothingSaid
<1>11. CASE Activate
  BY <1>11 DEF Activate
<1>12. CASE WaitBegins
  BY <1>12 DEF WaitBegins, IoFree
<1>13. CASE WaitEnds
  BY <1>13 DEF WaitEnds
<1>14. CASE WaitFails
  BY <1>14 DEF WaitFails
<1>15. CASE Catch
  BY <1>15 DEF Catch, Untrust
<1>16. CASE CloseStream
  BY <1>16 DEF CloseStream, IoFree, CloseSocket, NothingSaid
<1>17. CASE RunLoopEnds
  BY <1>17 DEF RunLoopEnds
<1>18. CASE RunDisconnects
  BY <1>18 DEF RunDisconnects, IoFree, CloseSocket, NothingSaid
<1>19. CASE RunJoins
  BY <1>19 DEF RunJoins
<1>20. CASE Stop
  BY <1>20 DEF Stop
<1>21. CASE Peer
  <2>1. CASE PeerSends
    BY <2>1 DEF PeerSends
  <2>2. CASE PeerReturns /\ UNCHANGED <<localVars, io, wireVars>>
    BY <2>2 DEF PeerReturns
  <2>3. CASE PeerDrops /\ UNCHANGED <<localVars, io, heard>>
    BY <2>3 DEF PeerDrops
  <2> QED BY <1>21, <2>1, <2>2, <2>3 DEF Peer
<1>22. CASE UNCHANGED vars
  BY <1>22 DEF vars
<1> QED
  BY <1>1, <1>2, <1>3, <1>4, <1>5, <1>6, <1>7, <1>8, <1>9, <1>10, <1>11,
     <1>12, <1>13, <1>14, <1>15, <1>16, <1>17, <1>18, <1>19, <1>20, <1>21, <1>22
  DEF Next, EventThread, Locking, RunThread

\* The flag goes down before the connection does.
LEMMA TrustKept ==
  ASSUME EventInv, [Next]_vars
  PROVE  TrustedMeansSubscribed' /\ TrustEndsFirst'
<1> USE DEF EventInv, TypeOK, ClientTypeOK, TrustedMeansSubscribed, TrustEndsFirst, Go,
     clientVars, peerVars, localVars, wireVars
<1>1. CASE LoopHead
  BY <1>1 DEF LoopHead, MustLeave
<1>2. CASE Disconnect
  BY <1>2 DEF Disconnect, IoFree, CloseSocket, NothingSaid
<1>3. CASE Connect
  BY <1>3 DEF Connect, IoFree, OpenSocket, NothingSaid
<1>4. CASE ConnectFails
  BY <1>4 DEF ConnectFails, IoFree
<1>5. CASE Reopen
  BY <1>5 DEF Reopen, IoFree, OpenSocket, NothingSaid
<1>6. CASE GreetWrites
  BY <1>6 DEF GreetWrites, IoFree, MustGreet
<1>7. CASE GreetReads
  BY <1>7 DEF GreetReads
<1>8. CASE RegreetReads
  BY <1>8 DEF RegreetReads, CloseSocket
<1>9. CASE GreetFails
  BY <1>9 DEF GreetFails, IoFree, MustGreet
<1>10. CASE Subscribe
  BY <1>10 DEF Subscribe, IoFree, MustGreet, CloseSocket, NothingSaid
<1>11. CASE Activate
  BY <1>11 DEF Activate
<1>12. CASE WaitBegins
  BY <1>12 DEF WaitBegins, IoFree
<1>13. CASE WaitEnds
  BY <1>13 DEF WaitEnds
<1>14. CASE WaitFails
  BY <1>14 DEF WaitFails
<1>15. CASE Catch
  BY <1>15 DEF Catch, Untrust
<1>16. CASE CloseStream
  BY <1>16 DEF CloseStream, IoFree, CloseSocket, NothingSaid
<1>17. CASE RunLoopEnds
  BY <1>17 DEF RunLoopEnds
<1>18. CASE RunDisconnects
  BY <1>18 DEF RunDisconnects, IoFree, CloseSocket, NothingSaid
<1>19. CASE RunJoins
  BY <1>19 DEF RunJoins
<1>20. CASE Stop
  BY <1>20 DEF Stop
<1>21. CASE Peer
  <2>1. CASE PeerSends
    BY <2>1 DEF PeerSends
  <2>2. CASE PeerReturns /\ UNCHANGED <<localVars, io, wireVars>>
    BY <2>2 DEF PeerReturns
  <2>3. CASE PeerDrops /\ UNCHANGED <<localVars, io, heard>>
    BY <2>3 DEF PeerDrops
  <2> QED BY <1>21, <2>1, <2>2, <2>3 DEF Peer
<1>22. CASE UNCHANGED vars
  BY <1>22 DEF vars
<1> QED
  BY <1>1, <1>2, <1>3, <1>4, <1>5, <1>6, <1>7, <1>8, <1>9, <1>10, <1>11,
     <1>12, <1>13, <1>14, <1>15, <1>16, <1>17, <1>18, <1>19, <1>20, <1>21, <1>22
  DEF Next, EventThread, Locking, RunThread

\* The only three things an event thread ever adds to what it has said.
LEMMA Said ==
  /\ Append(<< >>, "key") = <<"key">>
  /\ Append(<< >>, "subscribe") = <<"subscribe">>
  /\ Append(<<"key">>, "subscribe") = <<"key", "subscribe">>
<1>1. Append(<< >>, "key") = <<"key">> OBVIOUS
<1>2. Append(<< >>, "subscribe") = <<"subscribe">> OBVIOUS
<1>3. Append(<<"key">>, "subscribe") = <<"key", "subscribe">>
  <2> DEFINE s == Append(<<"key">>, "subscribe")
  <2>1. s \in Seq({"key", "subscribe"}) /\ Len(s) = 2 /\ s[1] = "key" /\ s[2] = "subscribe"
    OBVIOUS
  <2>2. <<"key", "subscribe">> \in Seq({"key", "subscribe"})
    OBVIOUS
  <2> HIDE DEF s
  <2>3. s = <<"key", "subscribe">>
    BY <2>1, <2>2
  <2> QED BY <2>3 DEF s
<1> QED BY <1>1, <1>2, <1>3

\* What was said on a connection is forgotten with it.
LEMMA OrderKept ==
  ASSUME EventInv, [Next]_vars
  PROVE  HeardInOrder' /\ SaidSoFar'
<1> USE Said
<1> USE DEF EventInv, TypeOK, ClientTypeOK, NoIoOnClosedSocket, Blocked, HeardInOrder, SaidSoFar,
     Go, clientVars, peerVars, localVars, wireVars
<1>1. CASE LoopHead
  BY <1>1 DEF LoopHead, MustLeave
<1>2. CASE Disconnect
  BY <1>2 DEF Disconnect, IoFree, CloseSocket, NothingSaid
<1>3. CASE Connect
  BY <1>3 DEF Connect, IoFree, OpenSocket, NothingSaid
<1>4. CASE ConnectFails
  BY <1>4 DEF ConnectFails, IoFree
<1>5. CASE Reopen
  BY <1>5 DEF Reopen, IoFree, OpenSocket, NothingSaid
<1>6. CASE GreetWrites
  BY <1>6 DEF GreetWrites, IoFree, MustGreet
<1>7. CASE GreetReads
  BY <1>7 DEF GreetReads
<1>8. CASE RegreetReads
  BY <1>8 DEF RegreetReads, CloseSocket
<1>9. CASE GreetFails
  BY <1>9 DEF GreetFails, IoFree, MustGreet
<1>10. CASE Subscribe
  BY <1>10 DEF Subscribe, IoFree, MustGreet, CloseSocket, NothingSaid
<1>11. CASE Activate
  BY <1>11 DEF Activate
<1>12. CASE WaitBegins
  BY <1>12 DEF WaitBegins, IoFree
<1>13. CASE WaitEnds
  BY <1>13 DEF WaitEnds
<1>14. CASE WaitFails
  BY <1>14 DEF WaitFails
<1>15. CASE Catch
  BY <1>15 DEF Catch, Untrust
<1>16. CASE CloseStream
  BY <1>16 DEF CloseStream, IoFree, CloseSocket, NothingSaid
<1>17. CASE RunLoopEnds
  BY <1>17 DEF RunLoopEnds
<1>18. CASE RunDisconnects
  BY <1>18 DEF RunDisconnects, IoFree, CloseSocket, NothingSaid
<1>19. CASE RunJoins
  BY <1>19 DEF RunJoins
<1>20. CASE Stop
  BY <1>20 DEF Stop
<1>21. CASE Peer
  <2>1. CASE PeerSends
    BY <2>1 DEF PeerSends
  <2>2. CASE PeerReturns /\ UNCHANGED <<localVars, io, wireVars>>
    BY <2>2 DEF PeerReturns
  <2>3. CASE PeerDrops /\ UNCHANGED <<localVars, io, heard>>
    BY <2>3 DEF PeerDrops
  <2> QED BY <1>21, <2>1, <2>2, <2>3 DEF Peer
<1>22. CASE UNCHANGED vars
  BY <1>22 DEF vars
<1> QED
  BY <1>1, <1>2, <1>3, <1>4, <1>5, <1>6, <1>7, <1>8, <1>9, <1>10, <1>11,
     <1>12, <1>13, <1>14, <1>15, <1>16, <1>17, <1>18, <1>19, <1>20, <1>21, <1>22
  DEF Next, EventThread, Locking, RunThread

\* The event thread and the thread of run() keep their invariant, for any
\* number of dropped connections.
THEOREM EventInvHolds == Spec => []EventInv
<1>1. Init => EventInv
  <2> SUFFICES ASSUME Init PROVE EventInv OBVIOUS
  <2>1. /\ subscribed \in BOOLEAN /\ handshake_done \in BOOLEAN
        /\ stop \in BOOLEAN /\ active \in BOOLEAN /\ news \in BOOLEAN
    BY Zenon DEF Init
  <2> QED
    BY <2>1, NodeClientAssumption
    DEF Init, EventInv, TypeOK, ClientTypeOK, NoIoOnClosedSocket, Blocked,
        TrustedMeansSubscribed, TrustEndsFirst, HeardInOrder, SaidSoFar
<1>2. EventInv /\ [Next]_vars => EventInv'
  BY Typed, SocketsKept, TrustKept, OrderKept DEF EventInv
<1> QED
  BY <1>1, <1>2, PTL DEF Spec

\* While the stream is trusted it is subscribed: the stale watcher never waits
\* for events that nobody asked for.
THEOREM TrustIsJustified == Spec => []TrustedMeansSubscribed
<1>1. EventInv => TrustedMeansSubscribed BY DEF EventInv
<1> QED BY <1>1, EventInvHolds, PTL

\* A pool hears the key once, and before the subscription.
THEOREM AlwaysHeardInOrder == Spec => []HeardInOrder
<1>1. EventInv => HeardInOrder BY DEF EventInv
<1> QED BY <1>1, EventInvHolds, PTL
=============================================================================

---------------------- MODULE ConnectionManagerProofs ----------------------
(***************************************************************************)
(* Proofs about ConnectionManager, for any number of users, rooms,         *)
(* connections and overflow tasks and any queue capacity.                  *)
(*                                                                         *)
(* IndInv is inductive.  Its conjuncts are proved one lemma each, because  *)
(* an action disturbs few of them; the lemmas share IndInv as hypothesis.  *)
(***************************************************************************)
EXTENDS ConnectionManager, TLAPS

USE DEF Goto, Writable, HasRoom

(* Init satisfies the inductive invariant.                                 *)
LEMMA InitInd == Init => IndInv
BY ConnsAssumption, QueueAssumption
   DEF Init, IndInv, TypeOK, SessionInv, LockHolder, EvictionIsExclusive,
       RegisteredIsServing, RegisteredRoomsIndexed, RegisteredIsDrained,
       SocketState, Phase, Locked, Fresh, Serving, TaskState

(* Taking a connection out of the rooms it joined only shrinks the rooms'  *)
(* sets, and only by the connection's user.                                *)
LEMMA UnindexedFacts ==
  ASSUME TypeOK, NEW k \in Conns
  PROVE  /\ Unindexed(k) \in [Rooms -> SUBSET Users]
         /\ \A r \in Rooms :
              /\ Unindexed(k)[r] \subseteq room_connections[r]
              /\ room_connections[r] \ {UserOf[k]} \subseteq Unindexed(k)[r]
BY DEF TypeOK, Unindexed

(* The registration after an eviction keeps the types.                     *)
LEMMA SupersedeType ==
  ASSUME TypeOK, NEW c \in Conns, NEW k \in Conns, Supersede(c, k)
  PROVE  /\ connections' \in [Users -> Conns \cup {NoConn}]
         /\ room_connections' \in [Rooms -> SUBSET Users]
         /\ send_queue' \in [Conns -> 0..MAX_SEND_QUEUE_SIZE]
         /\ send_task' \in [Conns -> {"none", "running", "ended"}]
<1>1. Unindexed(k) \in [Rooms -> SUBSET Users]
  BY UnindexedFacts
<1>2. 1 \in 0..MAX_SEND_QUEUE_SIZE
  BY QueueAssumption
<1> QED
  BY <1>1, <1>2, ConnsAssumption DEF TypeOK, Supersede

(* disconnect keeps the types, whatever sockets its caller has noticed to  *)
(* be closed.                                                              *)
LEMMA DisconnectType ==
  ASSUME TypeOK, NEW c \in Conns, NEW sockets \in [Conns -> SocketState],
         DisconnectUser(c, sockets)
  PROVE  /\ connections' \in [Users -> Conns \cup {NoConn}]
         /\ room_connections' \in [Rooms -> SUBSET Users]
         /\ lock' \in Conns \cup {NoConn}
         /\ ws' \in [Conns -> SocketState]
         /\ send_task' \in [Conns -> {"none", "running", "ended"}]
         /\ pc' \in [Conns -> Phase]
         /\ victim' \in [Conns -> Conns \cup {NoConn}]
<1> DEFINE k == connections[UserOf[c]]
<1> USE ConnsAssumption
<1> USE DEF TypeOK, SocketState, Phase
<1>1. CASE lock # NoConn \/ k = NoConn
  BY <1>1 DEF DisconnectUser
<1>2. CASE lock = NoConn /\ k # NoConn
  <2>1. k \in Conns /\ Drop(k)
    BY <1>2 DEF DisconnectUser
  <2>2. Unindexed(k) \in [Rooms -> SUBSET Users]
    BY <2>1, UnindexedFacts
  <2>3. /\ ws' = sockets \/ ws' = [sockets EXCEPT ![k] = "closed"]
        /\ pc' = [pc EXCEPT ![c] = "done"] \/ pc' = [pc EXCEPT ![c] = "closing"]
        /\ lock' = lock \/ lock' = c
        /\ victim' = victim \/ victim' = [victim EXCEPT ![c] = k]
    BY <1>2 DEF DisconnectUser
  <2> HIDE DEF k
  <2>4. /\ connections' \in [Users -> Conns \cup {NoConn}]
        /\ room_connections' \in [Rooms -> SUBSET Users]
        /\ send_task' \in [Conns -> {"none", "running", "ended"}]
    BY <2>1, <2>2 DEF Drop
  <2>5. ws' \in [Conns -> SocketState] /\ pc' \in [Conns -> Phase]
    BY <2>1, <2>3
  <2>6. /\ lock' \in Conns \cup {NoConn}
        /\ victim' \in [Conns -> Conns \cup {NoConn}]
    BY <2>1, <2>3
  <2> QED
    BY <2>4, <2>5, <2>6
<1> QED
  BY <1>1, <1>2

(* The same for the finally block of a session.                            *)
LEMMA CleanupType ==
  ASSUME TypeOK, NEW c \in Conns, NEW sockets \in [Conns -> SocketState],
         StartCleanup(c, sockets)
  PROVE  /\ connections' \in [Users -> Conns \cup {NoConn}]
         /\ room_connections' \in [Rooms -> SUBSET Users]
         /\ lock' \in Conns \cup {NoConn}
         /\ ws' \in [Conns -> SocketState]
         /\ send_task' \in [Conns -> {"none", "running", "ended"}]
         /\ pc' \in [Conns -> Phase]
         /\ victim' \in [Conns -> Conns \cup {NoConn}]
BY DisconnectType DEF StartCleanup, TypeOK, Phase

(* Every action keeps every variable within its type; for the joins this   *)
(* needs the room of the event, which SessionInv provides.                 *)
LEMMA StepType == IndInv /\ [Next]_vars => TypeOK'
<1> SUFFICES ASSUME IndInv, [Next]_vars PROVE TypeOK'
  OBVIOUS
<1> USE ConnsAssumption, QueueAssumption
<1> USE DEF IndInv, TypeOK, SocketState, Phase, TaskState
<1>1. ASSUME NEW c \in Conns, SessionStep(c) PROVE TypeOK'
  <2>1. CASE Connect(c)
    BY <2>1 DEF Connect
  <2>2. CASE ConnectReplace(c)
    <3> DEFINE k == connections[UserOf[c]]
    <3>1. k \in Conns /\ Supersede(c, k)
      BY <2>2 DEF ConnectReplace
    <3>2. /\ pc' = [pc EXCEPT ![c] = "loop"]
          /\ UNCHANGED <<lock, ws, rooms, arg, victim, fd>>
      BY <2>2 DEF ConnectReplace
    <3> HIDE DEF k
    <3> QED
      BY <3>1, <3>2, SupersedeType
  <2>3. CASE ConnectEvict(c)
    BY <2>3 DEF ConnectEvict
  <2>4. CASE EvictClose(c)
    BY <2>4 DEF EvictClose
  <2>5. CASE EvictFinish(c)
    <3>1. victim[c] \in Conns
      BY <2>5 DEF EvictFinish, SessionInv
    <3>2. Supersede(c, victim[c])
      BY <2>5 DEF EvictFinish
    <3> QED
      BY <2>5, <3>1, <3>2, SupersedeType DEF EvictFinish
  <2>6. CASE Reply(c)
    BY <2>6 DEF Reply, SendToUser
  <2>7. CASE Publish(c)
    BY <2>7 DEF Publish
  <2>8. CASE JoinRoom(c)
    BY <2>8, SMTT(30) DEF JoinRoom, SessionInv
  <2>9. CASE JoinReply(c)
    BY <2>9 DEF JoinReply, SendToUser
  <2>10. CASE LeaveRoom(c)
    BY <2>10, SMTT(30) DEF LeaveRoom, SessionInv
  <2>11. CASE LeaveDone(c)
    BY <2>11 DEF LeaveDone
  <2>12. CASE NoticeClosed(c)
    BY <2>12, CleanupType DEF NoticeClosed
  <2>13. CASE HandlerError(c)
    BY <2>13, CleanupType DEF HandlerError
  <2>14. CASE CleanupRooms(c)
    BY <2>14, DisconnectType DEF CleanupRooms
  <2>15. CASE CleanupAbort(c)
    BY <2>15 DEF CleanupAbort
  <2>16. CASE Disconnect(c)
    BY <2>16, DisconnectType DEF Disconnect
  <2>17. CASE DisconnectDone(c)
    BY <2>17 DEF DisconnectDone
  <2> QED
    BY <1>1, <2>1, <2>2, <2>3, <2>4, <2>5, <2>6, <2>7, <2>8, <2>9, <2>10,
       <2>11, <2>12, <2>13, <2>14, <2>15, <2>16, <2>17 DEF SessionStep
<1>2. ASSUME NEW c \in Conns, ClientStep(c) \/ Drain(c) PROVE TypeOK'
  <2>1. CASE Accept(c) \/ Reject(c) \/ PeerGone(c)
    BY <2>1 DEF Accept, Reject, PeerGone
  <2>2. CASE Receive(c)
    <3>1. pc' \in [Conns -> Phase]
      BY <2>2 DEF Receive
    <3>2. arg' \in [Conns -> Rooms \cup {NoRoom}]
      BY <2>2 DEF Receive
    <3> QED
      BY <2>2, <3>1, <3>2 DEF Receive
  <2>3. CASE Drain(c)
    BY <2>3 DEF Drain
  <2> QED
    BY <1>2, <2>1, <2>2, <2>3 DEF ClientStep
<1>3. ASSUME NEW c \in Conns, NEW s \in Slots, OverflowStep(c, s)
      PROVE TypeOK'
  <2>1. CASE OverflowSend(c, s) \/ OverflowClose(c, s)
    BY <2>1 DEF OverflowSend, OverflowClose
  <2>2. CASE OverflowFinish(c, s)
    <3>1. Unindexed(c) \in [Rooms -> SUBSET Users]
      BY UnindexedFacts
    <3> QED
      BY <2>2, <3>1 DEF OverflowFinish, Drop
  <2> QED
    BY <1>3, <2>1, <2>2 DEF OverflowStep
<1>4. ASSUME NEW r \in Rooms, NEW x \in Users \cup {NoUser}, Broadcast(r, x)
      PROVE TypeOK'
  BY <1>4 DEF Broadcast
<1>5. CASE UNCHANGED vars
  BY <1>5 DEF vars
<1> QED
  BY <1>1, <1>2, <1>3, <1>4, <1>5 DEF Next

(* What disconnect does to the tracking structures: it waits for the lock, *)
(* finds nothing, or drops the user's registered connection.               *)
Torn(c) ==
  LET k == connections[UserOf[c]] IN
  \/ /\ \/ pc' = [pc EXCEPT ![c] = "cleanup"]
        \/ lock # NoConn /\ pc' = [pc EXCEPT ![c] = "disconnect"]
     /\ UNCHANGED <<connections, room_connections, send_task, lock>>
  \/ /\ k = NoConn
     /\ pc' = [pc EXCEPT ![c] = "done"]
     /\ UNCHANGED <<connections, room_connections, send_task, lock>>
  \/ /\ k # NoConn
     /\ lock = NoConn
     /\ Drop(k)
     /\ \/ pc' = [pc EXCEPT ![c] = "done"] /\ lock' = lock
        \/ pc' = [pc EXCEPT ![c] = "closing"] /\ lock' = c

(* The four ways into ConnectionManager.disconnect have this in common:    *)
(* the session leaves a serving phase, a socket only closes, and an entry  *)
(* is only removed, together with its rooms and its send task.             *)
LEMMA CleanupStep ==
  ASSUME IndInv, NEW c \in Conns,
         NoticeClosed(c) \/ HandlerError(c) \/ CleanupRooms(c) \/ Disconnect(c)
  PROVE  /\ pc[c] \in Serving
         /\ rooms' = rooms
         /\ \A d \in Conns : ws'[d] = ws[d] \/ ws'[d] = "closed"
         /\ \A d \in Conns \ {c} : arg'[d] = arg[d] /\ victim'[d] = victim[d]
         /\ Torn(c)
<1> USE ConnsAssumption
<1> USE DEF IndInv, TypeOK, SocketState
<1>1. ASSUME NEW sockets \in [Conns -> SocketState],
             \A d \in Conns : sockets[d] = ws[d] \/ sockets[d] = "closed",
             DisconnectUser(c, sockets)
      PROVE  /\ \A d \in Conns : ws'[d] = ws[d] \/ ws'[d] = "closed"
             /\ \A d \in Conns \ {c} : victim'[d] = victim[d]
             /\ Torn(c)
  <2>1. /\ \A d \in Conns : ws'[d] = ws[d] \/ ws'[d] = "closed"
        /\ \A d \in Conns \ {c} : victim'[d] = victim[d]
    BY <1>1 DEF DisconnectUser
  <2>2. Torn(c)
    BY <1>1 DEF DisconnectUser, Torn
  <2> QED
    BY <2>1, <2>2
<1>2. ASSUME NEW sockets \in [Conns -> SocketState],
             \A d \in Conns : sockets[d] = ws[d] \/ sockets[d] = "closed",
             StartCleanup(c, sockets)
      PROVE  /\ \A d \in Conns : ws'[d] = ws[d] \/ ws'[d] = "closed"
             /\ \A d \in Conns \ {c} : victim'[d] = victim[d]
             /\ Torn(c)
  <2>1. CASE DisconnectUser(c, sockets)
    BY <1>1, <1>2, <2>1
  <2>2. CASE ~DisconnectUser(c, sockets)
    BY <1>2, <2>2 DEF StartCleanup, Torn
  <2> QED
    BY <2>1, <2>2
<1>3. CASE NoticeClosed(c)
  BY <1>2, <1>3 DEF NoticeClosed, Serving
<1>4. CASE HandlerError(c)
  BY <1>2, <1>4 DEF HandlerError, Serving
<1>5. CASE CleanupRooms(c) \/ Disconnect(c)
  BY <1>1, <1>5 DEF CleanupRooms, Disconnect, Serving
<1> QED
  BY <1>3, <1>4, <1>5

(* The lock is taken and given back only together with the phase that      *)
(* stands for holding it.                                                  *)
LEMMA StepLock == IndInv /\ [Next]_vars => LockHolder'
<1> SUFFICES ASSUME IndInv, [Next]_vars PROVE LockHolder'
  OBVIOUS
<1> USE ConnsAssumption
<1> USE DEF IndInv, TypeOK, LockHolder, Locked
<1>1. ASSUME NEW c \in Conns, SessionStep(c) PROVE LockHolder'
  <2>1. CASE Connect(c) \/ ConnectReplace(c) \/ ConnectEvict(c)
    BY <2>1 DEF Connect, ConnectReplace, ConnectEvict
  <2>2. CASE EvictClose(c) \/ EvictFinish(c)
    BY <2>2 DEF EvictClose, EvictFinish
  <2>3. CASE Reply(c) \/ Publish(c) \/ JoinRoom(c) \/ JoinReply(c)
    BY <2>3 DEF Reply, Publish, JoinRoom, JoinReply
  <2>4. CASE LeaveRoom(c) \/ LeaveDone(c)
    BY <2>4 DEF LeaveRoom, LeaveDone
  <2>5. CASE CleanupAbort(c)
    BY <2>5 DEF CleanupAbort
  <2>6. CASE NoticeClosed(c) \/ HandlerError(c) \/ CleanupRooms(c) \/ Disconnect(c)
    BY <2>6, CleanupStep DEF Torn, Serving
  <2>7. CASE DisconnectDone(c)
    BY <2>7 DEF DisconnectDone
  <2> QED
    BY <1>1, <2>1, <2>2, <2>3, <2>4, <2>5, <2>6, <2>7 DEF SessionStep
<1>2. ASSUME NEW c \in Conns, ClientStep(c) \/ Drain(c) PROVE LockHolder'
  BY <1>2 DEF ClientStep, Accept, Reject, Receive, PeerGone, Drain
<1>3. ASSUME NEW c \in Conns, NEW s \in Slots, OverflowStep(c, s)
      PROVE LockHolder'
  BY <1>3 DEF OverflowStep, OverflowSend, OverflowClose, OverflowFinish
<1>4. ASSUME NEW r \in Rooms, NEW x \in Users \cup {NoUser}, Broadcast(r, x)
      PROVE LockHolder'
  BY <1>4 DEF Broadcast
<1>5. CASE UNCHANGED vars
  BY <1>5 DEF vars
<1> QED
  BY <1>1, <1>2, <1>3, <1>4, <1>5 DEF Next

(* A registered connection belongs to its user and its session is past     *)
(* connect and not past disconnect: a session leaves Serving only through  *)
(* disconnect, which pops its user's entry whichever connection that is.   *)
LEMMA StepServing == IndInv /\ [Next]_vars => RegisteredIsServing'
<1> SUFFICES ASSUME IndInv, [Next]_vars PROVE RegisteredIsServing'
  OBVIOUS
<1> USE ConnsAssumption
<1> USE DEF IndInv, TypeOK, RegisteredIsServing, Serving
<1>1. ASSUME NEW c \in Conns, SessionStep(c) PROVE RegisteredIsServing'
  <2>1. CASE Connect(c) \/ ConnectReplace(c) \/ ConnectEvict(c)
    BY <2>1 DEF Connect, ConnectReplace, ConnectEvict, Supersede
  <2>2. CASE EvictClose(c) \/ EvictFinish(c)
    BY <2>2 DEF EvictClose, EvictFinish, Supersede
  <2>3. CASE Reply(c) \/ Publish(c) \/ JoinRoom(c) \/ JoinReply(c)
    BY <2>3 DEF Reply, Publish, JoinRoom, JoinReply
  <2>4. CASE LeaveRoom(c) \/ LeaveDone(c)
    BY <2>4 DEF LeaveRoom, LeaveDone
  <2>5. CASE CleanupAbort(c)
    BY <2>5 DEF CleanupAbort
  <2>6. CASE NoticeClosed(c) \/ HandlerError(c) \/ CleanupRooms(c) \/ Disconnect(c)
    BY <2>6, CleanupStep DEF Torn, Drop
  <2>7. CASE DisconnectDone(c)
    BY <2>7 DEF DisconnectDone
  <2> QED
    BY <1>1, <2>1, <2>2, <2>3, <2>4, <2>5, <2>6, <2>7 DEF SessionStep
<1>2. ASSUME NEW c \in Conns, ClientStep(c) \/ Drain(c)
      PROVE RegisteredIsServing'
  BY <1>2 DEF ClientStep, Accept, Reject, Receive, PeerGone, Drain
<1>3. ASSUME NEW c \in Conns, NEW s \in Slots, OverflowStep(c, s)
      PROVE RegisteredIsServing'
  BY <1>3 DEF OverflowStep, OverflowSend, OverflowClose, OverflowFinish, Drop
<1>4. ASSUME NEW r \in Rooms, NEW x \in Users \cup {NoUser}, Broadcast(r, x)
      PROVE RegisteredIsServing'
  BY <1>4 DEF Broadcast
<1>5. CASE UNCHANGED vars
  BY <1>5 DEF vars
<1> QED
  BY <1>1, <1>2, <1>3, <1>4, <1>5 DEF Next

(* The facts of a session between its steps.  The victim of an eviction    *)
(* was registered, so it is not fresh, and no socket reopens.              *)
LEMMA StepSession == IndInv /\ [Next]_vars => SessionInv'
<1> SUFFICES ASSUME IndInv, [Next]_vars PROVE SessionInv'
  OBVIOUS
<1> USE ConnsAssumption
<1> USE DEF IndInv, TypeOK, SessionInv, Fresh
<1>1. ASSUME NEW c \in Conns, SessionStep(c) PROVE SessionInv'
  <2>1. CASE Connect(c) \/ ConnectReplace(c)
    BY <2>1 DEF Connect, ConnectReplace
  <2>2. CASE ConnectEvict(c)
    BY <2>2 DEF ConnectEvict, RegisteredIsServing, Serving
  <2>3. CASE EvictClose(c) \/ EvictFinish(c)
    BY <2>3 DEF EvictClose, EvictFinish
  <2>4. CASE Reply(c) \/ Publish(c) \/ JoinReply(c)
    BY <2>4 DEF Reply, Publish, JoinReply
  <2>5. CASE JoinRoom(c)
    BY <2>5 DEF JoinRoom, RegisteredIsServing, Serving
  <2>6. CASE LeaveRoom(c)
    BY <2>6 DEF LeaveRoom, RegisteredIsServing, Serving
  <2>7. CASE LeaveDone(c)
    BY <2>7 DEF LeaveDone
  <2>8. CASE CleanupAbort(c)
    BY <2>8 DEF CleanupAbort
  <2>9. CASE NoticeClosed(c) \/ HandlerError(c) \/ CleanupRooms(c) \/ Disconnect(c)
    BY <2>9, CleanupStep DEF Torn, Serving
  <2>10. CASE DisconnectDone(c)
    BY <2>10 DEF DisconnectDone
  <2> QED
    BY <1>1, <2>1, <2>2, <2>3, <2>4, <2>5, <2>6, <2>7, <2>8, <2>9, <2>10
       DEF SessionStep
<1>2. ASSUME NEW c \in Conns, ClientStep(c) \/ Drain(c) PROVE SessionInv'
  BY <1>2 DEF ClientStep, Accept, Reject, Receive, PeerGone, Drain
<1>3. ASSUME NEW c \in Conns, NEW s \in Slots, OverflowStep(c, s)
      PROVE SessionInv'
  BY <1>3 DEF OverflowStep, OverflowSend, OverflowClose, OverflowFinish
<1>4. ASSUME NEW r \in Rooms, NEW x \in Users \cup {NoUser}, Broadcast(r, x)
      PROVE SessionInv'
  BY <1>4 DEF Broadcast
<1>5. CASE UNCHANGED vars
  BY <1>5 DEF vars
<1> QED
  BY <1>1, <1>2, <1>3, <1>4, <1>5 DEF Next

(* Only a session with the lock registers a connection, so the entry of    *)
(* the user whose connection is being evicted can only disappear.          *)
LEMMA StepEviction == IndInv /\ [Next]_vars => EvictionIsExclusive'
<1> SUFFICES ASSUME IndInv, [Next]_vars PROVE EvictionIsExclusive'
  OBVIOUS
<1> USE ConnsAssumption
<1> USE DEF IndInv, TypeOK, EvictionIsExclusive
<1>1. ASSUME NEW c \in Conns, SessionStep(c) PROVE EvictionIsExclusive'
  <2>1. CASE Connect(c) \/ ConnectReplace(c)
    BY <2>1 DEF Connect, ConnectReplace, Supersede
  <2>2. CASE ConnectEvict(c)
    BY <2>2 DEF ConnectEvict, RegisteredIsServing
  <2>3. CASE EvictClose(c) \/ EvictFinish(c)
    BY <2>3 DEF EvictClose, EvictFinish, Supersede
  <2>4. CASE Reply(c) \/ Publish(c) \/ JoinRoom(c) \/ JoinReply(c)
    BY <2>4 DEF Reply, Publish, JoinRoom, JoinReply
  <2>5. CASE LeaveRoom(c) \/ LeaveDone(c)
    BY <2>5 DEF LeaveRoom, LeaveDone
  <2>6. CASE CleanupAbort(c)
    BY <2>6 DEF CleanupAbort
  <2>7. CASE NoticeClosed(c) \/ HandlerError(c) \/ CleanupRooms(c) \/ Disconnect(c)
    BY <2>7, CleanupStep DEF Torn, Drop, Serving
  <2>8. CASE DisconnectDone(c)
    BY <2>8 DEF DisconnectDone, LockHolder, Locked
  <2> QED
    BY <1>1, <2>1, <2>2, <2>3, <2>4, <2>5, <2>6, <2>7, <2>8 DEF SessionStep
<1>2. ASSUME NEW c \in Conns, ClientStep(c) \/ Drain(c)
      PROVE EvictionIsExclusive'
  BY <1>2 DEF ClientStep, Accept, Reject, Receive, PeerGone, Drain
<1>3. ASSUME NEW c \in Conns, NEW s \in Slots, OverflowStep(c, s)
      PROVE EvictionIsExclusive'
  BY <1>3 DEF OverflowStep, OverflowSend, OverflowClose, OverflowFinish, Drop
<1>4. ASSUME NEW r \in Rooms, NEW x \in Users \cup {NoUser}, Broadcast(r, x)
      PROVE EvictionIsExclusive'
  BY <1>4 DEF Broadcast
<1>5. CASE UNCHANGED vars
  BY <1>5 DEF vars
<1> QED
  BY <1>1, <1>2, <1>3, <1>4, <1>5 DEF Next

(* A joined room stays indexed while the connection is registered: a join  *)
(* or leave changes both sides for the registered connection, and a step   *)
(* that takes a user out of a room's set also takes its entry away or      *)
(* replaces it by a connection that has no room yet.                       *)
LEMMA StepIndexed == IndInv /\ [Next]_vars => RegisteredRoomsIndexed'
<1> SUFFICES ASSUME IndInv, [Next]_vars PROVE RegisteredRoomsIndexed'
  OBVIOUS
<1> USE ConnsAssumption
<1> USE DEF IndInv, TypeOK, RegisteredRoomsIndexed
<1>1. ASSUME NEW c \in Conns, SessionStep(c) PROVE RegisteredRoomsIndexed'
  <2>1. ASSUME NEW k \in Conns, Supersede(c, k), UserOf[k] = UserOf[c],
               rooms[c] = {}, rooms' = rooms
        PROVE  RegisteredRoomsIndexed'
    BY <2>1, UnindexedFacts DEF Supersede
  <2>2. CASE Connect(c)
    BY <2>2 DEF Connect, SessionInv, Fresh
  <2>3. CASE ConnectReplace(c)
    BY <2>1, <2>3 DEF ConnectReplace, SessionInv, Fresh, RegisteredIsServing
  <2>4. CASE EvictFinish(c)
    BY <2>1, <2>4 DEF EvictFinish, SessionInv, Fresh, EvictionIsExclusive
  <2>5. CASE JoinRoom(c)
    BY <2>5 DEF JoinRoom, SessionInv, RegisteredIsServing
  <2>6. CASE LeaveRoom(c)
    BY <2>6 DEF LeaveRoom, SessionInv, RegisteredIsServing
  <2>7. CASE NoticeClosed(c) \/ HandlerError(c) \/ CleanupRooms(c) \/ Disconnect(c)
    <3>1. ASSUME NEW k \in Conns, Drop(k), rooms' = rooms
          PROVE  RegisteredRoomsIndexed'
      BY <3>1, UnindexedFacts DEF Drop
    <3> QED
      BY <2>7, <3>1, CleanupStep DEF Torn
  <2>8. CASE ConnectEvict(c) \/ EvictClose(c) \/ Reply(c) \/ Publish(c)
             \/ JoinReply(c) \/ LeaveDone(c)
    BY <2>8 DEF ConnectEvict, EvictClose, Reply, Publish, JoinReply, LeaveDone
  <2>9. CASE CleanupAbort(c) \/ DisconnectDone(c)
    BY <2>9 DEF CleanupAbort, DisconnectDone
  <2> QED
    BY <1>1, <2>2, <2>3, <2>4, <2>5, <2>6, <2>7, <2>8, <2>9 DEF SessionStep
<1>2. ASSUME NEW c \in Conns, ClientStep(c) \/ Drain(c)
      PROVE RegisteredRoomsIndexed'
  BY <1>2 DEF ClientStep, Accept, Reject, Receive, PeerGone, Drain
<1>3. ASSUME NEW c \in Conns, NEW s \in Slots, OverflowStep(c, s)
      PROVE RegisteredRoomsIndexed'
  <2>1. CASE OverflowSend(c, s) \/ OverflowClose(c, s)
    BY <2>1 DEF OverflowSend, OverflowClose
  <2>2. CASE OverflowFinish(c, s)
    BY <2>2, UnindexedFacts DEF OverflowFinish, Drop
  <2> QED
    BY <1>3, <2>1, <2>2 DEF OverflowStep
<1>4. ASSUME NEW r \in Rooms, NEW x \in Users \cup {NoUser}, Broadcast(r, x)
      PROVE RegisteredRoomsIndexed'
  BY <1>4 DEF Broadcast
<1>5. CASE UNCHANGED vars
  BY <1>5 DEF vars
<1> QED
  BY <1>1, <1>2, <1>3, <1>4, <1>5 DEF Next

(* A send task is cancelled only by a step that also takes the connection  *)
(* out of _connections, and ends by itself only on a socket not open.      *)
LEMMA StepDrained == IndInv /\ [Next]_vars => RegisteredIsDrained'
<1> SUFFICES ASSUME IndInv, [Next]_vars PROVE RegisteredIsDrained'
  OBVIOUS
<1> USE ConnsAssumption
<1> USE DEF IndInv, TypeOK, RegisteredIsDrained
<1>1. ASSUME NEW c \in Conns, SessionStep(c) PROVE RegisteredIsDrained'
  <2>1. CASE Connect(c)
    BY <2>1 DEF Connect
  <2>2. CASE ConnectReplace(c)
    BY <2>2 DEF ConnectReplace, Supersede, RegisteredIsServing
  <2>3. CASE EvictFinish(c)
    BY <2>3 DEF EvictFinish, Supersede, EvictionIsExclusive, SessionInv
  <2>4. CASE NoticeClosed(c) \/ HandlerError(c) \/ CleanupRooms(c) \/ Disconnect(c)
    BY <2>4, CleanupStep DEF Torn, Drop
  <2>5. CASE ConnectEvict(c) \/ EvictClose(c) \/ Reply(c) \/ Publish(c)
             \/ JoinRoom(c) \/ JoinReply(c) \/ LeaveRoom(c) \/ LeaveDone(c)
    BY <2>5 DEF ConnectEvict, EvictClose, Reply, Publish, JoinRoom, JoinReply,
                LeaveRoom, LeaveDone
  <2>6. CASE CleanupAbort(c) \/ DisconnectDone(c)
    BY <2>6 DEF CleanupAbort, DisconnectDone
  <2> QED
    BY <1>1, <2>1, <2>2, <2>3, <2>4, <2>5, <2>6 DEF SessionStep
<1>2. ASSUME NEW c \in Conns, ClientStep(c) \/ Drain(c)
      PROVE RegisteredIsDrained'
  BY <1>2 DEF ClientStep, Accept, Reject, Receive, PeerGone, Drain,
              RegisteredIsServing, Serving
<1>3. ASSUME NEW c \in Conns, NEW s \in Slots, OverflowStep(c, s)
      PROVE RegisteredIsDrained'
  BY <1>3 DEF OverflowStep, OverflowSend, OverflowClose, OverflowFinish, Drop
<1>4. ASSUME NEW r \in Rooms, NEW x \in Users \cup {NoUser}, Broadcast(r, x)
      PROVE RegisteredIsDrained'
  BY <1>4 DEF Broadcast
<1>5. CASE UNCHANGED vars
  BY <1>5 DEF vars
<1> QED
  BY <1>1, <1>2, <1>3, <1>4, <1>5 DEF Next

(* The inductive invariant holds in every reachable state of the manager.  *)
THEOREM Invariance == Spec => []IndInv
<1>1. IndInv /\ [Next]_vars => IndInv'
  BY StepType, StepLock, StepServing, StepSession, StepEviction, StepIndexed,
     StepDrained DEF IndInv
<1> QED
  BY <1>1, InitInd, PTL DEF Spec

(* Every variable of the manager keeps its type; in particular no queue    *)
(* ever holds more than MAX_SEND_QUEUE_SIZE payloads.                      *)
THEOREM TypeCorrect == Spec => []TypeOK
BY Invariance, PTL DEF IndInv

(* No registered connection misses the broadcasts of a room it joined.     *)
THEOREM RoomsIndexed == Spec => []RegisteredRoomsIndexed
BY Invariance, PTL DEF IndInv

(* _connections holds no connection whose session has disconnected.        *)
THEOREM RegisteredServing == Spec => []RegisteredIsServing
BY Invariance, PTL DEF IndInv

(* The queue of a registered, open connection always has its drain task.   *)
THEOREM RegisteredDrained == Spec => []RegisteredIsDrained
BY Invariance, PTL DEF IndInv

(* Evictions are exclusive: no second registration slips into the await.   *)
THEOREM EvictionExclusive == Spec => []EvictionIsExclusive
BY Invariance, PTL DEF IndInv

(* connect never overwrites a connection that is still open.               *)
THEOREM NeverOverwrites == Spec => NoOverwrite
<1> DEFINE Safe == \A u \in Users :
                     connections[u] # NoConn
                       /\ connections'[u] \notin {connections[u], NoConn}
                     => ws[connections[u]] # "open"
<1>1. IndInv /\ [Next]_vars => [Safe]_vars
  <2> SUFFICES ASSUME IndInv, Next PROVE Safe
    BY DEF vars
  <2> USE ConnsAssumption
  <2> USE DEF IndInv, TypeOK
  <2>1. ASSUME NEW c \in Conns, SessionStep(c) PROVE Safe
    <3>1. CASE Connect(c) \/ ConnectReplace(c)
      BY <3>1 DEF Connect, ConnectReplace, Supersede
    <3>2. CASE EvictFinish(c)
      BY <3>2 DEF EvictFinish, Supersede, EvictionIsExclusive, SessionInv
    <3>3. CASE NoticeClosed(c) \/ HandlerError(c) \/ CleanupRooms(c) \/ Disconnect(c)
      BY <3>3, CleanupStep DEF Torn, Drop
    <3>4. CASE UNCHANGED connections
      BY <3>4
    <3>5. \/ Connect(c) \/ ConnectReplace(c) \/ EvictFinish(c)
          \/ NoticeClosed(c) \/ HandlerError(c) \/ CleanupRooms(c)
          \/ Disconnect(c) \/ UNCHANGED connections
      BY <2>1 DEF SessionStep, ConnectEvict, EvictClose, Reply, Publish,
                  JoinRoom, JoinReply, LeaveRoom, LeaveDone, CleanupAbort,
                  DisconnectDone
    <3> QED
      BY <3>1, <3>2, <3>3, <3>4, <3>5
  <2>2. ASSUME NEW c \in Conns, ClientStep(c) \/ Drain(c) PROVE Safe
    BY <2>2 DEF ClientStep, Accept, Reject, Receive, PeerGone, Drain
  <2>3. ASSUME NEW c \in Conns, NEW s \in Slots, OverflowStep(c, s)
        PROVE Safe
    BY <2>3 DEF OverflowStep, OverflowSend, OverflowClose, OverflowFinish, Drop
  <2>4. ASSUME NEW r \in Rooms, NEW x \in Users \cup {NoUser},
               Broadcast(r, x)
        PROVE Safe
    BY <2>4 DEF Broadcast
  <2> QED
    BY <2>1, <2>2, <2>3, <2>4 DEF Next
<1> QED
  BY <1>1, Invariance, PTL DEF Spec, NoOverwrite

-----------------------------------------------------------------------------
(* Waiting for the lock.                                                   *)

(* A session that has started has a socket.                                *)
SocketInv == \A c \in Conns : ws[c] = "none" => pc[c] = "new"

(* No step takes a socket away.                                            *)
LEMMA StepSocket == IndInv /\ SocketInv /\ [Next]_vars => SocketInv'
<1> SUFFICES ASSUME IndInv, SocketInv, [Next]_vars PROVE SocketInv'
  OBVIOUS
<1> USE ConnsAssumption
<1> USE DEF IndInv, TypeOK, SocketInv
<1>1. ASSUME NEW c \in Conns, SessionStep(c) PROVE SocketInv'
  <2>1. CASE NoticeClosed(c) \/ HandlerError(c) \/ CleanupRooms(c) \/ Disconnect(c)
    BY <2>1, CleanupStep DEF Torn, Serving
  <2>2. CASE Connect(c) \/ ConnectReplace(c) \/ ConnectEvict(c)
    BY <2>2 DEF Connect, ConnectReplace, ConnectEvict
  <2>3. CASE EvictClose(c) \/ EvictFinish(c)
    BY <2>3 DEF EvictClose, EvictFinish
  <2>4. CASE Reply(c) \/ Publish(c) \/ JoinRoom(c) \/ JoinReply(c)
    BY <2>4 DEF Reply, Publish, JoinRoom, JoinReply
  <2>5. CASE LeaveRoom(c) \/ LeaveDone(c) \/ CleanupAbort(c) \/ DisconnectDone(c)
    BY <2>5 DEF LeaveRoom, LeaveDone, CleanupAbort, DisconnectDone
  <2> QED
    BY <1>1, <2>1, <2>2, <2>3, <2>4, <2>5 DEF SessionStep
<1>2. ASSUME NEW c \in Conns, ClientStep(c) \/ Drain(c) PROVE SocketInv'
  BY <1>2 DEF ClientStep, Accept, Reject, Receive, PeerGone, Drain
<1>3. ASSUME NEW c \in Conns, NEW s \in Slots, OverflowStep(c, s)
      PROVE SocketInv'
  BY <1>3 DEF OverflowStep, OverflowSend, OverflowClose, OverflowFinish
<1>4. ASSUME NEW r \in Rooms, NEW x \in Users \cup {NoUser}, Broadcast(r, x)
      PROVE SocketInv'
  BY <1>4 DEF Broadcast
<1>5. CASE UNCHANGED vars
  BY <1>5 DEF vars
<1> QED
  BY <1>1, <1>2, <1>3, <1>4, <1>5 DEF Next

(* The session that holds the lock never waits for another session.        *)
THEOREM HolderGoesOn == Spec => []HolderCanGoOn
<1>1. Init => SocketInv
  BY DEF Init, SocketInv
<1>2. IndInv /\ SocketInv => HolderCanGoOn
  BY ConnsAssumption DEF IndInv, TypeOK, SocketInv, HolderCanGoOn, LockHolder,
     Locked, SessionInv, Fresh
<1> QED
  BY <1>1, <1>2, StepSocket, Invariance, PTL DEF Spec

-----------------------------------------------------------------------------
(* Who has entered.                                                        *)

(* The send task of a connection is created by its registration and only   *)
(* ended by everything else.                                               *)
LEMMA TaskSteps ==
  ASSUME IndInv, EnteredInv, [Next]_vars
  PROVE  \/ UNCHANGED send_task
         \/ \E c \in Conns : Connect(c) \/ ConnectReplace(c) \/ EvictFinish(c)
         \/ \E k \in Entered : send_task' = [send_task EXCEPT ![k] = "ended"]
<1> USE ConnsAssumption
<1> USE DEF IndInv, TypeOK
<1>1. ASSUME NEW c \in Conns,
             NoticeClosed(c) \/ HandlerError(c) \/ CleanupRooms(c) \/ Disconnect(c)
      PROVE  \/ UNCHANGED send_task
             \/ \E k \in Entered : send_task' = [send_task EXCEPT ![k] = "ended"]
  <2> DEFINE k == connections[UserOf[c]]
  <2>1. Torn(c)
    BY <1>1, CleanupStep
  <2>2. CASE UNCHANGED send_task
    BY <2>2
  <2>3. CASE k # NoConn /\ Drop(k)
    <3>1. k \in Entered
      BY <2>3 DEF RegisteredIsServing, EnteredInv
    <3> QED
      BY <2>3, <3>1 DEF Drop
  <2> QED
    BY <2>1, <2>2, <2>3 DEF Torn
<1>2. ASSUME NEW c \in Conns, SessionStep(c) \/ ClientStep(c)
      PROVE  \/ UNCHANGED send_task
             \/ Connect(c) \/ ConnectReplace(c) \/ EvictFinish(c)
             \/ \E k \in Entered : send_task' = [send_task EXCEPT ![k] = "ended"]
  BY <1>1, <1>2 DEF SessionStep, ClientStep, ConnectEvict, EvictClose, Reply,
     Publish, JoinRoom, JoinReply, LeaveRoom, LeaveDone, CleanupAbort,
     DisconnectDone, Accept, Reject, Receive, PeerGone
<1>3. ASSUME NEW c \in Conns, Drain(c)
      PROVE  \/ UNCHANGED send_task
             \/ \E k \in Entered : send_task' = [send_task EXCEPT ![k] = "ended"]
  BY <1>3 DEF Drain, Entered
<1>4. ASSUME NEW c \in Conns, NEW s \in Slots, OverflowStep(c, s)
      PROVE  \/ UNCHANGED send_task
             \/ \E k \in Entered : send_task' = [send_task EXCEPT ![k] = "ended"]
  BY <1>4 DEF OverflowStep, OverflowSend, OverflowClose, OverflowFinish, Drop,
     EnteredInv
<1>5. ASSUME NEW r \in Rooms, NEW x \in Users \cup {NoUser}, Broadcast(r, x)
      PROVE  UNCHANGED send_task
  BY <1>5 DEF Broadcast
<1>6. CASE UNCHANGED vars
  BY <1>6 DEF vars
<1> QED
  BY <1>2, <1>3, <1>4, <1>5, <1>6 DEF Next

(* A connection enters when it registers.                                  *)
LEMMA Entering ==
  ASSUME IndInv, EnteredInv, NEW c \in Conns,
         Connect(c) \/ ConnectReplace(c) \/ EvictFinish(c)
  PROVE  Entered' = Entered \cup {c}
<1> USE ConnsAssumption
<1> USE DEF IndInv, TypeOK
<1>1. ASSUME NEW k \in Entered, Supersede(c, k)
      PROVE  Entered' = Entered \cup {c}
  BY <1>1 DEF Supersede, Entered
<1>2. CASE Connect(c)
  BY <1>2 DEF Connect, Entered
<1>3. CASE ConnectReplace(c)
  <2>1. connections[UserOf[c]] \in Entered
    BY <1>3 DEF ConnectReplace, RegisteredIsServing, EnteredInv
  <2> QED
    BY <1>1, <1>3, <2>1 DEF ConnectReplace
<1>4. CASE EvictFinish(c)
  <2>1. victim[c] \in Entered
    BY <1>4 DEF EvictFinish, EnteredInv
  <2> QED
    BY <1>1, <1>4, <2>1 DEF EvictFinish
<1> QED
  BY <1>2, <1>3, <1>4

(* Nothing else lets a connection enter, and nothing takes it back.        *)
LEMMA EnteredSteps ==
  ASSUME IndInv, EnteredInv, [Next]_vars
  PROVE  \/ Entered' = Entered
         \/ \E c \in Conns : /\ Connect(c) \/ ConnectReplace(c) \/ EvictFinish(c)
                            /\ Entered' = Entered \cup {c}
<1>1. CASE UNCHANGED send_task
  BY <1>1 DEF Entered
<1>2. CASE \E k \in Entered : send_task' = [send_task EXCEPT ![k] = "ended"]
  BY <1>2 DEF Entered, IndInv, TypeOK
<1> QED
  BY <1>1, <1>2, TaskSteps, Entering

(* EnteredInv is inductive together with IndInv.                           *)
LEMMA StepEntered == IndInv /\ EnteredInv /\ [Next]_vars => EnteredInv'
<1> SUFFICES ASSUME IndInv, EnteredInv, [Next]_vars PROVE EnteredInv'
  OBVIOUS
<1> USE ConnsAssumption
<1> USE DEF IndInv, TypeOK, EnteredInv
<1>1. Entered \subseteq Entered'
  BY EnteredSteps
<1>2. ASSUME NEW c \in Conns, Connect(c) \/ ConnectReplace(c) \/ EvictFinish(c)
      PROVE  EnteredInv'
  <2>1. Entered' = Entered \cup {c}
    BY <1>2, Entering
  <2>2. /\ pc[c] \in Fresh /\ pc' = [pc EXCEPT ![c] = "loop"]
        /\ UNCHANGED <<ws, fd>>
        /\ \A d \in Conns \ {c} : victim'[d] = victim[d]
    BY <1>2 DEF Connect, ConnectReplace, EvictFinish, Fresh
  <2> QED
    BY <2>1, <2>2 DEF Fresh, Serving
<1>3. ASSUME NEW c \in Conns,
             NoticeClosed(c) \/ HandlerError(c) \/ CleanupRooms(c) \/ Disconnect(c)
      PROVE  EnteredInv'
  <2>1. /\ pc[c] \in Serving
        /\ \E p \in {"cleanup", "disconnect", "done", "closing"} :
             pc' = [pc EXCEPT ![c] = p]
        /\ \A d \in Conns : ws'[d] = ws[d] \/ ws'[d] = "closed"
        /\ \A d \in Conns \ {c} : victim'[d] = victim[d]
    BY <1>3, CleanupStep DEF Torn
  <2>2. fd' = fd
    BY <1>3 DEF NoticeClosed, HandlerError, CleanupRooms, Disconnect
  <2>3. Entered' = Entered
    <3>1. ASSUME NEW d \in Conns,
                 Connect(d) \/ ConnectReplace(d) \/ EvictFinish(d)
          PROVE  FALSE
      BY <2>1, <3>1 DEF Connect, ConnectReplace, EvictFinish, Serving
    <3> QED
      BY <3>1, EnteredSteps
  <2> QED
    BY <2>1, <2>2, <2>3 DEF Fresh, Serving
<1>4. ASSUME NEW c \in Conns, SessionStep(c) PROVE EnteredInv'
  <2>1. CASE ConnectEvict(c)
    BY <2>1, <1>1 DEF ConnectEvict, Entered, Fresh, Serving, RegisteredIsServing
  <2>2. CASE EvictClose(c)
    BY <2>2 DEF EvictClose, Entered, Fresh, Serving
  <2>3. CASE Reply(c) \/ Publish(c) \/ JoinRoom(c) \/ JoinReply(c)
    BY <2>3 DEF Reply, Publish, JoinRoom, JoinReply, Entered, Fresh, Serving
  <2>4. CASE LeaveRoom(c) \/ LeaveDone(c)
    BY <2>4 DEF LeaveRoom, LeaveDone, Entered, Fresh, Serving
  <2>5. CASE CleanupAbort(c) \/ DisconnectDone(c)
    BY <2>5 DEF CleanupAbort, DisconnectDone, Entered, Fresh, Serving
  <2> QED
    BY <1>2, <1>3, <1>4, <2>1, <2>2, <2>3, <2>4, <2>5 DEF SessionStep
<1>5. ASSUME NEW c \in Conns, ClientStep(c) PROVE EnteredInv'
  BY <1>5 DEF ClientStep, Accept, Reject, Receive, PeerGone, Entered, Fresh,
              Serving
<1>6. ASSUME NEW c \in Conns, Drain(c) PROVE EnteredInv'
  BY <1>6 DEF Drain, Entered
<1>7. ASSUME NEW c \in Conns, NEW s \in Slots, OverflowStep(c, s)
      PROVE EnteredInv'
  <2>1. CASE OverflowSend(c, s)
    <3>1. fd[<<c, s>>] = "start" /\ fd' = [fd EXCEPT ![<<c, s>>] = "send"]
      BY <2>1 DEF OverflowSend
    <3>2. Entered' = Entered /\ UNCHANGED <<pc, ws, victim>>
      BY <2>1 DEF OverflowSend, Entered
    <3> QED
      BY <3>1, <3>2
  <2>2. CASE OverflowClose(c, s)
    <3>1. fd[<<c, s>>] = "send" /\ fd' = [fd EXCEPT ![<<c, s>>] = "close"]
      BY <2>2 DEF OverflowClose
    <3>2. /\ Entered' = Entered /\ UNCHANGED <<pc, victim>>
          /\ ws' = [ws EXCEPT ![c] = "closed"]
      BY <2>2 DEF OverflowClose, Entered
    <3> QED
      BY <3>1, <3>2
  <2>3. CASE OverflowFinish(c, s)
    <3>1. c \in Entered
      BY <2>3 DEF OverflowFinish
    <3>2. Entered' = Entered
      BY <2>3, <3>1 DEF OverflowFinish, Drop, Entered
    <3> QED
      BY <2>3, <3>2 DEF OverflowFinish
  <2> QED
    BY <1>7, <2>1, <2>2, <2>3 DEF OverflowStep
<1>8. ASSUME NEW r \in Rooms, NEW x \in Users \cup {NoUser}, Broadcast(r, x)
      PROVE EnteredInv'
  BY <1>8 DEF Broadcast, Entered, RegisteredIsServing
<1>9. CASE UNCHANGED vars
  BY <1>9 DEF vars, Entered
<1> QED
  BY <1>2, <1>4, <1>5, <1>6, <1>7, <1>8, <1>9 DEF Next

(* Who can lose a connection its entry: connections of its own user that   *)
(* have entered, and a step of the connection itself that ends its serving *)
(* or finds its socket not open.                                           *)
LEMMA StepAlone ==
  IndInv /\ EnteredInv /\ AloneIsRegistered /\ [Next]_vars
    => AloneIsRegistered'
<1> SUFFICES ASSUME IndInv, EnteredInv, AloneIsRegistered, [Next]_vars,
                    NEW c \in Conns, pc'[c] \in Serving, ws'[c] = "open",
                    \A d \in Entered' : UserOf[d] = UserOf[c] => d = c
             PROVE  connections'[UserOf[c]] = c
  BY DEF AloneIsRegistered
<1> USE ConnsAssumption
<1> USE DEF IndInv, TypeOK
<1>1. ASSUME NEW d \in Conns, Connect(d) \/ ConnectReplace(d) \/ EvictFinish(d)
      PROVE  connections'[UserOf[c]] = c
  <2>1. /\ d \in Entered'
        /\ connections' = [connections EXCEPT ![UserOf[d]] = d]
    <3>1. d \in Entered'
      BY <1>1, Entering
    <3>2. connections' = [connections EXCEPT ![UserOf[d]] = d]
      BY <1>1 DEF Connect, ConnectReplace, EvictFinish, Supersede
    <3> QED
      BY <3>1, <3>2
  <2>2. CASE UserOf[d] = UserOf[c]
    BY <2>1, <2>2
  <2>3. CASE UserOf[d] # UserOf[c]
    <3>1. pc[c] \in Serving /\ ws[c] = "open"
      BY <1>1, <2>3 DEF Connect, ConnectReplace, EvictFinish
    <3>2. Entered \subseteq Entered'
      BY EnteredSteps
    <3> QED
      BY <2>1, <2>3, <3>1, <3>2 DEF AloneIsRegistered
  <2> QED
    BY <2>2, <2>3
<1>2. CASE /\ Entered \subseteq Entered'
           /\ pc[c] \in Serving /\ ws[c] = "open"
           /\ connections'[UserOf[c]] = connections[UserOf[c]]
  BY <1>2 DEF AloneIsRegistered
<1>3. Entered \subseteq Entered'
  BY EnteredSteps
<1>4. ASSUME NEW d \in Conns,
             NoticeClosed(d) \/ HandlerError(d) \/ CleanupRooms(d) \/ Disconnect(d)
      PROVE  connections'[UserOf[c]] = c
  <2>1. pc[d] \in Serving /\ d \in Entered /\ Torn(d)
    BY <1>4, CleanupStep DEF EnteredInv
  <2>2. ws[c] = "open"
    BY <1>4, CleanupStep
  <2>3. CASE UNCHANGED connections
    BY <1>2, <1>3, <2>1, <2>2, <2>3 DEF Torn
  <2>4. CASE ~UNCHANGED connections
    <3>1. d # c
      BY <2>1, <2>4 DEF Torn, Serving
    <3>2. UserOf[d] # UserOf[c] /\ pc[c] \in Serving
      BY <1>3, <2>1, <3>1 DEF Torn
    <3>3. connections'[UserOf[c]] = connections[UserOf[c]]
      BY <2>1, <3>2 DEF Torn, Drop, RegisteredIsServing
    <3> QED
      BY <1>2, <1>3, <2>2, <3>2, <3>3
  <2> QED
    BY <2>3, <2>4
<1>5. ASSUME NEW d \in Conns, SessionStep(d) \/ ClientStep(d) \/ Drain(d),
             ~(Connect(d) \/ ConnectReplace(d) \/ EvictFinish(d))
      PROVE  pc[c] \in Serving /\ ws[c] = "open"
  <2>1. CASE SessionStep(d)
    <3>1. CASE NoticeClosed(d) \/ HandlerError(d) \/ CleanupRooms(d) \/ Disconnect(d)
      BY <3>1, CleanupStep DEF Torn
    <3> QED
      BY <1>5, <2>1, <3>1 DEF SessionStep, ConnectEvict, EvictClose, Reply,
         Publish, JoinRoom, JoinReply, LeaveRoom, LeaveDone, CleanupAbort,
         DisconnectDone, Serving
  <2>2. CASE ClientStep(d) \/ Drain(d)
    BY <2>2 DEF ClientStep, Accept, Reject, Receive, PeerGone, Drain, Serving
  <2> QED
    BY <1>5, <2>1, <2>2
<1>6. ASSUME NEW d \in Conns, SessionStep(d) \/ ClientStep(d) \/ Drain(d)
      PROVE  connections'[UserOf[c]] = c
  <2>1. CASE /\ UNCHANGED connections
             /\ ~(Connect(d) \/ ConnectReplace(d) \/ EvictFinish(d))
    BY <1>2, <1>3, <1>5, <1>6, <2>1
  <2>2. \/ UNCHANGED connections
        \/ Connect(d) \/ ConnectReplace(d) \/ EvictFinish(d)
        \/ NoticeClosed(d) \/ HandlerError(d) \/ CleanupRooms(d) \/ Disconnect(d)
    BY <1>6 DEF SessionStep, ClientStep, ConnectEvict, EvictClose, Reply,
       Publish, JoinRoom, JoinReply, LeaveRoom, LeaveDone, CleanupAbort,
       DisconnectDone, Accept, Reject, Receive, PeerGone, Drain
  <2> QED
    BY <1>1, <1>4, <2>1, <2>2
<1>7. ASSUME NEW d \in Conns, NEW s \in Slots, OverflowStep(d, s)
      PROVE  connections'[UserOf[c]] = c
  <2>1. pc[c] \in Serving /\ ws[c] = "open"
    BY <1>7 DEF OverflowStep, OverflowSend, OverflowClose, OverflowFinish
  <2>2. CASE OverflowFinish(d, s)
    <3>1. d \in Entered /\ ws'[d] # "open"
      BY <2>2 DEF OverflowFinish, EnteredInv
    <3>2. UserOf[d] # UserOf[c]
      BY <1>3, <3>1
    <3> QED
      BY <1>2, <1>3, <2>1, <2>2, <3>2 DEF OverflowFinish, Drop
  <2>3. CASE UNCHANGED connections
    BY <1>2, <1>3, <2>1, <2>3
  <2> QED
    BY <1>7, <2>2, <2>3 DEF OverflowStep, OverflowSend, OverflowClose
<1>8. ASSUME NEW r \in Rooms, NEW x \in Users \cup {NoUser}, Broadcast(r, x)
      PROVE  connections'[UserOf[c]] = c
  BY <1>2, <1>3, <1>8 DEF Broadcast
<1>9. CASE UNCHANGED vars
  BY <1>2, <1>3, <1>9 DEF vars
<1> QED
  BY <1>6, <1>7, <1>8, <1>9 DEF Next

(* The invariants about entering hold in the initial state.                *)
LEMMA InitEntered == Init => EnteredInv /\ AloneIsRegistered
BY ConnsAssumption
   DEF Init, EnteredInv, AloneIsRegistered, Entered, Fresh, Serving

(* EnteredInv and AloneIsRegistered hold in every reachable state.         *)
LEMMA EnteredInvariance == Spec => [](EnteredInv /\ AloneIsRegistered)
<1>1. IndInv /\ EnteredInv /\ AloneIsRegistered /\ [Next]_vars
        => EnteredInv' /\ AloneIsRegistered'
  BY StepEntered, StepAlone
<1> QED
  BY <1>1, Invariance, InitEntered, PTL DEF Spec

(* An open connection whose user has had no other one is registered: no    *)
(* clean-up by user id and no overflow task takes its entry away.          *)
THEOREM AloneRegistered == Spec => []AloneIsRegistered
BY EnteredInvariance, PTL

-----------------------------------------------------------------------------
(* The manager seen from outside.                                          *)

(* Registering is entering the hub.                                        *)
LEMMA EnterMaps ==
  ASSUME IndInv, EnteredInv, NEW c \in Conns,
         Connect(c) \/ ConnectReplace(c) \/ EvictFinish(c)
  PROVE  Outside!Enter(c)
<1> USE ConnsAssumption
<1> USE DEF IndInv, TypeOK
<1>1. pc[c] \in Fresh
  BY DEF Connect, ConnectReplace, EvictFinish, Fresh
<1>2. c \notin Entered /\ rooms[c] = {}
  BY <1>1 DEF EnteredInv, SessionInv
<1>3. /\ connections' = [connections EXCEPT ![UserOf[c]] = c]
      /\ send_queue' = [send_queue EXCEPT ![c] = 1]
      /\ rooms' = rooms
  BY DEF Connect, ConnectReplace, EvictFinish, Supersede
<1>4. Joined' = [d \in Conns |-> IF UserOf[d] = UserOf[c] THEN {} ELSE Joined[d]]
  BY <1>2, <1>3 DEF Joined
<1> QED
  BY <1>2, <1>3, <1>4, Entering DEF Outside!Enter

(* Popping an entry is leaving the hub.                                    *)
LEMMA ExitMaps ==
  ASSUME TypeOK, NEW k \in Conns, Drop(k), Entered' = Entered,
         UNCHANGED <<rooms, send_queue>>
  PROVE  Outside!Next
<1> USE ConnsAssumption
<1> USE DEF TypeOK
<1> DEFINE u == UserOf[k]
<1>1. connections' = [connections EXCEPT ![u] = NoConn]
  BY DEF Drop
<1>2. Joined' = [c \in Conns |-> IF UserOf[c] = u THEN {} ELSE Joined[c]]
  BY <1>1 DEF Joined
<1>3. Outside!Exit(u)
  BY <1>1, <1>2 DEF Outside!Exit
<1> QED
  BY <1>3 DEF Outside!Next

(* A reply goes to the connection that is in, if any.                      *)
LEMMA ReplyMaps ==
  ASSUME IndInv, NEW c \in Conns, SendToUser(UserOf[c]),
         UNCHANGED <<connections, rooms, send_task>>
  PROVE  Outside!Next \/ UNCHANGED Outside!hubVars
<1> USE ConnsAssumption
<1> USE DEF IndInv, TypeOK
<1> DEFINE k == connections[UserOf[c]]
<1>1. UNCHANGED <<connections, Entered, Joined>>
  BY DEF Entered, Joined
<1>2. CASE k = NoConn
  BY <1>1, <1>2 DEF SendToUser, Outside!hubVars
<1>3. CASE k # NoConn
  <2>1. k \in Conns /\ UserOf[k] = UserOf[c]
    BY <1>3 DEF RegisteredIsServing
  <2>2. send_queue' = Outside!Queued({k})
    BY <2>1 DEF SendToUser, Outside!Queued
  <2>3. Outside!Reply(k)
    BY <1>1, <2>1, <2>2 DEF Outside!Reply, Outside!In
  <2> QED
    BY <2>1, <2>3 DEF Outside!Next
<1> QED
  BY <1>2, <1>3

(* Joins and leaves act on the connection that is in, if any.              *)
LEMMA JoinMaps ==
  ASSUME IndInv, NEW c \in Conns, JoinRoom(c) \/ LeaveRoom(c)
  PROVE  Outside!Next \/ UNCHANGED Outside!hubVars
<1> USE ConnsAssumption
<1> USE DEF IndInv, TypeOK
<1> DEFINE k == connections[UserOf[c]]
           r == arg[c]
<1>1. UNCHANGED <<connections, Entered, send_queue>> /\ r \in Rooms
  BY DEF JoinRoom, LeaveRoom, Entered, SessionInv
<1>2. CASE k = NoConn
  BY <1>1, <1>2 DEF JoinRoom, LeaveRoom, Joined, Outside!hubVars
<1>3. CASE k # NoConn
  <2>1. k \in Conns /\ UserOf[k] = UserOf[c] /\ connections[UserOf[k]] = k
    BY <1>3 DEF RegisteredIsServing
  <2>2. CASE JoinRoom(c)
    <3>1. rooms' = [rooms EXCEPT ![k] = @ \cup {r}]
      BY <1>3, <2>2 DEF JoinRoom
    <3>2. Joined' = [Joined EXCEPT ![k] = @ \cup {r}]
      BY <1>1, <2>1, <3>1 DEF Joined
    <3>3. Outside!Join(k, r)
      BY <1>1, <2>1, <3>2 DEF Outside!Join, Outside!In
    <3> QED
      BY <1>1, <2>1, <3>3 DEF Outside!Next
  <2>3. CASE LeaveRoom(c)
    <3>1. rooms' = [rooms EXCEPT ![k] = @ \ {r}]
      BY <1>3, <2>3 DEF LeaveRoom
    <3>2. Joined' = [Joined EXCEPT ![k] = @ \ {r}]
      BY <1>1, <2>1, <3>1 DEF Joined
    <3>3. Outside!Leave(k, r)
      BY <1>1, <2>1, <3>2 DEF Outside!Leave, Outside!In
    <3> QED
      BY <1>1, <2>1, <3>3 DEF Outside!Next
  <2> QED
    BY <2>2, <2>3
<1> QED
  BY <1>2, <1>3

(* A broadcast goes to connections that are in, and misses none of those   *)
(* that have joined the room: this is where RegisteredRoomsIndexed counts. *)
LEMMA BroadcastMaps ==
  ASSUME IndInv, NEW r \in Rooms, NEW x \in Users \cup {NoUser}, Broadcast(r, x)
  PROVE  Outside!Next
<1> USE ConnsAssumption
<1> USE DEF IndInv, TypeOK
<1> DEFINE targets == {connections[u] : u \in room_connections[r] \ {x}}
                        \ {NoConn}
<1>1. UNCHANGED <<connections, Entered, Joined>>
  BY DEF Broadcast, Entered, Joined
<1>2. targets \in SUBSET {c \in Conns : connections[UserOf[c]] = c /\ UserOf[c] # x}
  BY DEF RegisteredIsServing
<1>3. ASSUME NEW c \in Conns, connections[UserOf[c]] = c, r \in Joined[c],
             UserOf[c] # x
      PROVE  c \in targets
  BY <1>3 DEF Joined, RegisteredRoomsIndexed
<1>4. send_queue' = Outside!Queued(targets)
  BY <1>2 DEF Broadcast, Outside!Queued
<1> HIDE DEF targets
<1>5. Outside!Broadcast(r, x)
  BY <1>1, <1>2, <1>3, <1>4 DEF Outside!Broadcast, Outside!In
<1> QED
  BY <1>5 DEF Outside!Next

(* The clean-up of a session pops an entry or does nothing to be seen.     *)
LEMMA CleanupMaps ==
  ASSUME IndInv, EnteredInv, NEW c \in Conns,
         NoticeClosed(c) \/ HandlerError(c) \/ CleanupRooms(c) \/ Disconnect(c)
  PROVE  Outside!Next \/ UNCHANGED Outside!hubVars
<1> USE ConnsAssumption
<1> USE DEF IndInv, TypeOK
<1> DEFINE k == connections[UserOf[c]]
<1>1. Torn(c) /\ UNCHANGED <<rooms, send_queue>>
  BY CleanupStep DEF NoticeClosed, HandlerError, CleanupRooms, Disconnect
<1>2. CASE UNCHANGED <<connections, send_task>>
  BY <1>1, <1>2 DEF Entered, Joined, Outside!hubVars
<1>3. CASE k # NoConn /\ Drop(k)
  <2>1. k \in Entered
    BY <1>3 DEF RegisteredIsServing, EnteredInv
  <2>2. k \in Conns /\ Entered' = Entered
    BY <1>3, <2>1 DEF Drop, Entered
  <2> HIDE DEF k
  <2> QED
    BY <1>1, <1>3, <2>2, ExitMaps
<1> QED
  BY <1>1, <1>2, <1>3 DEF Torn

(* The ConnectionManager implements Hub: behind its lock, its awaits and   *)
(* its unlocked overflow tasks, every operation takes effect in one step.  *)
THEOREM ManagerImplementsHub == Spec => ManagerIsHub
<1> USE ConnsAssumption
<1>1. Init => Outside!Init
  BY DEF Init, Outside!Init, Entered, Joined
<1>2. IndInv /\ EnteredInv /\ [Next]_vars => [Outside!Next]_(Outside!hubVars)
  <2> SUFFICES ASSUME IndInv, EnteredInv, [Next]_vars
               PROVE  Outside!Next \/ UNCHANGED Outside!hubVars
    OBVIOUS
  <2>1. CASE UNCHANGED <<connections, rooms, send_queue, send_task>>
    BY <2>1 DEF Entered, Joined, Outside!hubVars
  <2>2. ASSUME NEW c \in Conns, SessionStep(c) \/ ClientStep(c)
        PROVE  Outside!Next \/ UNCHANGED Outside!hubVars
    <3>1. CASE Connect(c) \/ ConnectReplace(c) \/ EvictFinish(c)
      BY <3>1, EnterMaps DEF Outside!Next
    <3>2. CASE NoticeClosed(c) \/ HandlerError(c) \/ CleanupRooms(c) \/ Disconnect(c)
      BY <3>2, CleanupMaps
    <3>3. CASE JoinRoom(c) \/ LeaveRoom(c)
      BY <3>3, JoinMaps
    <3>4. CASE Reply(c) \/ JoinReply(c)
      BY <3>4, ReplyMaps DEF Reply, JoinReply
    <3>5. CASE ConnectEvict(c) \/ EvictClose(c) \/ Publish(c) \/ LeaveDone(c)
               \/ CleanupAbort(c) \/ DisconnectDone(c)
      BY <2>1, <3>5 DEF ConnectEvict, EvictClose, Publish, LeaveDone,
                        CleanupAbort, DisconnectDone
    <3>6. CASE ClientStep(c)
      BY <2>1, <3>6 DEF ClientStep, Accept, Reject, Receive, PeerGone
    <3> QED
      BY <2>2, <3>1, <3>2, <3>3, <3>4, <3>5, <3>6 DEF SessionStep
  <2>3. ASSUME NEW c \in Conns, Drain(c)
        PROVE  Outside!Next
    <3>1. UNCHANGED <<connections, Entered, Joined>>
      BY <2>3 DEF Drain, Entered, Joined, IndInv, TypeOK
    <3>2. Outside!Send(c)
      BY <2>3, <3>1 DEF Drain, Outside!Send
    <3> QED
      BY <3>2 DEF Outside!Next
  <2>4. ASSUME NEW c \in Conns, NEW s \in Slots, OverflowStep(c, s)
        PROVE  Outside!Next \/ UNCHANGED Outside!hubVars
    <3>1. CASE OverflowSend(c, s) \/ OverflowClose(c, s)
      BY <2>1, <3>1 DEF OverflowSend, OverflowClose
    <3>2. CASE OverflowFinish(c, s)
      <4>1. c \in Entered
        BY <3>2 DEF OverflowFinish, EnteredInv
      <4>2. Entered' = Entered
        BY <3>2, <4>1 DEF OverflowFinish, Drop, Entered, IndInv, TypeOK
      <4> QED
        BY <3>2, <4>2, ExitMaps DEF OverflowFinish, IndInv
    <3> QED
      BY <2>4, <3>1, <3>2 DEF OverflowStep
  <2>5. CASE UNCHANGED vars
    BY <2>1, <2>5 DEF vars
  <2> QED
    BY <2>2, <2>3, <2>4, <2>5, BroadcastMaps DEF Next
<1> QED
  BY <1>1, <1>2, Invariance, EnteredInvariance, PTL
     DEF Spec, ManagerIsHub, Outside!Spec
=============================================================================

---------------------------- MODULE ClientProofs ----------------------------
(***************************************************************************)
(* Proofs about Client, for any number of rooms, sockets and API calls.    *)
(***************************************************************************)
EXTENDS Client, TLAPS

(* OneLiveSocket is needed for HearsCurrentRoom: onopen joins the current  *)
(* room through state.ws, so the socket that opens must be state.ws.       *)
ClientInv == TypeOK /\ OneLiveSocket /\ HearsCurrentRoom

USE SocketAssumption, RoomAssumption

(* The calls of the client stay well-formed.                               *)
LEMMA RequestType ==
  ASSUME NEW op \in Op, NEW r \in Rooms \cup {NoRoom}
  PROVE  Request(op, r) \in Call
BY DEF Request, Call

LEMMA IdleType == Idle \in Call
BY RequestType DEF Idle, Op

(* A call is started, goes on to its next request, or ends.                *)
LEMMA CallType ==
  ASSUME TypeOK, NEW c \in Calls
  PROVE  /\ \A op \in Op, r \in Rooms \cup {NoRoom} :
              (Start(c, op, r) \/ Then(c, op, r)) => call' \in [Calls -> Call]
         /\ Done(c) => call' \in [Calls -> Call]
<1>1. ASSUME NEW op \in Op, NEW r \in Rooms \cup {NoRoom},
             Start(c, op, r) \/ Then(c, op, r)
      PROVE  call' \in [Calls -> Call]
  <2>1. Request(op, r) \in Call
    BY RequestType
  <2> QED
    BY <1>1, <2>1 DEF TypeOK, Start, Then
<1>2. ASSUME Done(c)
      PROVE  call' \in [Calls -> Call]
  BY <1>2, IdleType DEF TypeOK, Done
<1> QED
  BY <1>1, <1>2

(* The client starts without a socket and without a room.                  *)
LEMMA InitClient == Init => ClientInv
<1> SUFFICES ASSUME Init PROVE ClientInv
  OBVIOUS
<1>1. call \in [Calls -> Call]
  <2>1. Request("init", NoRoom) \in Call
    BY RequestType DEF Op
  <2> QED
    BY <2>1, IdleType DEF Init
<1>2. token \in BOOLEAN
  BY DEF Init
<1>3. TypeOK
  BY <1>1, <1>2 DEF Init, TypeOK, SocketState
<1> QED
  BY <1>3 DEF Init, ClientInv, OneLiveSocket, HearsCurrentRoom, IsOpen, Live

(* connectWebSocket replaces state.ws only when it is not live.            *)
LEMMA ConnectStep ==
  ASSUME ClientInv, connectWebSocket,
         UNCHANGED <<currentRoom, deaf>>
  PROVE  /\ ws' \in Sockets \cup {NoSocket}
         /\ socket' \in [Sockets -> SocketState]
         /\ joined' \subseteq Rooms
         /\ OneLiveSocket'
         /\ HearsCurrentRoom'
<1>1. CASE HasLive /\ UNCHANGED socketVars
  BY <1>1 DEF ClientInv, TypeOK, OneLiveSocket, HearsCurrentRoom, IsOpen, Live,
     socketVars
<1>2. CASE ~HasLive /\ NewWebSocket
  <2>1. PICK s \in Sockets :
          /\ ws' = s
          /\ socket' = [socket EXCEPT ![s] = "connecting"]
          /\ joined' = {}
    BY <1>2 DEF NewWebSocket
  <2>2. \A t \in Sockets : ~Live(t)
    BY <1>2 DEF ClientInv, OneLiveSocket, HasLive
  <2>3. /\ ws' \in Sockets \cup {NoSocket}
        /\ socket' \in [Sockets -> SocketState]
        /\ joined' \subseteq Rooms
    BY <2>1 DEF ClientInv, TypeOK, SocketState
  <2>4. socket'[s] = "connecting"
    BY <2>1 DEF ClientInv, TypeOK
  <2>5. OneLiveSocket'
    BY <2>1, <2>2 DEF ClientInv, TypeOK, OneLiveSocket, Live
  <2>6. HearsCurrentRoom'
    BY <2>1, <2>4 DEF HearsCurrentRoom, IsOpen
  <2> QED
    BY <2>3, <2>5, <2>6
<1> QED
  BY <1>1, <1>2 DEF connectWebSocket

(* logout closes a live socket before it forgets it.                       *)
LEMMA LogoutStep ==
  ASSUME ClientInv, logout, call' \in [Calls -> Call],
         UNCHANGED reconnectTimer
  PROVE  ClientInv'
<1>1. TypeOK'
  BY DEF ClientInv, TypeOK, logout, SocketState
<1>2. OneLiveSocket'
  BY DEF ClientInv, TypeOK, OneLiveSocket, Live, HasLive, logout
<1>3. HearsCurrentRoom'
  BY DEF HearsCurrentRoom, logout
<1> QED
  BY <1>1, <1>2, <1>3 DEF ClientInv

(* switchRoom leaves the old room and then joins the new one.              *)
LEMMA SwitchStep ==
  ASSUME ClientInv, NEW r \in Rooms, switchRoom(r), rooms' \subseteq Rooms,
         call' \in [Calls -> Call],
         UNCHANGED <<screen, token, ws, socket, reconnectTimer>>
  PROVE  ClientInv'
<1>1. TypeOK'
  BY DEF ClientInv, TypeOK, switchRoom, wsSend
<1>2. OneLiveSocket'
  BY DEF ClientInv, OneLiveSocket, Live
<1>3. HearsCurrentRoom'
  BY DEF ClientInv, HearsCurrentRoom, IsOpen, switchRoom, wsSend
<1> QED
  BY <1>1, <1>2, <1>3 DEF ClientInv

(* Steps that touch neither sockets nor rooms.                             *)
LEMMA QuietStep ==
  ASSUME ClientInv, UNCHANGED <<socketVars, currentRoom, deaf>>,
         screen' \in {"auth", "chat"}, token' \in BOOLEAN,
         rooms' \subseteq Rooms, call' \in [Calls -> Call],
         UNCHANGED reconnectTimer
  PROVE  ClientInv'
<1>1. TypeOK'
  BY DEF ClientInv, TypeOK, socketVars
<1> QED
  BY <1>1 DEF ClientInv, OneLiveSocket, HearsCurrentRoom, IsOpen, Live,
     socketVars

(* What the user does keeps the invariant.                                 *)
LEMMA UserKeeps ==
  ASSUME ClientInv, UserStep
  PROVE  ClientInv'
<1>t. TypeOK
  BY DEF ClientInv
<1>1. CASE Logout
  BY <1>1, <1>t, LogoutStep DEF Logout, TypeOK
<1>2. ASSUME NEW c \in Calls, Login(c) \/ OtherCall(c)
      PROVE  ClientInv'
  <2>1. call' \in [Calls -> Call]
    BY <1>2, <1>t, CallType DEF Login, OtherCall, Op
  <2> QED
    BY <1>2, <1>t, <2>1, QuietStep DEF Login, OtherCall, roomVars, TypeOK
<1>3. ASSUME NEW c \in Calls, NEW r \in Rooms, EnterRoom(c, r)
      PROVE  ClientInv'
  <2>1. call' \in [Calls -> Call]
    BY <1>3, <1>t, CallType DEF EnterRoom, Op
  <2> QED
    BY <1>3, <1>t, <2>1, QuietStep DEF EnterRoom, roomVars, TypeOK
<1>4. ASSUME NEW c \in Calls, NEW r \in Rooms, SwitchRoom(c, r)
      PROVE  ClientInv'
  <2>1. call' \in [Calls -> Call]
    BY <1>4, <1>t, CallType DEF SwitchRoom, Op
  <2>2. rooms' \subseteq Rooms
    BY <1>4, <1>t DEF SwitchRoom, TypeOK
  <2> QED
    BY <1>4, <2>1, <2>2, SwitchStep DEF SwitchRoom
<1>5. ASSUME NEW c \in Calls, leaveCurrentRoom(c)
      PROVE  ClientInv'
  <2>1. call' \in [Calls -> Call]
    BY <1>5, <1>t, CallType DEF leaveCurrentRoom, Op
  <2>2. TypeOK'
    BY <1>5, <1>t, <2>1 DEF leaveCurrentRoom, wsSend, TypeOK
  <2>3. OneLiveSocket'
    BY <1>5 DEF ClientInv, leaveCurrentRoom, OneLiveSocket, Live
  <2>4. HearsCurrentRoom'
    BY <1>5 DEF ClientInv, leaveCurrentRoom, HearsCurrentRoom, IsOpen
  <2> QED
    BY <2>2, <2>3, <2>4 DEF ClientInv
<1> QED
  BY <1>1, <1>2, <1>3, <1>4, <1>5 DEF UserStep

(* The answers to API calls keep the invariant.                            *)
LEMMA AnswerKeeps ==
  ASSUME ClientInv, NEW c \in Calls, Answer(c)
  PROVE  ClientInv'
<1>t. TypeOK /\ call[c] \in Call /\ call[c].room \in Rooms \cup {NoRoom}
  BY DEF ClientInv, TypeOK, Call
<1>1. CASE LoginOk(c) \/ RoomsOk(c) \/ OtherOk(c)
  <2>1. call' \in [Calls -> Call]
    BY <1>1, <1>t, CallType DEF LoginOk, RoomsOk, OtherOk, Op
  <2> QED
    BY <1>1, <1>t, <2>1, QuietStep DEF LoginOk, RoomsOk, OtherOk, roomVars,
       TypeOK
<1>2. CASE CallFails(c)
  <2>1. call' \in [Calls -> Call] /\ token' \in BOOLEAN
    BY <1>2, <1>t, CallType DEF CallFails, TypeOK
  <2> QED
    BY <1>2, <1>t, <2>1, QuietStep DEF CallFails, roomVars, TypeOK
<1>3. CASE EnterOk(c)
  <2>1. call' \in [Calls -> Call]
    BY <1>3, <1>t, CallType DEF EnterOk, Op
  <2> QED
    BY <1>3, <1>t, <2>1, QuietStep DEF EnterOk, roomVars, TypeOK
<1>4. CASE Unauthorized(c) \/ RefreshOk(c)
  <2>1. call' \in [Calls -> Call]
    BY <1>4, <1>t DEF Unauthorized, RefreshOk, TypeOK, Call
  <2> QED
    BY <1>4, <1>t, <2>1, QuietStep DEF Unauthorized, RefreshOk, roomVars,
       TypeOK
<1>5. CASE SessionExpired(c)
  BY <1>5, <1>t, CallType, LogoutStep DEF SessionExpired
<1>6. CASE ProfileOk(c)
  <2>1. call' \in [Calls -> Call]
    BY <1>6, <1>t, CallType DEF ProfileOk, Op
  <2>2. /\ ws' \in Sockets \cup {NoSocket}
        /\ socket' \in [Sockets -> SocketState]
        /\ joined' \subseteq Rooms
        /\ OneLiveSocket' /\ HearsCurrentRoom'
    BY <1>6, ConnectStep DEF ProfileOk, roomVars
  <2> QED
    BY <1>6, <1>t, <2>1, <2>2 DEF ProfileOk, roomVars, ClientInv, TypeOK
<1>7. CASE LeaveOk(c)
  <2>1. call' \in [Calls -> Call]
    BY <1>7, <1>t, CallType DEF LeaveOk, Op
  <2>2. TypeOK'
    BY <1>7, <1>t, <2>1 DEF LeaveOk, socketVars, TypeOK
  <2> QED
    BY <1>7, <2>2 DEF LeaveOk, socketVars, ClientInv, OneLiveSocket,
       HearsCurrentRoom, Live
<1>8. CASE EnterRoomsDone(c)
  <2>1. call' \in [Calls -> Call]
    BY <1>8, <1>t, CallType DEF EnterRoomsDone, Op
  <2>2. rooms' \subseteq Rooms
    BY <1>8, <1>t DEF EnterRoomsDone, TypeOK
  <2>3. CASE call[c].room \in Rooms
    BY <1>8, <2>1, <2>2, <2>3, SwitchStep DEF EnterRoomsDone
  <2>4. CASE call[c].room = NoRoom
    <3>1. /\ UNCHANGED <<currentRoom, screen, token, ws, socket, reconnectTimer>>
          /\ wsSend({currentRoom}, {})
          /\ deaf' = (deaf \/ (IsOpen /\ currentRoom # NoRoom))
      BY <1>8, <2>2, <2>4 DEF EnterRoomsDone, switchRoom
    <3>2. TypeOK'
      BY <1>t, <2>1, <2>2, <3>1 DEF TypeOK, wsSend
    <3> QED
      BY <3>1, <3>2 DEF ClientInv, OneLiveSocket, HearsCurrentRoom, IsOpen,
         Live, wsSend
  <2> QED
    BY <1>t, <2>3, <2>4
<1> QED
  BY <1>1, <1>2, <1>3, <1>4, <1>5, <1>6, <1>7, <1>8 DEF Answer

(* Socket events keep the invariant.                                       *)
LEMMA SocketKeeps ==
  ASSUME ClientInv, NEW s \in Sockets,
         Opened(s) \/ Fails(s) \/ ServerCloses(s) \/ Closed(s)
  PROVE  ClientInv'
<1> USE DEF ClientInv
<1>1. CASE Opened(s)
  <2>1. s = ws
    BY <1>1 DEF Opened, OneLiveSocket, Live
  <2>2. /\ socket' = [socket EXCEPT ![s] = "open"]
        /\ joined' = {currentRoom} \ {NoRoom}
        /\ UNCHANGED <<screen, token, ws, reconnectTimer, currentRoom, rooms,
                       call>>
        /\ deaf' = FALSE
    BY <1>1, <2>1 DEF Opened
  <2>3. TypeOK'
    BY <2>2 DEF TypeOK, SocketState
  <2>4. OneLiveSocket'
    BY <2>1, <2>2 DEF TypeOK, OneLiveSocket, Live
  <2>5. HearsCurrentRoom'
    BY <2>2 DEF HearsCurrentRoom
  <2> QED
    BY <2>3, <2>4, <2>5
<1>2. CASE Fails(s) \/ ServerCloses(s)
  <2>1. PICK x \in {"failing", "closing"} :
          /\ socket' = [socket EXCEPT ![s] = x]
          /\ Hangup(s)
          /\ UNCHANGED <<screen, token, ws, reconnectTimer, roomVars, call>>
          /\ Live(s)
    BY <1>2 DEF Fails, ServerCloses, Live
  <2>2. s = ws
    BY <2>1 DEF OneLiveSocket
  <2>3. TypeOK'
    BY <2>1 DEF TypeOK, SocketState, Hangup, roomVars
  <2>4. OneLiveSocket'
    BY <2>1 DEF TypeOK, OneLiveSocket, Live
  <2>5. HearsCurrentRoom'
    BY <2>1, <2>2 DEF TypeOK, HearsCurrentRoom, IsOpen
  <2> QED
    BY <2>3, <2>4, <2>5
<1>3. CASE Closed(s)
  <2>1. /\ socket' = [socket EXCEPT ![s] = "closed"]
        /\ reconnectTimer' \in BOOLEAN
        /\ UNCHANGED <<screen, token, ws, joined, currentRoom, rooms, deaf, call>>
    BY <1>3 DEF Closed, TypeOK, roomVars
  <2>2. TypeOK'
    BY <2>1 DEF TypeOK, SocketState
  <2>3. OneLiveSocket' /\ HearsCurrentRoom'
    BY <2>1 DEF TypeOK, OneLiveSocket, Live, HearsCurrentRoom, IsOpen
  <2> QED
    BY <2>2, <2>3
<1> QED
  BY <1>1, <1>2, <1>3

(* The invariant holds in every reachable state.                           *)
THEOREM ClientInvariance == Spec => []ClientInv
<1>1. ClientInv /\ [Next]_vars => ClientInv'
  <2> SUFFICES ASSUME ClientInv, [Next]_vars PROVE ClientInv'
    OBVIOUS
  <2>1. CASE TimerFires
    <3>1. /\ ws' \in Sockets \cup {NoSocket}
          /\ socket' \in [Sockets -> SocketState]
          /\ joined' \subseteq Rooms
          /\ OneLiveSocket' /\ HearsCurrentRoom'
      BY <2>1, ConnectStep DEF TimerFires, roomVars
    <3> QED
      BY <2>1, <3>1 DEF TimerFires, roomVars, ClientInv, TypeOK
  <2>2. CASE UNCHANGED vars
    BY <2>2, QuietStep DEF vars, socketVars, ClientInv, TypeOK
  <2> QED
    BY <2>1, <2>2, UserKeeps, AnswerKeeps, SocketKeeps DEF Next
<1> QED
  BY <1>1, InitClient, PTL DEF Spec

(* The client never has two live connections.                              *)
THEOREM SingleSocket == Spec => []OneLiveSocket
BY ClientInvariance, PTL DEF ClientInv

(* Over an open connection the client hears the room it shows.             *)
THEOREM RoomHeard == Spec => []HearsCurrentRoom
BY ClientInvariance, PTL DEF ClientInv
=============================================================================

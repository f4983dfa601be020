------------------------------- MODULE Client -------------------------------
(***************************************************************************)
(* The browser client (client/app.js): the WebSocket with its reconnect    *)
(* timer, log-in and log-out, token refresh, and the switching, joining    *)
(* and leaving of rooms.                                                   *)
(*                                                                         *)
(* JavaScript runs one task at a time: an action is one event (a click, a  *)
(* timer, a socket event, the answer to a fetch) with everything it does   *)
(* up to the next await.  The server answers fetches and opens, refuses    *)
(* and closes sockets as it likes.  What the session behind state.ws has   *)
(* been asked is kept as the set of rooms joined and not left again.       *)
(* Delays, rendering, typing and messages themselves are left out.         *)
(***************************************************************************)
EXTENDS Naturals

CONSTANTS
  Rooms,
  Sockets,   \* bound: WebSocket objects that exist at once
  Calls,     \* bound: API calls under way at once
  NoRoom, NoSocket

ASSUME SocketAssumption == NoSocket \notin Sockets
ASSUME RoomAssumption == NoRoom \notin Rooms

VARIABLES
  screen,          \* the screen that is shown, "auth" or "chat"
  token,           \* are state.accessToken and state.refreshToken set?
  ws,              \* state.ws
  socket,          \* per socket: its readyState and what its onclose will say
  joined,          \* rooms the session behind state.ws was asked to join
  reconnectTimer,  \* is state.reconnectTimer set?
  currentRoom,     \* state.currentRoom
  rooms,           \* state.rooms
  call,            \* the API calls under way
  deaf             \* history: leave_room went out and the room stayed current

vars == <<screen, token, ws, socket, joined, reconnectTimer, currentRoom,
          rooms, call, deaf>>

(* "closing": onclose will report code 1000; "failing": another code.      *)
SocketState == {"connecting", "open", "closing", "failing", "closed"}

(* What a call is for: login and the profile request after it (or the one  *)
(* of init), loadRooms, leaveCurrentRoom, createRoom or joinRoom and the   *)
(* loadRooms after it, and calls whose answers change nothing that is      *)
(* modelled (loadMessages, browseRooms).                                   *)
Op == {"none", "login", "profile", "init", "rooms", "leave", "enter",
       "enter_rooms", "other"}

Call == [op : Op, room : Rooms \cup {NoRoom}, auth : {"first", "refresh", "retry"}]

TypeOK ==
  /\ screen \in {"auth", "chat"}
  /\ token \in BOOLEAN
  /\ ws \in Sockets \cup {NoSocket}
  /\ socket \in [Sockets -> SocketState]
  /\ joined \subseteq Rooms
  /\ reconnectTimer \in BOOLEAN
  /\ currentRoom \in Rooms \cup {NoRoom}
  /\ rooms \subseteq Rooms
  /\ call \in [Calls -> Call]
  /\ deaf \in BOOLEAN

Request(op, r) == [op |-> op, room |-> r, auth |-> "first"]

Idle == Request("none", NoRoom)

(* init: stored tokens, if any, are tried with a profile request.          *)
Init ==
  /\ screen = "auth"
  /\ ws = NoSocket
  /\ socket = [s \in Sockets |-> "closed"]
  /\ joined = {}
  /\ reconnectTimer = FALSE
  /\ currentRoom = NoRoom
  /\ rooms = {}
  /\ deaf = FALSE
  /\ \/ token = FALSE /\ call = [c \in Calls |-> Idle]
     \/ /\ token = TRUE
        /\ \E d \in Calls :
             call = [c \in Calls |-> IF c = d THEN Request("init", NoRoom)
                                              ELSE Idle]

-----------------------------------------------------------------------------
Live(s) == socket[s] \in {"connecting", "open"}

HasLive == ws # NoSocket /\ Live(ws)

IsOpen == ws # NoSocket /\ socket[ws] = "open"

roomVars == <<currentRoom, rooms, deaf>>
socketVars == <<ws, socket, joined>>

(* A new WebSocket object becomes state.ws.  (An object whose onclose has  *)
(* run has no further effect and may be taken for a new one.)              *)
NewWebSocket ==
  \E s \in Sockets :
    /\ socket[s] = "closed"
    /\ ws' = s
    /\ socket' = [socket EXCEPT ![s] = "connecting"]
    /\ joined' = {}

(* Faulty variant: no check for a socket that is connecting or open.       *)
connectWebSocketAlways == NewWebSocket

(* Faulty variant: any socket counts, whatever its readyState.             *)
connectWebSocketOnce ==
  \/ ws # NoSocket /\ UNCHANGED socketVars
  \/ ws = NoSocket /\ NewWebSocket

connectWebSocket ==
  \/ HasLive /\ UNCHANGED socketVars
  \/ ~HasLive /\ NewWebSocket

(* join_room and leave_room through wsSend, which drops them silently      *)
(* unless state.ws is open.                                                *)
wsSend(leave, join) ==
  joined' = IF IsOpen THEN (joined \ leave) \cup join ELSE joined

(* switchRoom(r) up to its await: the current room is left first; a room   *)
(* that is not in the (possibly just reloaded) list ends it there.         *)
switchRoom(r) ==
  \/ /\ r \in rooms'
     /\ currentRoom' = r
     /\ wsSend({currentRoom}, {r})
     /\ deaf' = FALSE
  \/ /\ r \notin rooms'
     /\ UNCHANGED currentRoom
     /\ wsSend({currentRoom}, {})
     /\ deaf' = (deaf \/ (IsOpen /\ currentRoom # NoRoom))

(* logout: close() without a code, which onclose reports as 1005 (1006 if  *)
(* the socket was still connecting), so as a failure.                      *)
logout ==
  /\ screen' = "auth"
  /\ token' = FALSE
  /\ currentRoom' = NoRoom
  /\ rooms' = {}
  /\ deaf' = FALSE
  /\ ws' = NoSocket
  /\ socket' = IF HasLive THEN [socket EXCEPT ![ws] = "failing"] ELSE socket
  /\ joined' = {}

-----------------------------------------------------------------------------
(* What the user does.                                                     *)

Start(c, op, r) ==
  /\ call[c].op = "none"
  /\ call' = [call EXCEPT ![c] = Request(op, r)]

(* The log-in form, or the register form, whose request comes before.      *)
Login(c) ==
  /\ screen = "auth"
  /\ Start(c, "login", NoRoom)
  /\ UNCHANGED <<screen, token, socketVars, reconnectTimer, roomVars>>

Logout ==
  /\ screen = "chat"
  /\ logout
  /\ UNCHANGED <<reconnectTimer, call>>

SwitchRoom(c, r) ==
  /\ screen = "chat"
  /\ r \in rooms
  /\ UNCHANGED rooms
  /\ switchRoom(r)
  /\ Start(c, "other", NoRoom)
  /\ UNCHANGED <<screen, token, ws, socket, reconnectTimer>>

(* createRoom or joinRoom.                                                 *)
EnterRoom(c, r) ==
  /\ screen = "chat"
  /\ Start(c, "enter", r)
  /\ UNCHANGED <<screen, token, socketVars, reconnectTimer, roomVars>>

(* leave_room is sent before the DELETE is answered.                       *)
leaveCurrentRoom(c) ==
  /\ screen = "chat"
  /\ currentRoom # NoRoom
  /\ wsSend({currentRoom}, {})
  /\ deaf' = (deaf \/ IsOpen)
  /\ Start(c, "leave", NoRoom)
  /\ UNCHANGED <<screen, token, ws, socket, reconnectTimer, currentRoom, rooms>>

(* loadMessages for an older page, browseRooms.                            *)
OtherCall(c) ==
  /\ screen = "chat"
  /\ Start(c, "other", NoRoom)
  /\ UNCHANGED <<screen, token, socketVars, reconnectTimer, roomVars>>

-----------------------------------------------------------------------------
(* Answers to API calls.                                                   *)

Answered(c, op) == call[c].op = op /\ call[c].auth # "refresh"

Then(c, op, r) == call' = [call EXCEPT ![c] = Request(op, r)]

Done(c) == call' = [call EXCEPT ![c] = Idle]

LoginOk(c) ==
  /\ Answered(c, "login")
  /\ token' = TRUE
  /\ Then(c, "profile", NoRoom)
  /\ UNCHANGED <<screen, socketVars, reconnectTimer, roomVars>>

(* The profile has arrived, after a log-in or at page load.                *)
ProfileOk(c) ==
  /\ Answered(c, "profile") \/ Answered(c, "init")
  /\ screen' = "chat"
  /\ connectWebSocket
  /\ Then(c, "rooms", NoRoom)
  /\ UNCHANGED <<token, reconnectTimer, roomVars>>

(* loadRooms: whatever list the server sends.                              *)
RoomsOk(c) ==
  /\ Answered(c, "rooms")
  /\ rooms' \in SUBSET Rooms
  /\ Done(c)
  /\ UNCHANGED <<screen, token, socketVars, reconnectTimer, currentRoom, deaf>>

(* The room that is current by now is closed, whichever room was left.     *)
LeaveOk(c) ==
  /\ Answered(c, "leave")
  /\ currentRoom' = NoRoom
  /\ deaf' = FALSE
  /\ Then(c, "rooms", NoRoom)
  /\ UNCHANGED <<screen, token, socketVars, reconnectTimer, rooms>>

EnterOk(c) ==
  /\ Answered(c, "enter")
  /\ Then(c, "enter_rooms", call[c].room)
  /\ UNCHANGED <<screen, token, socketVars, reconnectTimer, roomVars>>

(* The loadRooms of createRoom and joinRoom, which swallows its errors;    *)
(* then the room is switched to.                                           *)
EnterRoomsDone(c) ==
  /\ Answered(c, "enter_rooms")
  /\ \/ rooms' \in SUBSET Rooms
     \/ UNCHANGED rooms
  /\ switchRoom(call[c].room)
  /\ IF call[c].room \in rooms' THEN Then(c, "other", NoRoom) ELSE Done(c)
  /\ UNCHANGED <<screen, token, ws, socket, reconnectTimer>>

OtherOk(c) ==
  /\ Answered(c, "other")
  /\ Done(c)
  /\ UNCHANGED <<screen, token, socketVars, reconnectTimer, roomVars>>

(* An error, of the first attempt or of the retry: only init reacts, with  *)
(* clearTokens and showAuthScreen.                                         *)
CallFails(c) ==
  /\ \E op \in Op \ {"none", "enter_rooms"} : Answered(c, op)
  /\ IF call[c].op = "init" THEN token' = FALSE /\ screen' = "auth"
                            ELSE UNCHANGED <<token, screen>>
  /\ Done(c)
  /\ UNCHANGED <<socketVars, reconnectTimer, roomVars>>

(* 401: the token is refreshed first if there is a refresh token ...       *)
Unauthorized(c) ==
  /\ call[c].op \notin {"none", "login"}
  /\ call[c].auth = "first"
  /\ token
  /\ call' = [call EXCEPT ![c].auth = "refresh"]
  /\ UNCHANGED <<screen, token, socketVars, reconnectTimer, roomVars>>

RefreshOk(c) ==
  /\ call[c].auth = "refresh"
  /\ token' = TRUE
  /\ call' = [call EXCEPT ![c].auth = "retry"]
  /\ UNCHANGED <<screen, socketVars, reconnectTimer, roomVars>>

(* ... and the user is logged out if there is none or it is refused.       *)
SessionExpired(c) ==
  /\ \/ call[c].auth = "refresh"
     \/ /\ call[c].op \notin {"none", "login"}
        /\ call[c].auth = "first"
        /\ ~token
  /\ logout
  /\ Done(c)
  /\ UNCHANGED reconnectTimer

-----------------------------------------------------------------------------
(* Socket events and the reconnect timer.                                  *)

(* Faulty variant: the current room is not joined again.                   *)
OpenedNoRejoin(s) ==
  /\ socket[s] = "connecting"
  /\ socket' = [socket EXCEPT ![s] = "open"]
  /\ deaf' = FALSE
  /\ UNCHANGED <<screen, token, ws, joined, reconnectTimer, currentRoom, rooms,
                 call>>

(* onopen.                                                                 *)
Opened(s) ==
  /\ socket[s] = "connecting"
  /\ socket' = [socket EXCEPT ![s] = "open"]
  /\ joined' = IF ws = s THEN {currentRoom} \ {NoRoom} ELSE joined
  /\ deaf' = FALSE
  /\ UNCHANGED <<screen, token, ws, reconnectTimer, currentRoom, rooms, call>>

(* The session behind a socket ends with it.                               *)
Hangup(s) == joined' = IF ws = s THEN {} ELSE joined

(* The handshake fails, a token is refused (the server closes before it    *)
(* accepts) or the connection is lost.                                     *)
Fails(s) ==
  /\ Live(s)
  /\ socket' = [socket EXCEPT ![s] = "failing"]
  /\ Hangup(s)
  /\ UNCHANGED <<screen, token, ws, reconnectTimer, roomVars, call>>

(* The server closes with code 1000: a newer connection of the user, a     *)
(* full send queue, or the clean-up of another session of the user.        *)
ServerCloses(s) ==
  /\ socket[s] = "open"
  /\ socket' = [socket EXCEPT ![s] = "closing"]
  /\ Hangup(s)
  /\ UNCHANGED <<screen, token, ws, reconnectTimer, roomVars, call>>

(* onclose, of state.ws or of an earlier socket.                           *)
Closed(s) ==
  /\ \/ socket[s] = "closing" /\ UNCHANGED reconnectTimer
     \/ socket[s] = "failing" /\ reconnectTimer' = TRUE
  /\ socket' = [socket EXCEPT ![s] = "closed"]
  /\ UNCHANGED <<screen, token, ws, joined, roomVars, call>>

TimerFires ==
  /\ reconnectTimer
  /\ reconnectTimer' = FALSE
  /\ connectWebSocket
  /\ UNCHANGED <<screen, token, roomVars, call>>

-----------------------------------------------------------------------------
UserStep ==
  \/ Logout
  \/ \E c \in Calls :
       \/ Login(c) \/ leaveCurrentRoom(c) \/ OtherCall(c)
       \/ \E r \in Rooms : SwitchRoom(c, r) \/ EnterRoom(c, r)

Answer(c) ==
  \/ LoginOk(c) \/ ProfileOk(c) \/ RoomsOk(c) \/ LeaveOk(c) \/ EnterOk(c)
  \/ EnterRoomsDone(c) \/ OtherOk(c) \/ CallFails(c)
  \/ Unauthorized(c) \/ RefreshOk(c) \/ SessionExpired(c)

Next ==
  \/ UserStep
  \/ \E c \in Calls : Answer(c)
  \/ \E s \in Sockets : Opened(s) \/ Fails(s) \/ ServerCloses(s) \/ Closed(s)
  \/ TimerFires

Spec == Init /\ [][Next]_vars

(* Timers fire and close events are delivered; nothing is assumed of the   *)
(* user, of the server's answers or of the network.                        *)
FairSpec ==
  Spec /\ WF_vars(TimerFires) /\ \A s \in Sockets : WF_vars(Closed(s))

-----------------------------------------------------------------------------
(* Properties.                                                             *)

(* However the reconnect timer, late close events, log-outs and log-ins    *)
(* interleave, the client never has two connections: a socket that is      *)
(* connecting or open is state.ws.  (The server would let the two evict    *)
(* each other.)                                                            *)
OneLiveSocket == \A s \in Sockets : Live(s) => s = ws

(* Over an open connection the client hears the room it shows, also after  *)
(* reconnecting, unless it has said leave_room and kept the room since: a  *)
(* DELETE that is under way or has failed, or a room entered that was not  *)
(* in the list.                                                            *)
HearsCurrentRoom ==
  IsOpen /\ currentRoom # NoRoom /\ ~deaf => currentRoom \in joined

(* A connection that fails while the user is logged in is tried again,     *)
(* whatever the user does meanwhile and however many sockets fail at once. *)
FailureIsRetried ==
  (token /\ ws # NoSocket /\ socket[ws] = "failing") ~> (HasLive \/ ~token)

(* "Auto-reconnect -- client reconnects with exponential backoff": a       *)
(* logged-in client whose connection has ended gets another one, unless    *)
(* it logs out.                                                            *)
AutoReconnect ==
  (token /\ ws # NoSocket /\ socket[ws] \in {"closing", "failing"})
    ~> (HasLive \/ ~token)
=============================================================================

------------------------- MODULE ConnectionManager -------------------------
(***************************************************************************)
(* One application instance: its ConnectionManager                         *)
(* (app/messaging/connection_manager.py) and the websocket_chat coroutines *)
(* that drive it (app/api/websocket/chat.py).                              *)
(*                                                                         *)
(* Everything runs on one asyncio event loop, so an action is the code     *)
(* between two awaits that can really suspend: socket writes, socket       *)
(* closes, Redis and database calls, and the wait for the manager's lock.  *)
(* broadcast_to_room and send_to_user contain no such await and are atomic.*)
(*                                                                         *)
(* A connection is one accepted WebSocket together with its session, the   *)
(* coroutine that serves it.  Message contents, usernames and timestamps   *)
(* are left out; a send queue is represented by its length.  A room whose  *)
(* set is empty and a room with no entry in _room_connections are the same *)
(* here: no operation of the manager tells them apart.                     *)
(***************************************************************************)
EXTENDS Naturals

CONSTANTS
  Users,                \* user ids
  Rooms,                \* room ids
  Conns,                \* the WebSockets that clients may open
  UserOf,               \* the user each of them authenticates as
  MAX_SEND_QUEUE_SIZE,  \* config.py: capacity of a send queue
  Slots,                \* bound: overflow tasks alive at once per connection
  NoConn, NoRoom, NoUser

ASSUME ConnsAssumption ==
  /\ UserOf \in [Conns -> Users]
  /\ NoConn \notin Conns
  /\ NoRoom \notin Rooms
ASSUME QueueAssumption == MAX_SEND_QUEUE_SIZE \in Nat \ {0}

VARIABLES
  connections,       \* _connections: user -> registered connection
  room_connections,  \* _room_connections: room -> users to broadcast to
  lock,              \* _lock: the session that holds it across an await
  ws,                \* per connection: state of its socket
  rooms,             \* per connection: WebSocketConnection.rooms
  send_queue,        \* per connection: number of queued payloads
  send_task,         \* per connection: its _process_send_queue task
  pc,                \* per connection: where its session is suspended
  arg,               \* per connection: room of the event being handled
  victim,            \* per connection: connection its session is closing
  fd                 \* overflow _force_disconnect tasks, by target and slot

vars == <<connections, room_connections, lock, ws, rooms, send_queue,
          send_task, pc, arg, victim, fd>>

(* "gone": the peer has vanished and the server has not noticed yet.       *)
(* "closed": the server has sent a close or has seen the disconnect; any   *)
(* further send or close on the socket raises at once.                     *)
SocketState == {"none", "open", "gone", "closed"}

Phase == {"new", "accept", "evict_send", "evict_close", "loop", "handle",
          "join", "joined", "leave", "left", "cleanup", "disconnect",
          "closing", "done", "aborted"}

(* The session holds the lock at these suspension points.                  *)
Locked == {"evict_send", "evict_close", "closing"}

(* The session has not registered its connection yet.                      *)
Fresh == {"new", "accept", "evict_send", "evict_close"}

(* The session is between its registration and its own disconnect.         *)
Serving == {"loop", "handle", "join", "joined", "leave", "left",
            "cleanup", "disconnect"}

Ended == {"done", "aborted"}

TaskState == {"idle", "start", "send", "close"}

TypeOK ==
  /\ connections \in [Users -> Conns \cup {NoConn}]
  /\ room_connections \in [Rooms -> SUBSET Users]
  /\ lock \in Conns \cup {NoConn}
  /\ ws \in [Conns -> SocketState]
  /\ rooms \in [Conns -> SUBSET Rooms]
  /\ send_queue \in [Conns -> 0..MAX_SEND_QUEUE_SIZE]
  /\ send_task \in [Conns -> {"none", "running", "ended"}]
  /\ pc \in [Conns -> Phase]
  /\ arg \in [Conns -> Rooms \cup {NoRoom}]
  /\ victim \in [Conns -> Conns \cup {NoConn}]
  /\ fd \in [Conns \X Slots -> TaskState]

Init ==
  /\ connections = [u \in Users |-> NoConn]
  /\ room_connections = [r \in Rooms |-> {}]
  /\ lock = NoConn
  /\ ws = [c \in Conns |-> "none"]
  /\ rooms = [c \in Conns |-> {}]
  /\ send_queue = [c \in Conns |-> 0]
  /\ send_task = [c \in Conns |-> "none"]
  /\ pc = [c \in Conns |-> "new"]
  /\ arg = [c \in Conns |-> NoRoom]
  /\ victim = [c \in Conns |-> NoConn]
  /\ fd = [t \in Conns \X Slots |-> "idle"]

-----------------------------------------------------------------------------
(* Helpers.                                                                *)

Goto(c, from, to) == pc[c] = from /\ pc' = [pc EXCEPT ![c] = to]

(* A send or close on a socket in this state awaits the network instead of *)
(* raising.                                                                *)
Writable(c) == ws[c] \in {"open", "gone"}

(* Faulty variant: off by one at the capacity.                             *)
HasRoomOffByOne(c) == send_queue[c] <= MAX_SEND_QUEUE_SIZE

HasRoom(c) == send_queue[c] < MAX_SEND_QUEUE_SIZE

(* send_to_user: the reply goes to whatever connection is registered for   *)
(* the user, and is dropped when there is none or its queue is full.       *)
SendToUser(u) ==
  send_queue' =
    IF connections[u] # NoConn /\ HasRoom(connections[u])
    THEN [send_queue EXCEPT ![connections[u]] = @ + 1]
    ELSE send_queue

(* The room sets after k has been discarded from the rooms it joined.      *)
Unindexed(k) ==
  [r \in Rooms |-> IF r \in rooms[k] THEN room_connections[r] \ {UserOf[k]}
                                     ELSE room_connections[r]]

(* The tracking structures after k's user has been popped: the shared tail *)
(* of disconnect and of _force_disconnect.                                 *)
Drop(k) ==
  /\ connections' = [connections EXCEPT ![UserOf[k]] = NoConn]
  /\ room_connections' = Unindexed(k)
  /\ send_task' = [send_task EXCEPT ![k] = "ended"]

-----------------------------------------------------------------------------
(* ConnectionManager.connect                                               *)

(* Authentication succeeds and websocket.accept() completes.               *)
Accept(c) ==
  /\ Goto(c, "new", "accept")
  /\ ws' = [ws EXCEPT ![c] = "open"]
  /\ UNCHANGED <<connections, room_connections, lock, rooms, send_queue,
                 send_task, arg, victim, fd>>

(* No token, a bad token or an unknown user: closed with code 4001.        *)
Reject(c) ==
  /\ Goto(c, "new", "done")
  /\ ws' = [ws EXCEPT ![c] = "closed"]
  /\ UNCHANGED <<connections, room_connections, lock, rooms, send_queue,
                 send_task, arg, victim, fd>>

(* connect gets the lock and the user has no connection: the session       *)
(* registers, queues its welcome message and reaches its receive loop.     *)
Connect(c) ==
  /\ Goto(c, "accept", "loop")
  /\ lock = NoConn
  /\ connections[UserOf[c]] = NoConn
  /\ connections' = [connections EXCEPT ![UserOf[c]] = c]
  /\ send_task' = [send_task EXCEPT ![c] = "running"]
  /\ send_queue' = [send_queue EXCEPT ![c] = 1]
  /\ UNCHANGED <<room_connections, lock, ws, rooms, arg, victim, fd>>

(* Faulty variant: registered first, so that the finally block of the      *)
(* eviction pops the new entry.                                            *)
SupersedeTooEarly(c, k) ==
  /\ connections' = [connections EXCEPT ![UserOf[c]] = NoConn]
  /\ room_connections' = Unindexed(k)
  /\ send_task' = [send_task EXCEPT ![k] = "ended", ![c] = "running"]
  /\ send_queue' = [send_queue EXCEPT ![c] = 1]

(* connect's registration after _force_disconnect(k) has returned: the     *)
(* finally block of the eviction and the new entry, with no await between. *)
Supersede(c, k) ==
  /\ connections' = [connections EXCEPT ![UserOf[c]] = c]
  /\ room_connections' = Unindexed(k)
  /\ send_task' = [send_task EXCEPT ![k] = "ended", ![c] = "running"]
  /\ send_queue' = [send_queue EXCEPT ![c] = 1]

(* Faulty variant: the old connection is replaced without being closed.    *)
ConnectReplaceUnclosed(c) ==
  LET k == connections[UserOf[c]] IN
  /\ Goto(c, "accept", "loop")
  /\ lock = NoConn
  /\ k # NoConn
  /\ Supersede(c, k)
  /\ UNCHANGED <<lock, ws, rooms, arg, victim, fd>>

(* The old connection's socket is already closed: evicting it raises or    *)
(* skips before any await.                                                 *)
ConnectReplace(c) ==
  LET k == connections[UserOf[c]] IN
  /\ Goto(c, "accept", "loop")
  /\ lock = NoConn
  /\ k # NoConn
  /\ ~Writable(k)
  /\ Supersede(c, k)
  /\ UNCHANGED <<lock, ws, rooms, arg, victim, fd>>

(* Faulty variant: the lock is released before the eviction is awaited.    *)
ConnectEvictUnlocked(c) ==
  LET k == connections[UserOf[c]] IN
  /\ Goto(c, "accept", "evict_send")
  /\ lock = NoConn
  /\ k # NoConn
  /\ Writable(k)
  /\ victim' = [victim EXCEPT ![c] = k]
  /\ UNCHANGED <<connections, room_connections, lock, ws, rooms, send_queue,
                 send_task, arg, fd>>

(* The old connection is evicted under the lock; send_text suspends.       *)
ConnectEvict(c) ==
  LET k == connections[UserOf[c]] IN
  /\ Goto(c, "accept", "evict_send")
  /\ lock = NoConn
  /\ k # NoConn
  /\ Writable(k)
  /\ lock' = c
  /\ victim' = [victim EXCEPT ![c] = k]
  /\ UNCHANGED <<connections, room_connections, ws, rooms, send_queue,
                 send_task, arg, fd>>

(* The reason was sent; close(1000) marks the socket and suspends.         *)
EvictClose(c) ==
  /\ Goto(c, "evict_send", "evict_close")
  /\ Writable(victim[c])
  /\ ws' = [ws EXCEPT ![victim[c]] = "closed"]
  /\ UNCHANGED <<connections, room_connections, lock, rooms, send_queue,
                 send_task, arg, victim, fd>>

(* Faulty variant: the lock is not released after an eviction that failed. *)
EvictFinishKeepsLock(c) ==
  /\ \/ Goto(c, "evict_close", "loop") /\ lock' = NoConn
     \/ /\ Goto(c, "evict_send", "loop")
        /\ ws[victim[c]] \in {"gone", "closed"}
        /\ UNCHANGED lock
  /\ Supersede(c, victim[c])
  /\ victim' = [victim EXCEPT ![c] = NoConn]
  /\ UNCHANGED <<ws, rooms, arg, fd>>

(* The close returned, or a send or close raised: connect goes on.         *)
EvictFinish(c) ==
  /\ \/ Goto(c, "evict_close", "loop")
     \/ Goto(c, "evict_send", "loop") /\ ws[victim[c]] \in {"gone", "closed"}
  /\ Supersede(c, victim[c])
  /\ lock' = NoConn
  /\ victim' = [victim EXCEPT ![c] = NoConn]
  /\ UNCHANGED <<ws, rooms, arg, fd>>

-----------------------------------------------------------------------------
(* The receive loop.                                                       *)

(* receive_text returns an event, which may have been buffered before the  *)
(* peer went away; the rate limiter is awaited before it is dispatched.    *)
(* (An event read while the server closes the socket is the same as one    *)
(* read just before: the two steps commute.)                               *)
Receive(c) ==
  /\ Writable(c)
  /\ \/ /\ \/ Goto(c, "loop", "join")
           \/ Goto(c, "loop", "leave")
        /\ \E r \in Rooms : arg' = [arg EXCEPT ![c] = r]
     \/ Goto(c, "loop", "handle") /\ UNCHANGED arg
  /\ UNCHANGED <<connections, room_connections, lock, ws, rooms, send_queue,
                 send_task, victim, fd>>

(* pong, an error reply, or the refusal of a rate-limited event; a join or *)
(* a leave can be refused as well.                                         *)
Reply(c) ==
  /\ \/ Goto(c, "handle", "loop")
     \/ Goto(c, "join", "loop")
     \/ Goto(c, "leave", "loop")
  /\ SendToUser(UserOf[c])
  /\ arg' = [arg EXCEPT ![c] = NoRoom]
  /\ UNCHANGED <<connections, room_connections, lock, ws, rooms, send_task,
                 victim, fd>>

(* message, typing_start and typing_stop publish to Redis and touch        *)
(* nothing of the manager; a leave_room without a room does nothing.       *)
Publish(c) ==
  /\ Goto(c, "handle", "loop")
  /\ UNCHANGED <<connections, room_connections, lock, ws, rooms, send_queue,
                 send_task, arg, victim, fd>>

(* _handle_join_room, membership verified and channel subscribed:          *)
(* ConnectionManager.join_room acts on the user's registered connection.   *)
JoinRoom(c) ==
  LET u == UserOf[c]
      k == connections[u]
      r == arg[c] IN
  /\ Goto(c, "join", "joined")
  /\ lock = NoConn
  /\ IF k # NoConn
     THEN /\ rooms' = [rooms EXCEPT ![k] = @ \cup {r}]
          /\ room_connections' = [room_connections EXCEPT ![r] = @ \cup {u}]
     ELSE UNCHANGED <<rooms, room_connections>>
  /\ arg' = [arg EXCEPT ![c] = NoRoom]
  /\ UNCHANGED <<connections, lock, ws, send_queue, send_task, victim, fd>>

(* Presence recorded and announced; the online users are sent back.        *)
JoinReply(c) ==
  /\ Goto(c, "joined", "loop")
  /\ SendToUser(UserOf[c])
  /\ UNCHANGED <<connections, room_connections, lock, ws, rooms, send_task,
                 arg, victim, fd>>

(* Faulty variant: the room is not taken out of conn.rooms.                *)
LeaveRoomKeepsRoom(c) ==
  LET u == UserOf[c]
      k == connections[u]
      r == arg[c] IN
  /\ Goto(c, "leave", "left")
  /\ lock = NoConn
  /\ IF k # NoConn
     THEN room_connections' = [room_connections EXCEPT ![r] = @ \ {u}]
     ELSE UNCHANGED room_connections
  /\ arg' = [arg EXCEPT ![c] = NoRoom]
  /\ UNCHANGED <<connections, lock, ws, rooms, send_queue, send_task, victim,
                 fd>>

(* _handle_leave_room: ConnectionManager.leave_room on the user's          *)
(* registered connection.                                                  *)
LeaveRoom(c) ==
  LET u == UserOf[c]
      k == connections[u]
      r == arg[c] IN
  /\ Goto(c, "leave", "left")
  /\ lock = NoConn
  /\ IF k # NoConn
     THEN /\ rooms' = [rooms EXCEPT ![k] = @ \ {r}]
          /\ room_connections' = [room_connections EXCEPT ![r] = @ \ {u}]
     ELSE UNCHANGED <<rooms, room_connections>>
  /\ arg' = [arg EXCEPT ![c] = NoRoom]
  /\ UNCHANGED <<connections, lock, ws, send_queue, send_task, victim, fd>>

(* Absence recorded and announced.                                         *)
LeaveDone(c) ==
  /\ Goto(c, "left", "loop")
  /\ UNCHANGED <<connections, room_connections, lock, ws, rooms, send_queue,
                 send_task, arg, victim, fd>>

-----------------------------------------------------------------------------
(* The finally block of websocket_chat and ConnectionManager.disconnect.   *)

(* Faulty variant of DisconnectUser: a connection whose socket is closed   *)
(* is taken for already removed.                                           *)
DisconnectUserSkipsClosed(c, sockets) ==
  LET k == connections[UserOf[c]] IN
  /\ IF lock # NoConn \/ k = NoConn \/ sockets[k] \notin {"open", "gone"}
     THEN /\ pc' = [pc EXCEPT ![c] = IF lock # NoConn THEN "disconnect"
                                                      ELSE "done"]
          /\ ws' = sockets
          /\ UNCHANGED <<connections, room_connections, send_task, lock,
                         victim>>
     ELSE /\ pc' = [pc EXCEPT ![c] = "closing"]
          /\ Drop(k)
          /\ ws' = [sockets EXCEPT ![k] = "closed"]
          /\ lock' = c
          /\ victim' = [victim EXCEPT ![c] = k]

(* ConnectionManager.disconnect(user_id), called by the session of c when  *)
(* the sockets are as given.  With the lock free it pops the user's        *)
(* registered connection, if any, without suspending; a socket that is not *)
(* closed yet is closed under the lock.                                    *)
DisconnectUser(c, sockets) ==
  LET k == connections[UserOf[c]] IN
  \/ /\ lock # NoConn
     /\ pc' = [pc EXCEPT ![c] = "disconnect"]
     /\ ws' = sockets
     /\ UNCHANGED <<connections, room_connections, send_task, lock, victim>>
  \/ /\ lock = NoConn
     /\ k = NoConn
     /\ pc' = [pc EXCEPT ![c] = "done"]
     /\ ws' = sockets
     /\ UNCHANGED <<connections, room_connections, send_task, lock, victim>>
  \/ /\ lock = NoConn
     /\ k # NoConn
     /\ sockets[k] \notin {"open", "gone"}
     /\ pc' = [pc EXCEPT ![c] = "done"]
     /\ Drop(k)
     /\ ws' = sockets
     /\ UNCHANGED <<lock, victim>>
  \/ /\ lock = NoConn
     /\ k # NoConn
     /\ sockets[k] \in {"open", "gone"}
     /\ pc' = [pc EXCEPT ![c] = "closing"]
     /\ Drop(k)
     /\ ws' = [sockets EXCEPT ![k] = "closed"]
     /\ lock' = c
     /\ victim' = [victim EXCEPT ![c] = k]

(* The finally block: a connection with rooms awaits Redis first.          *)
StartCleanup(c, sockets) ==
  \/ /\ rooms[c] # {}
     /\ pc' = [pc EXCEPT ![c] = "cleanup"]
     /\ ws' = sockets
     /\ UNCHANGED <<connections, room_connections, send_task, lock, victim>>
  \/ /\ rooms[c] = {}
     /\ DisconnectUser(c, sockets)

(* receive_text raises: the peer is gone or the server closed the socket.  *)
NoticeClosed(c) ==
  /\ pc[c] = "loop"
  /\ ws[c] \in {"gone", "closed"}
  /\ StartCleanup(c, [ws EXCEPT ![c] = "closed"])
  /\ UNCHANGED <<rooms, send_queue, arg, fd>>

(* A handler raises (a malformed id, a database or Redis error).           *)
HandlerError(c) ==
  /\ pc[c] \in {"handle", "join", "joined", "left"}
  /\ StartCleanup(c, ws)
  /\ arg' = [arg EXCEPT ![c] = NoRoom]
  /\ UNCHANGED <<rooms, send_queue, fd>>

(* Every room of the connection has been told that the user is offline.    *)
CleanupRooms(c) ==
  /\ pc[c] = "cleanup"
  /\ DisconnectUser(c, ws)
  /\ UNCHANGED <<rooms, send_queue, arg, fd>>

(* set_offline raises inside the finally block: disconnect is never called.*)
CleanupAbort(c) ==
  /\ Goto(c, "cleanup", "aborted")
  /\ UNCHANGED <<connections, room_connections, lock, ws, rooms, send_queue,
                 send_task, arg, victim, fd>>

(* disconnect had to wait for the lock and gets it.                        *)
Disconnect(c) ==
  /\ pc[c] = "disconnect"
  /\ lock = NoConn
  /\ DisconnectUser(c, ws)
  /\ UNCHANGED <<rooms, send_queue, arg, fd>>

(* Faulty variant: the lock is not released.                               *)
DisconnectDoneKeepsLock(c) ==
  /\ Goto(c, "closing", "done")
  /\ victim' = [victim EXCEPT ![c] = NoConn]
  /\ UNCHANGED <<connections, room_connections, lock, ws, rooms, send_queue,
                 send_task, arg, fd>>

(* websocket.close() returned or raised; the lock is released.             *)
DisconnectDone(c) ==
  /\ Goto(c, "closing", "done")
  /\ lock' = NoConn
  /\ victim' = [victim EXCEPT ![c] = NoConn]
  /\ UNCHANGED <<connections, room_connections, ws, rooms, send_queue,
                 send_task, arg, fd>>

-----------------------------------------------------------------------------
(* Broadcasts, send queues and overflow tasks.                             *)

(* broadcast_to_room, called by the Redis listener: every user of the room *)
(* except exclude_user gets the payload queued; a full queue drops it and  *)
(* starts a task that will force-disconnect the connection.                *)
Broadcast(r, exclude) ==
  LET targets == {connections[u] : u \in room_connections[r] \ {exclude}}
                   \ {NoConn}
      full == {k \in targets : ~HasRoom(k)} IN
  /\ send_queue' = [k \in Conns |-> IF k \in targets \ full
                                    THEN send_queue[k] + 1
                                    ELSE send_queue[k]]
  /\ \E slot \in [full -> Slots] :
       /\ \A k \in full : fd[<<k, slot[k]>>] = "idle"
       /\ fd' = [t \in Conns \X Slots |->
                   IF t[1] \in full /\ slot[t[1]] = t[2] THEN "start"
                                                         ELSE fd[t]]
  /\ UNCHANGED <<connections, room_connections, lock, ws, rooms, send_task,
                 pc, arg, victim>>

(* Faulty variant: the task ends as soon as it has emptied the queue.      *)
DrainOnce(c) ==
  /\ send_task[c] = "running"
  /\ send_queue[c] > 0
  /\ send_queue' = [send_queue EXCEPT ![c] = @ - 1]
  /\ send_task' = [send_task EXCEPT ![c] = IF send_queue[c] = 1 THEN "ended"
                                                                ELSE @]
  /\ UNCHANGED <<connections, room_connections, lock, ws, rooms, pc, arg,
                 victim, fd>>

(* _process_send_queue takes one payload and writes it; it ends when the   *)
(* socket is not connected or the write raises.                            *)
Drain(c) ==
  /\ send_task[c] = "running"
  /\ send_queue[c] > 0
  /\ send_queue' = [send_queue EXCEPT ![c] = @ - 1]
  /\ \/ Writable(c) /\ UNCHANGED send_task
     \/ ws[c] # "open" /\ send_task' = [send_task EXCEPT ![c] = "ended"]
  /\ UNCHANGED <<connections, room_connections, lock, ws, rooms, pc, arg,
                 victim, fd>>

(* An overflow task gets to run: it tries to tell the client why.          *)
OverflowSend(c, s) ==
  /\ fd[<<c, s>>] = "start"
  /\ Writable(c)
  /\ fd' = [fd EXCEPT ![<<c, s>>] = "send"]
  /\ UNCHANGED <<connections, room_connections, lock, ws, rooms, send_queue,
                 send_task, pc, arg, victim>>

OverflowClose(c, s) ==
  /\ fd[<<c, s>>] = "send"
  /\ Writable(c)
  /\ fd' = [fd EXCEPT ![<<c, s>>] = "close"]
  /\ ws' = [ws EXCEPT ![c] = "closed"]
  /\ UNCHANGED <<connections, room_connections, lock, rooms, send_queue,
                 send_task, pc, arg, victim>>

(* Faulty variant: the entry is popped before the socket is dealt with.    *)
OverflowFinishEarly(c, s) ==
  /\ fd[<<c, s>>] # "idle"
  /\ fd' = [fd EXCEPT ![<<c, s>>] = "idle"]
  /\ Drop(c)
  /\ UNCHANGED <<lock, ws, rooms, send_queue, pc, arg, victim>>

(* The finally block of _force_disconnect, run without the lock: it pops   *)
(* the entry of the connection's user, whichever connection that holds.    *)
OverflowFinish(c, s) ==
  /\ \/ fd[<<c, s>>] = "close"
     \/ fd[<<c, s>>] = "start" /\ ws[c] = "closed"
     \/ fd[<<c, s>>] = "send" /\ ws[c] \in {"gone", "closed"}
  /\ fd' = [fd EXCEPT ![<<c, s>>] = "idle"]
  /\ Drop(c)
  /\ UNCHANGED <<lock, ws, rooms, send_queue, pc, arg, victim>>

(* The client closes its end or its network fails.                         *)
PeerGone(c) ==
  /\ ws[c] = "open"
  /\ ws' = [ws EXCEPT ![c] = "gone"]
  /\ UNCHANGED <<connections, room_connections, lock, rooms, send_queue,
                 send_task, pc, arg, victim, fd>>

-----------------------------------------------------------------------------
(* Steps the session of c takes on its own, once what it awaits is there.  *)
SessionStep(c) ==
  \/ Connect(c) \/ ConnectReplace(c) \/ ConnectEvict(c)
  \/ EvictClose(c) \/ EvictFinish(c)
  \/ Reply(c) \/ Publish(c) \/ JoinRoom(c) \/ JoinReply(c)
  \/ LeaveRoom(c) \/ LeaveDone(c)
  \/ NoticeClosed(c) \/ HandlerError(c)
  \/ CleanupRooms(c) \/ CleanupAbort(c) \/ Disconnect(c) \/ DisconnectDone(c)

OverflowStep(c, s) ==
  OverflowSend(c, s) \/ OverflowClose(c, s) \/ OverflowFinish(c, s)

(* Steps that depend on the client or on traffic from Redis.               *)
ClientStep(c) == Accept(c) \/ Reject(c) \/ Receive(c) \/ PeerGone(c)

Next ==
  \/ \E c \in Conns : SessionStep(c) \/ ClientStep(c) \/ Drain(c)
  \/ \E c \in Conns, s \in Slots : OverflowStep(c, s)
  \/ \E r \in Rooms, x \in Users \cup {NoUser} : Broadcast(r, x)

Spec == Init /\ [][Next]_vars

(* The event loop runs every coroutine whose await is over; socket writes  *)
(* and closes, Redis calls and queries return or raise; a peer that is     *)
(* gone left finitely many events behind, so its session reads the         *)
(* disconnect in the end.                                                  *)
Fairness ==
  /\ \A c \in Conns : WF_vars(SessionStep(c)) /\ SF_vars(NoticeClosed(c))
  /\ \A c \in Conns, s \in Slots : WF_vars(OverflowStep(c, s))

FairSpec == Spec /\ Fairness

-----------------------------------------------------------------------------
(* Properties.                                                             *)

(* A connection that has joined a room and is registered is in the set     *)
(* that broadcast_to_room serves, however joins, leaves, evictions, late   *)
(* disconnects and overflow tasks of the same user interleave.             *)
RegisteredRoomsIndexed ==
  \A c \in Conns : connections[UserOf[c]] = c =>
    \A r \in rooms[c] : UserOf[c] \in room_connections[r]

(* _connections maps a user to a connection of that user, whose session    *)
(* has been through connect and has not been through disconnect (the one   *)
(* exception is a session whose finally block raised).                     *)
RegisteredIsServing ==
  \A u \in Users : connections[u] # NoConn =>
    /\ UserOf[connections[u]] = u
    /\ pc[connections[u]] \in Serving \cup {"aborted"}

(* Backpressure is about slow clients only: the queue of a registered      *)
(* connection with an open socket always has a task draining it.           *)
RegisteredIsDrained ==
  \A c \in Conns :
    connections[UserOf[c]] = c /\ ws[c] = "open" => send_task[c] = "running"

(* While connect awaits the eviction of the old connection it holds the    *)
(* lock, and nobody registers another connection for the user meanwhile:   *)
(* the entry written after the await replaces the evicted one or none.     *)
EvictionIsExclusive ==
  \A c \in Conns : pc[c] \in {"evict_send", "evict_close"} =>
    /\ lock = c
    /\ UserOf[victim[c]] = UserOf[c]
    /\ connections[UserOf[c]] \in {victim[c], NoConn}

(* The lock is held across an await by the one session that is evicting or *)
(* closing, and by no session that has gone on.                            *)
LockHolder == \A c \in Conns : lock = c <=> pc[c] \in Locked

(* Nobody waits in a circle for the lock: the session that holds it is at  *)
(* an await that returns or raises by itself, so it goes on and releases   *)
(* the lock whatever the sessions that wait do.                            *)
HolderCanGoOn ==
  lock # NoConn =>
    \/ pc[lock] \in {"evict_close", "closing"}
    \/ pc[lock] = "evict_send" /\ ws[victim[lock]] # "none"

(* What a session may rely on before its registration and between the      *)
(* steps of an eviction or of a join: facts that the invariants need.      *)
SessionInv ==
  \A c \in Conns :
    /\ pc[c] \in Fresh => rooms[c] = {}
    /\ pc[c] \in {"join", "leave"} => arg[c] \in Rooms
    /\ pc[c] \in {"evict_send", "evict_close"} =>
         victim[c] \in Conns /\ pc[victim[c]] \notin Fresh
    /\ pc[c] = "evict_close" => ws[victim[c]] = "closed"

(* The inductive invariant from which the properties above are proved.     *)
IndInv ==
  /\ TypeOK
  /\ SessionInv
  /\ LockHolder
  /\ EvictionIsExclusive
  /\ RegisteredIsServing
  /\ RegisteredRoomsIndexed
  /\ RegisteredIsDrained

(* connect never overwrites the entry of a connection that can still send  *)
(* and receive: the old one has been closed, or its peer is gone.          *)
NoOverwrite ==
  [][\A u \in Users :
       connections[u] # NoConn /\ connections'[u] \notin {connections[u], NoConn}
         => ws[connections[u]] # "open"]_vars

(* The connections that have been through connect: their send task exists. *)
Entered == {c \in Conns : send_task[c] # "none"}

(* A user with one connection keeps it: clean-ups by user id and unlocked  *)
(* overflow tasks can only cost a connection its entry when an older one   *)
(* of the same user has been there, or when its socket is not open.        *)
AloneIsRegistered ==
  \A c \in Conns :
    /\ pc[c] \in Serving
    /\ ws[c] = "open"
    /\ \A d \in Entered : UserOf[d] = UserOf[c] => d = c
    => connections[UserOf[c]] = c

(* Who has entered, by the point its session or its overflow task is at.   *)
EnteredInv ==
  \A c \in Conns :
    /\ pc[c] \in Fresh => c \notin Entered
    /\ pc[c] \in Serving \cup {"closing", "aborted"} => c \in Entered
    /\ pc[c] \in {"evict_send", "evict_close"} => victim[c] \in Entered
    /\ \A s \in Slots :
         /\ fd[<<c, s>>] # "idle" => c \in Entered
         /\ fd[<<c, s>>] = "close" => ws[c] = "closed"

(* The rooms of a connection count while it is registered.                 *)
Joined ==
  [c \in Conns |-> IF connections[UserOf[c]] = c THEN rooms[c] ELSE {}]

(* The manager seen from outside, without its lock, sockets and tasks.     *)
Outside == INSTANCE Hub WITH
  Capacity <- MAX_SEND_QUEUE_SIZE,
  registered <- connections,
  entered <- Entered,
  joined <- Joined,
  queue <- send_queue

(* connect, with its eviction across two awaits, disconnect and the        *)
(* overflow tasks, each take effect in one step; joins, leaves, replies    *)
(* and broadcasts concern the connection that is in.                       *)
ManagerIsHub == Outside!Spec

(* "The old one is disconnected first": a socket that is still open is     *)
(* closed by its own session's cleanup, by a newer connect evicting it or  *)
(* by its own send queue overflowing, and by nothing else.                 *)
CloseHasCause ==
  [][\A c \in Conns : ws[c] = "open" /\ ws'[c] = "closed" =>
       \/ pc'[c] = "closing" /\ victim'[c] = c
       \/ \E d \in Conns : pc[d] = "evict_send" /\ victim[d] = c
       \/ \E s \in Slots : fd[<<c, s>>] = "send"]_vars

(* A session whose socket is gone or closed comes to its end, whatever the *)
(* other sessions do with the lock.                                        *)
DeadSessionEnds ==
  \A c \in Conns :
    (pc[c] # "new" /\ ws[c] \in {"gone", "closed"}) ~> (pc[c] \in Ended)

(* No session waits for ever: one that is connecting, handling an event or *)
(* cleaning up gets back to its receive loop or to its end.                *)
BusySessionProceeds ==
  \A c \in Conns : (pc[c] # "new") ~> (pc[c] \in {"loop"} \cup Ended)
=============================================================================

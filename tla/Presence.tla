------------------------------ MODULE Presence ------------------------------
(***************************************************************************)
(* Who is online in a room: PresenceService (services/presence_service.py) *)
(* as the sessions of api/websocket/chat.py use it.                        *)
(*                                                                         *)
(* One room, since each has a key of its own.  A user's sessions, on       *)
(* different instances or one that has evicted the other, share one entry  *)
(* of the sorted set.  The cleanup of a session looks at conn.rooms of its *)
(* own connection, while a join is recorded at whichever connection the    *)
(* instance has registered for the user.  An action is the code up to      *)
(* Redis's next answer.  The clocks of the instances differ.  The hash of  *)
(* user names and the events that are published change nothing here.       *)
(***************************************************************************)
EXTENDS Integers

CONSTANTS
  Sessions,
  Users,
  Instances,
  UserOf,      \* the user of each session
  InstanceOf,  \* the instance that serves each session
  Offset,      \* how far the clock of each instance is ahead
  Skew,        \* the most that two clocks differ
  timeout,     \* PRESENCE_TIMEOUT_SECONDS
  NoEntry,
  NoSession,
  MaxTime,     \* bound: the time at which a behaviour stops
  MaxCalls     \* bound: the joins and leaves of all sessions

(* An entry of the sorted set: its score is what the clock of session by   *)
(* showed at time at.                                                      *)
Entry == [by : Sessions, at : Nat]

ASSUME PresenceAssumption ==
  /\ UserOf \in [Sessions -> Users]
  /\ InstanceOf \in [Sessions -> Instances]
  /\ Offset \in [Instances -> Int]
  /\ \A i, j \in Instances : Offset[i] - Offset[j] <= Skew
  /\ Skew \in Nat /\ timeout \in Nat /\ MaxTime \in Nat /\ MaxCalls \in Nat
  /\ NoEntry \notin Entry
  /\ NoSession \notin Sessions

VARIABLES
  now,
  presence,     \* the sorted set of the room
  connections,  \* per instance and user: the session that is registered
  rooms,        \* the sessions whose conn.rooms has the room
  pc,           \* per session: the answer of Redis it awaits
  stamp,        \* per session: when the call it is in read the clock
  online,       \* per session: the list of online users it is about to send
  last,         \* history, per user: when set_online was last called for him
  calls,        \* history: the joins and leaves there have been
  broken        \* history: users whose sessions did not all run their course

vars ==
  <<now, presence, connections, rooms, pc, stamp, online, last, calls, broken>>

history == <<last, calls>>

Joining == {"zadd", "list", "prune", "range", "names"}
Running == Joining \cup {"idle", "zrem", "cleanup"}

TypeOK ==
  /\ now \in Nat
  /\ presence \in [Users -> Entry \cup {NoEntry}]
  /\ connections \in [Instances -> [Users -> Sessions \cup {NoSession}]]
  /\ rooms \subseteq Sessions
  /\ pc \in [Sessions -> Running \cup {"new", "ended"}]
  /\ stamp \in [Sessions -> Nat]
  /\ online \in [Sessions -> SUBSET Users]
  /\ last \in [Users -> Nat]
  /\ calls \in Nat
  /\ broken \subseteq Users

Init ==
  /\ now = 0
  /\ presence = [u \in Users |-> NoEntry]
  /\ connections = [i \in Instances |-> [u \in Users |-> NoSession]]
  /\ rooms = {}
  /\ pc = [s \in Sessions |-> "new"]
  /\ stamp = [s \in Sessions |-> 0]
  /\ online = [s \in Sessions |-> {}]
  /\ last = [u \in Users |-> 0]
  /\ calls = 0
  /\ broken = {}

-----------------------------------------------------------------------------
Goto(s, from, to) == pc[s] = from /\ pc' = [pc EXCEPT ![s] = to]

(* time.time() of the session's instance.                                  *)
ReadClock(s) == stamp' = [stamp EXCEPT ![s] = now]

(* self._connections of the session's instance, at its user.               *)
Registered(s) == connections[InstanceOf[s]][UserOf[s]]

Register(s, entry) ==
  connections' = [connections EXCEPT ![InstanceOf[s]][UserOf[s]] = entry]

Tick ==
  /\ now < MaxTime
  /\ now' = now + 1
  /\ UNCHANGED <<presence, connections, rooms, pc, stamp, online, history>>
  /\ UNCHANGED broken

(* connect evicts a connection of the user's on this instance.             *)
Connect(s) ==
  /\ Goto(s, "new", "idle")
  /\ Register(s, s)
  /\ broken' = IF Registered(s) = NoSession THEN broken
               ELSE broken \cup {UserOf[s]}
  /\ UNCHANGED <<now, presence, rooms, stamp, online, history>>

(* _force_disconnect of a slow client, perhaps a late one, pops the        *)
(* connection that is registered; its session goes on for now.             *)
ForceDisconnect(s) ==
  /\ pc[s] # "new"
  /\ Registered(s) # NoSession
  /\ Register(s, NoSession)
  /\ broken' = broken \cup {UserOf[s]}
  /\ UNCHANGED <<now, presence, rooms, pc, stamp, online, history>>

-----------------------------------------------------------------------------
(* _handle_join_room up to ZADD: join_room finds the registered connection *)
(* and set_online has read the clock.  A session may join again.           *)
JoinRoom(s) ==
  /\ Goto(s, "idle", "zadd")
  /\ rooms' = rooms \cup ({Registered(s)} \ {NoSession})
  /\ ReadClock(s)
  /\ last' = [last EXCEPT ![UserOf[s]] = now]
  /\ calls < MaxCalls /\ calls' = calls + 1
  /\ UNCHANGED <<now, presence, connections, online, broken>>

(* ZADD replaces the score, whoever has set it.                            *)
ZAdd(s) ==
  /\ Goto(s, "zadd", "list")
  /\ presence' = [presence EXCEPT ![UserOf[s]] = [by |-> s, at |-> stamp[s]]]
  /\ UNCHANGED <<now, connections, rooms, stamp, online, history, broken>>

(* get_online_users reads the clock.                                       *)
GetOnlineUsers(s) ==
  /\ Goto(s, "list", "prune")
  /\ ReadClock(s)
  /\ UNCHANGED <<now, presence, connections, rooms, online, history, broken>>

Score(e) == e.at + Offset[InstanceOf[e.by]]
Cutoff(s) == stamp[s] + Offset[InstanceOf[s]] - timeout

(* Faulty variant: the timeout is not subtracted.                          *)
PruneToNow(s) ==
  /\ Goto(s, "prune", "range")
  /\ presence' = [u \in Users |->
       IF presence[u] # NoEntry /\ Score(presence[u]) <= Cutoff(s) + timeout
         THEN NoEntry ELSE presence[u]]
  /\ UNCHANGED <<now, connections, rooms, stamp, online, history, broken>>

(* ZREMRANGEBYSCORE.                                                       *)
Prune(s) ==
  /\ Goto(s, "prune", "range")
  /\ presence' = [u \in Users |->
       IF presence[u] # NoEntry /\ Score(presence[u]) <= Cutoff(s)
         THEN NoEntry ELSE presence[u]]
  /\ UNCHANGED <<now, connections, rooms, stamp, online, history, broken>>

(* Faulty variant: whatever is left after pruning is online.               *)
RangeAll(s) ==
  /\ Goto(s, "range", "names")
  /\ online' = [online EXCEPT ![s] = {u \in Users : presence[u] # NoEntry}]
  /\ UNCHANGED <<now, presence, connections, rooms, stamp, history, broken>>

(* ZRANGEBYSCORE.                                                          *)
Range(s) ==
  /\ Goto(s, "range", "names")
  /\ online' = [online EXCEPT ![s] = {u \in Users :
       presence[u] # NoEntry /\ Score(presence[u]) >= Cutoff(s)}]
  /\ UNCHANGED <<now, presence, connections, rooms, stamp, history, broken>>

(* The local variables of a call that has ended.                           *)
Forget(S) ==
  /\ stamp' = [s \in Sessions |-> IF s \in S THEN 0 ELSE stamp[s]]
  /\ online' = [s \in Sessions |-> IF s \in S THEN {} ELSE online[s]]

(* The names have been read and the list is sent to the client.            *)
SendList(s) ==
  /\ Goto(s, "names", "idle")
  /\ Forget({s})
  /\ UNCHANGED <<now, presence, connections, rooms, history, broken>>

-----------------------------------------------------------------------------
(* _handle_leave_room up to ZREM, in the room or not.                      *)
LeaveRoom(s) ==
  /\ Goto(s, "idle", "zrem")
  /\ rooms' = rooms \ {Registered(s)}
  /\ calls < MaxCalls /\ calls' = calls + 1
  /\ UNCHANGED <<now, presence, connections, stamp, online, last, broken>>

(* set_offline: ZREM removes the user's entry, whoever has set it.         *)
ZRem(s) == presence' = [presence EXCEPT ![UserOf[s]] = NoEntry]

SetOffline(s) ==
  /\ Goto(s, "zrem", "idle")
  /\ ZRem(s)
  /\ UNCHANGED <<now, connections, rooms, stamp, online, history, broken>>

(* The receive loop ends, when the client has gone or a call of Redis      *)
(* raises in a handler.  Without the room there is nothing to clean up.    *)
(* A set_offline that has failed in the leave handler is not repeated.     *)
EndLoop(s) ==
  /\ \/ /\ s \in rooms
        /\ \E from \in Running \ {"cleanup"} : Goto(s, from, "cleanup")
        /\ UNCHANGED connections
     \/ /\ s \notin rooms
        /\ \E from \in Running \ {"cleanup"} : Goto(s, from, "ended")
        /\ Register(s, NoSession)
  /\ broken' = IF pc[s] = "zrem" THEN broken \cup {UserOf[s]} ELSE broken
  /\ Forget({s})
  /\ UNCHANGED <<now, presence, rooms, history>>

(* Faulty variant: the cleanup forgets set_offline.                        *)
CleanupSilently(s) ==
  /\ Goto(s, "cleanup", "ended")
  /\ Register(s, NoSession)
  /\ UNCHANGED <<now, presence, rooms, stamp, online, history, broken>>

(* The finally block: set_offline, then disconnect, which pops whichever   *)
(* connection is registered.                                               *)
Cleanup(s) ==
  /\ Goto(s, "cleanup", "ended")
  /\ ZRem(s)
  /\ Register(s, NoSession)
  /\ UNCHANGED <<now, rooms, stamp, online, history, broken>>

(* set_offline raises in the finally block, which skips disconnect.        *)
CleanupError(s) ==
  /\ Goto(s, "cleanup", "ended")
  /\ broken' = broken \cup {UserOf[s]}
  /\ UNCHANGED <<now, presence, connections, rooms, stamp, online, history>>

(* The process stops: its sessions end without set_offline.                *)
Crash(i) ==
  LET lost == {s \in Sessions : InstanceOf[s] = i /\ pc[s] \in Running}
  IN  /\ lost # {}
      /\ pc' = [s \in Sessions |-> IF s \in lost THEN "ended" ELSE pc[s]]
      /\ rooms' = rooms \ lost
      /\ Forget(lost)
      /\ connections' = [connections EXCEPT ![i] = [u \in Users |-> NoSession]]
      /\ broken' = broken \cup {UserOf[s] : s \in lost}
      /\ UNCHANGED <<now, presence, history>>

Next ==
  \/ Tick
  \/ \E s \in Sessions :
       \/ Connect(s) \/ ForceDisconnect(s)
       \/ JoinRoom(s) \/ ZAdd(s) \/ GetOnlineUsers(s) \/ Prune(s) \/ Range(s)
       \/ SendList(s) \/ LeaveRoom(s) \/ SetOffline(s)
       \/ EndLoop(s) \/ Cleanup(s) \/ CleanupError(s)
  \/ \E i \in Instances : Crash(i)

Spec == Init /\ [][Next]_vars

-----------------------------------------------------------------------------
(* Properties.                                                             *)

(* Nobody is listed for long after his last join: a user whose sessions    *)
(* were lost in a crash, or ended without the room because a join was      *)
(* recorded at another connection, is in no list that is begun later than  *)
(* the timeout (and the difference of the clocks) after the last           *)
(* set_online for him.                                                     *)
ListIsRecent ==
  \A s \in Sessions : \A u \in online[s] :
    stamp[s] - last[u] <= timeout + Skew

(* Nobody is taken off the list but by a session of his own, old or new,   *)
(* that says goodbye, or when the timeout (less the difference of the      *)
(* clocks) has passed since he joined.                                     *)
RemovedForCause ==
  [][\A u \in Users : presence[u] # NoEntry /\ presence'[u] = NoEntry =>
       \/ \E s \in Sessions :
            /\ UserOf[s] = u
            /\ pc[s] \in {"zrem", "cleanup"} /\ pc'[s] # pc[s]
       \/ \E s \in Sessions :
            /\ pc[s] = "prune"
            /\ stamp[s] - presence[u].at >= timeout - Skew]_vars

(* A user whose sessions all ran their course (none was evicted, dropped,  *)
(* lost or failed to say goodbye) is online only while the session that    *)
(* has put him there still runs, and will take him off when it ends.       *)
OnlineHasCause ==
  \A u \in Users \ broken : presence[u] # NoEntry =>
    LET s == presence[u].by
    IN  pc[s] \in {"zrem", "cleanup"} \/ (pc[s] \in Running /\ s \in rooms)

(* An entry belongs to its user and is not newer than his last join; only  *)
(* a list that is about to be sent is kept.                                *)
ClockInv ==
  /\ \A s \in Sessions :
       /\ pc[s] = "zadd" => stamp[s] <= last[UserOf[s]]
       /\ pc[s] # "names" => online[s] = {}
  /\ \A u \in Users : last[u] <= now
  /\ \A u \in Users : presence[u] # NoEntry =>
       UserOf[presence[u].by] = u /\ presence[u].at <= last[u]

(* A user's connection is a session of his; a running session of a user    *)
(* outside broken is the one that is registered.                           *)
RegisteredInv ==
  /\ \A i \in Instances, u \in Users : connections[i][u] # NoSession =>
       UserOf[connections[i][u]] = u
  /\ \A s \in Sessions : UserOf[s] \notin broken =>
       /\ pc[s] \in Running => Registered(s) = s
       /\ pc[s] \in Joining => s \in rooms

(* The inductive invariant from which the properties above are proved.     *)
PresenceInv ==
  /\ TypeOK
  /\ ClockInv
  /\ ListIsRecent
  /\ RegisteredInv
  /\ OnlineHasCause
=============================================================================

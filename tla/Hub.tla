-------------------------------- MODULE Hub --------------------------------
(***************************************************************************)
(* What a ConnectionManager promises of an instance, whatever awaits its   *)
(* operations take: connections enter once, a user has one at a time, a    *)
(* newer one replaces the older in one step, a connection starts without   *)
(* rooms and loses them when it is out, joins and leaves act on the user's *)
(* connection, and a broadcast reaches all connections that have joined    *)
(* the room, as far as their queues have room.                             *)
(*                                                                         *)
(* ConnectionManager implements this specification with its lock, its      *)
(* evictions, clean-ups and overflow tasks.                                *)
(***************************************************************************)
EXTENDS Naturals

CONSTANTS
  Users, Conns, UserOf, Rooms, NoConn,
  NoUser,   \* a broadcast that excludes nobody
  Capacity  \* of a send queue

VARIABLES
  registered,  \* user -> the connection that is in, or NoConn
  entered,     \* the connections that have ever been in
  joined,      \* connection -> the rooms it is to hear
  queue        \* connection -> messages waiting to be sent

hubVars == <<registered, entered, joined, queue>>

Init ==
  /\ registered = [u \in Users |-> NoConn]
  /\ entered = {}
  /\ joined = [c \in Conns |-> {}]
  /\ queue = [c \in Conns |-> 0]

In(c) == registered[UserOf[c]] = c

(* The queues with one message more for the connections in S, if it fits.  *)
Queued(S) ==
  [c \in Conns |-> IF c \in S /\ queue[c] < Capacity THEN queue[c] + 1
                                                     ELSE queue[c]]

(* A new connection takes its user's place and is welcomed.                *)
Enter(c) ==
  /\ c \notin entered
  /\ entered' = entered \cup {c}
  /\ registered' = [registered EXCEPT ![UserOf[c]] = c]
  /\ joined' = [d \in Conns |-> IF UserOf[d] = UserOf[c] THEN {} ELSE joined[d]]
  /\ queue' = [queue EXCEPT ![c] = 1]

(* The connection of a user is out, and hears no room any more.            *)
Exit(u) ==
  /\ registered' = [registered EXCEPT ![u] = NoConn]
  /\ joined' = [c \in Conns |-> IF UserOf[c] = u THEN {} ELSE joined[c]]
  /\ UNCHANGED <<entered, queue>>

Join(c, r) ==
  /\ In(c)
  /\ joined' = [joined EXCEPT ![c] = @ \cup {r}]
  /\ UNCHANGED <<registered, entered, queue>>

Leave(c, r) ==
  /\ In(c)
  /\ joined' = [joined EXCEPT ![c] = @ \ {r}]
  /\ UNCHANGED <<registered, entered, queue>>

(* All who have joined the room get the message, except for the user it is *)
(* about; so may connections of users who were in the room before.         *)
Broadcast(r, exclude) ==
  /\ \E S \in SUBSET {c \in Conns : In(c) /\ UserOf[c] # exclude} :
       /\ \A c \in Conns :
            In(c) /\ r \in joined[c] /\ UserOf[c] # exclude => c \in S
       /\ queue' = Queued(S)
  /\ UNCHANGED <<registered, entered, joined>>

Reply(c) ==
  /\ In(c)
  /\ queue' = Queued({c})
  /\ UNCHANGED <<registered, entered, joined>>

Send(c) ==
  /\ queue[c] > 0
  /\ queue' = [queue EXCEPT ![c] = @ - 1]
  /\ UNCHANGED <<registered, entered, joined>>

Next ==
  \/ \E c \in Conns : Enter(c) \/ Reply(c) \/ Send(c)
  \/ \E c \in Conns, r \in Rooms : Join(c, r) \/ Leave(c, r)
  \/ \E u \in Users : Exit(u)
  \/ \E r \in Rooms, x \in Users \cup {NoUser} : Broadcast(r, x)

Spec == Init /\ [][Next]_hubVars
=============================================================================

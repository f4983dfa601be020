----------------------------- MODULE Directory -----------------------------
(***************************************************************************)
(* What the HTTP API promises of accounts, rooms and memberships: they     *)
(* change as if requests were served one at a time, each in one step.      *)
(* RestApi, which has the transactions, implements this specification.     *)
(***************************************************************************)
CONSTANTS
  Ids,     \* of accounts and of rooms
  Names,
  Emails

VARIABLES
  accounts,  \* [id, name, email]
  rooms,     \* [id, created_by]
  members    \* [room, user, role]

dirVars == <<accounts, rooms, members>>

Init == accounts = {} /\ rooms = {} /\ members = {}

Account(u) == \E a \in accounts : a.id = u

(* A name and an email address belong to one account each.                 *)
Register(id, name, email) ==
  /\ \A a \in accounts : a.id # id /\ a.name # name /\ a.email # email
  /\ accounts' = accounts \cup {[id |-> id, name |-> name, email |-> email]}
  /\ UNCHANGED <<rooms, members>>

(* A room comes with its creator as its admin.                             *)
CreateRoom(r, u) ==
  /\ Account(u)
  /\ \A x \in rooms : x.id # r
  /\ rooms' = rooms \cup {[id |-> r, created_by |-> u]}
  /\ members' = members \cup {[room |-> r, user |-> u, role |-> "admin"]}
  /\ UNCHANGED accounts

JoinRoom(r, u) ==
  /\ Account(u)
  /\ \E x \in rooms : x.id = r
  /\ \A m \in members : ~(m.room = r /\ m.user = u)
  /\ members' = members \cup {[room |-> r, user |-> u, role |-> "member"]}
  /\ UNCHANGED <<accounts, rooms>>

(* Leaving ends the membership altogether.                                 *)
LeaveRoom(r, u) ==
  /\ members' = {m \in members : ~(m.room = r /\ m.user = u)}
  /\ UNCHANGED <<accounts, rooms>>

Next ==
  \/ \E id \in Ids, name \in Names, email \in Emails : Register(id, name, email)
  \/ \E r, u \in Ids : CreateRoom(r, u) \/ JoinRoom(r, u) \/ LeaveRoom(r, u)

Spec == Init /\ [][Next]_dirVars
=============================================================================

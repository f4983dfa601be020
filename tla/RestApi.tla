------------------------------ MODULE RestApi ------------------------------
(***************************************************************************)
(* The HTTP API for accounts and rooms: api/routes/auth.py and rooms.py,   *)
(* api/deps.py, AuthService, RoomService, the tokens of core/security.py   *)
(* and the tables they share.                                              *)
(*                                                                         *)
(* A request that writes is one transaction of get_db_session; requests    *)
(* run concurrently, on one or several instances, and an action is the     *)
(* code up to the database's next answer (READ COMMITTED).  Requests are   *)
(* numbered; the number stands for the ids a request gives to its rows.    *)
(* Passwords, descriptions and is_private are left out, and is_active,     *)
(* which nothing in the program ever sets to false.                        *)
(***************************************************************************)
EXTENDS Naturals

CONSTANTS
  Requests,    \* writing requests that can be under way at once
  Names,       \* usernames
  Emails,
  NoCall,
  NoRow,
  MaxRequests  \* bound: writing requests in all

ASSUME ApiAssumption == MaxRequests \in Nat

VARIABLES
  accounts,  \* committed rows of users
  rooms,     \* committed rows of rooms
  members,   \* committed rows of room_members
  gone,      \* history: rows that were deleted from room_members
  tokens,    \* tokens issued that have not expired
  served,    \* writing requests received
  call,      \* per request: what it asks for
  row,       \* per request: the membership a leave is going to delete
  pc         \* per request: the answer of the database it awaits

tables == <<accounts, rooms, members, gone>>
vars == <<tables, tokens, served, call, row, pc>>

Token == [type : {"access", "refresh"}, user : Nat]
Account == [id : Nat, name : Names, email : Emails]
RoomRow == [id : Nat, created_by : Nat]
Member == [id : Nat, room : Nat, user : Nat, role : {"admin", "member"}]
RegisterCall == [op : {"register"}, n : Nat, name : Names, email : Emails]
RoomCall == [op : {"create", "join", "leave"}, n : Nat, token : Token, room : Nat]

Busy == {"auth", "select", "insert", "delete", "commit"}

TypeOK ==
  /\ accounts \subseteq Account
  /\ rooms \subseteq RoomRow
  /\ members \subseteq Member
  /\ gone \subseteq Member
  /\ tokens \subseteq Token
  /\ served \in Nat
  /\ call \in [Requests -> RegisterCall \cup RoomCall \cup {NoCall}]
  /\ row \in [Requests -> Member \cup {NoRow}]
  /\ pc \in [Requests -> Busy \cup {"idle"}]

Init ==
  /\ accounts = {} /\ rooms = {} /\ members = {} /\ gone = {}
  /\ tokens = {}
  /\ served = 0
  /\ call = [q \in Requests |-> NoCall]
  /\ row = [q \in Requests |-> NoRow]
  /\ pc = [q \in Requests |-> "idle"]

-----------------------------------------------------------------------------
(* Tokens.  A token of the same type and user replaces an older one.       *)

Issue(u) == tokens' = tokens \cup [type : {"access", "refresh"}, user : {u}]

(* login with the right password; it reads one row and writes none.        *)
Login(name) ==
  /\ \E a \in accounts : a.name = name /\ Issue(a.id)
  /\ UNCHANGED <<tables, served, call, row, pc>>

(* refresh_token: the old token stays valid until it expires.              *)
RefreshToken(t) ==
  /\ t.type = "refresh"
  /\ \E a \in accounts : a.id = t.user /\ Issue(a.id)
  /\ UNCHANGED <<tables, served, call, row, pc>>

Expire(t) ==
  /\ tokens' = tokens \ {t}
  /\ UNCHANGED <<tables, served, call, row, pc>>

(* get_current_user lets a request pass.                                   *)
Authorised(t) ==
  /\ t \in tokens /\ t.type = "access"
  /\ \E a \in accounts : a.id = t.user

-----------------------------------------------------------------------------
(* Writing requests.                                                       *)

Goto(q, from, to) == pc[q] = from /\ pc' = [pc EXCEPT ![q] = to]

User(q) == call[q].token.user

(* The request has been answered.                                          *)
Reply(q, from) ==
  /\ Goto(q, from, "idle")
  /\ call' = [call EXCEPT ![q] = NoCall]
  /\ row' = [row EXCEPT ![q] = NoRow]

(* The response is an error and nothing has been written.                  *)
Refuse(q, from) ==
  /\ Reply(q, from)
  /\ UNCHANGED <<tables, tokens, served>>

Receive(q, c, first) ==
  /\ served < MaxRequests
  /\ served' = served + 1
  /\ Goto(q, "idle", first)
  /\ call' = [call EXCEPT ![q] = c]
  /\ UNCHANGED <<tables, tokens, row>>

PostRegister(q, name, email) ==
  Receive(q, [op |-> "register", n |-> served + 1, name |-> name, email |-> email],
          "select")

(* The room of a create is the one it makes.                               *)
PostCreate(q, t) ==
  Receive(q, [op |-> "create", n |-> served + 1, token |-> t, room |-> served + 1],
          "auth")

PostJoin(q, t, r) ==
  Receive(q, [op |-> "join", n |-> served + 1, token |-> t, room |-> r], "auth")

PostLeave(q, t, r) ==
  Receive(q, [op |-> "leave", n |-> served + 1, token |-> t, room |-> r], "auth")

AuthOk(q) ==
  /\ Goto(q, "auth", IF call[q].op = "create" THEN "insert" ELSE "select")
  /\ Authorised(call[q].token)
  /\ UNCHANGED <<tables, tokens, served, call, row>>

AuthError(q) ==
  /\ Refuse(q, "auth")
  /\ ~Authorised(call[q].token)

-----------------------------------------------------------------------------
(* SELECT before INSERT or DELETE.                                         *)

(* Faulty variant: email is not unique.                                    *)
TakenName(c) == {a \in accounts : a.name = c.name}

Taken(c) == {a \in accounts : a.name = c.name \/ a.email = c.email}

Membership(r, u) == {m \in members : m.room = r /\ m.user = u}

RoomExists(r) == \E x \in rooms : x.id = r

(* register finds neither the name nor the address.                        *)
RegisterFree(q) ==
  /\ Goto(q, "select", "insert")
  /\ call[q].op = "register"
  /\ Taken(call[q]) = {}
  /\ UNCHANGED <<tables, tokens, served, call, row>>

(* One account has the name or the address: ConflictError.  Two accounts,  *)
(* one with the name and one with the address: scalar_one_or_none raises   *)
(* MultipleResultsFound, a 500.                                            *)
RegisterTaken(q) ==
  /\ Refuse(q, "select")
  /\ call[q].op = "register"
  /\ Taken(call[q]) # {}

(* join_room: get_room finds the room, the user is not a member of it.     *)
JoinFree(q) ==
  /\ Goto(q, "select", "insert")
  /\ call[q].op = "join"
  /\ RoomExists(call[q].room)
  /\ Membership(call[q].room, User(q)) = {}
  /\ UNCHANGED <<tables, tokens, served, call, row>>

(* NotFoundError or ConflictError.                                         *)
JoinRefused(q) ==
  /\ Refuse(q, "select")
  /\ call[q].op = "join"
  /\ RoomExists(call[q].room) => Membership(call[q].room, User(q)) # {}

(* leave_room finds the membership it will delete.                         *)
LeaveFound(q) ==
  /\ Goto(q, "select", "delete")
  /\ call[q].op = "leave"
  /\ \E m \in Membership(call[q].room, User(q)) : row' = [row EXCEPT ![q] = m]
  /\ UNCHANGED <<tables, tokens, served, call>>

LeaveRefused(q) ==
  /\ Refuse(q, "select")
  /\ call[q].op = "leave"
  /\ Membership(call[q].room, User(q)) = {}

-----------------------------------------------------------------------------
(* INSERT and DELETE at flush().                                           *)

(* Two requests that insert the same unique key.                           *)
SameKey(c, d) ==
  \/ /\ c.op = "register" /\ d.op = "register"
     /\ c.name = d.name \/ c.email = d.email
  \/ /\ c.op = "join" /\ d.op = "join"
     /\ c.room = d.room /\ c.token.user = d.token.user

(* The committed rows that hold the unique key of the row to insert; the   *)
(* id of a new room is new.                                                *)
Holders(c) ==
  IF c.op = "register" THEN Taken(c)
  ELSE IF c.op = "join" THEN Membership(c.room, c.token.user)
  ELSE {}

(* A transaction that has inserted the key, or deleted its holder, and has *)
(* not ended: the INSERT waits for it.                                     *)
KeyLocked(q) ==
  \E p \in Requests \ {q} :
    /\ pc[p] = "commit"
    /\ \/ SameKey(call[p], call[q])
       \/ call[p].op = "leave" /\ row[p] \in Holders(call[q])

(* Faulty variant: uq_room_member and the unique columns are missing.      *)
InsertUnconstrained(q) ==
  /\ Goto(q, "insert", "commit")
  /\ UNCHANGED <<tables, tokens, served, call, row>>

Insert(q) ==
  /\ Goto(q, "insert", "commit")
  /\ ~KeyLocked(q)
  /\ Holders(call[q]) = {}
  /\ UNCHANGED <<tables, tokens, served, call, row>>

(* The key has been committed since the SELECT: IntegrityError, a 500.     *)
InsertConflict(q) ==
  /\ Refuse(q, "insert")
  /\ ~KeyLocked(q)
  /\ Holders(call[q]) # {}

(* DELETE by primary key.  It waits for another DELETE of the row; that no *)
(* row is left to delete is only logged.                                   *)
Delete(q) ==
  /\ Goto(q, "delete", "commit")
  /\ \A p \in Requests \ {q} :
       ~(pc[p] = "commit" /\ call[p].op = "leave" /\ row[p] = row[q])
  /\ UNCHANGED <<tables, tokens, served, call, row>>

-----------------------------------------------------------------------------
(* The end of the transaction.                                             *)

(* What the transaction of a call writes.                                  *)

WriteUser(c) ==
  /\ accounts' = accounts \cup {[id |-> c.n, name |-> c.name, email |-> c.email]}
  /\ UNCHANGED <<rooms, members, gone>>

(* Faulty variant: create_room commits before it adds its creator.         *)
WriteRoomAlone(c) ==
  /\ rooms' = rooms \cup {[id |-> c.n, created_by |-> c.token.user]}
  /\ UNCHANGED <<accounts, members, gone>>

WriteRoom(c) ==
  /\ rooms' = rooms \cup {[id |-> c.n, created_by |-> c.token.user]}
  /\ members' = members \cup
       {[id |-> c.n, room |-> c.n, user |-> c.token.user, role |-> "admin"]}
  /\ UNCHANGED <<accounts, gone>>

WriteMember(c) ==
  /\ members' = members \cup
       {[id |-> c.n, room |-> c.room, user |-> c.token.user, role |-> "member"]}
  /\ UNCHANGED <<accounts, rooms, gone>>

(* Faulty variant: DELETE ... WHERE room_id = ... AND user_id = ...        *)
DeleteMembership(m) ==
  /\ members' = members \ Membership(m.room, m.user)
  /\ gone' = gone \cup Membership(m.room, m.user)
  /\ UNCHANGED <<accounts, rooms>>

DeleteMember(m) ==
  /\ members' = members \ {m}
  /\ gone' = gone \cup {m}
  /\ UNCHANGED <<accounts, rooms>>

(* What transaction q has written becomes visible.                         *)
Effect(q) ==
  \/ call[q].op = "register" /\ WriteUser(call[q])
  \/ call[q].op = "create" /\ WriteRoom(call[q])
  \/ call[q].op = "join" /\ WriteMember(call[q])
  \/ call[q].op = "leave" /\ DeleteMember(row[q])

(* COMMIT is carried out; the response follows, unless the answer to the   *)
(* COMMIT is lost: then the request fails although it has taken effect.    *)
Commit(q) ==
  /\ Reply(q, "commit")
  /\ Effect(q)
  /\ UNCHANGED <<tokens, served>>

(* A statement or the COMMIT raises, or the process stops: ROLLBACK.       *)
Rollback(q) == \E from \in Busy : Refuse(q, from)

-----------------------------------------------------------------------------
(* What the database answers to request q.                                 *)
Answer(q) ==
  \/ AuthOk(q) \/ AuthError(q)
  \/ RegisterFree(q) \/ RegisterTaken(q)
  \/ JoinFree(q) \/ JoinRefused(q)
  \/ LeaveFound(q) \/ LeaveRefused(q)
  \/ Insert(q) \/ InsertConflict(q) \/ Delete(q)
  \/ Commit(q) \/ Rollback(q)

(* A client presents a token it was given, which may expire before it is   *)
(* decoded, and names a room that exists or one that does not (0).         *)
Post(q) ==
  \/ \E name \in Names, email \in Emails : PostRegister(q, name, email)
  \/ \E t \in tokens : PostCreate(q, t)
  \/ \E t \in tokens, r \in {x.id : x \in rooms} \cup {0} :
       PostJoin(q, t, r) \/ PostLeave(q, t, r)

Next ==
  \/ \E name \in Names : Login(name)
  \/ \E t \in tokens : RefreshToken(t) \/ Expire(t)
  \/ \E q \in Requests : Post(q) \/ Answer(q)

Spec == Init /\ [][Next]_vars

-----------------------------------------------------------------------------
(* Properties.                                                             *)

(* However requests overlap between their SELECT and their INSERT, no two  *)
(* accounts have the same username or the same email address, and nobody   *)
(* is a member of a room twice.                                            *)
UniqueKeys ==
  /\ \A a, b \in accounts : a.name = b.name \/ a.email = b.email => a = b
  /\ \A m, k \in members : m.room = k.room /\ m.user = k.user => m = k

(* "Create a new chat room and add creator as admin" is all or nothing: a  *)
(* room is never seen without the membership of its creator, unless he has *)
(* left, and nobody else is an admin.                                      *)
CreatorIsAdmin ==
  /\ \A x \in rooms : \E m \in members \cup gone :
       m.room = x.id /\ m.user = x.created_by /\ m.role = "admin"
  /\ \A m \in members : m.role = "admin" =>
       \E x \in rooms : x.id = m.room /\ x.created_by = m.user

(* A membership ends only by a leave_room of its user that has seen this   *)
(* very row: a leave that is late does not undo a join that came after it. *)
OnlySeenRowsLeave ==
  [][\A m \in members \ members' : \E q \in Requests :
       /\ pc[q] = "commit" /\ call[q].op = "leave"
       /\ row[q] = m /\ User(q) = m.user]_vars

Dir == INSTANCE Directory WITH
  Ids <- 0..MaxRequests,
  members <- {[room |-> m.room, user |-> m.user, role |-> m.role] : m \in members}

(* Overlapping transactions change the tables only as requests served one  *)
(* at a time would.                                                        *)
ServedOneAtATime == Dir!Spec

-----------------------------------------------------------------------------
(* What a request may rely on, by the stage it has reached.                *)
StageInv ==
  \A q \in Requests :
    LET c == call[q] IN
    /\ pc[q] # "idle" => c \in RegisterCall \cup RoomCall /\ c.n \in 1..served
    /\ pc[q] = "auth" => c.op # "register"
    /\ pc[q] = "insert" => c.op # "leave"
    /\ pc[q] = "delete" => c.op = "leave"
    /\ pc[q] \notin {"idle", "auth"} /\ c.op # "register" =>
         \E a \in accounts : a.id = c.token.user
    /\ pc[q] # "idle" /\ c.op = "create" => c.room = c.n
    /\ pc[q] \in {"insert", "commit"} /\ c.op = "join" => RoomExists(c.room)
    /\ pc[q] \in {"delete", "commit"} /\ c.op = "leave" =>
         /\ row[q] \in members \cup gone
         /\ row[q].room = c.room /\ row[q].user = c.token.user

(* The ids that a request under way will give to its rows are new.         *)
FreshInv ==
  \A q \in Requests : pc[q] # "idle" =>
    /\ \A p \in Requests \ {q} : pc[p] # "idle" => call[p].n # call[q].n
    /\ \A x \in accounts \cup rooms \cup members \cup gone : x.id # call[q].n

(* Rows refer to rows that exist.                                          *)
TableInv ==
  /\ served <= MaxRequests
  /\ \A x \in accounts \cup rooms \cup members \cup gone : x.id \in 1..served
  /\ \A m \in members \cup gone : RoomExists(m.room)
  /\ \A t \in tokens : \E a \in accounts : a.id = t.user

(* A row that has been inserted and not committed has its key to itself.   *)
PendingInv ==
  \A q \in Requests : pc[q] = "commit" =>
    /\ Holders(call[q]) = {}
    /\ \A p \in Requests \ {q} : pc[p] = "commit" => ~SameKey(call[p], call[q])

(* The inductive invariant from which the properties above are proved.     *)
ApiInv ==
  /\ TypeOK
  /\ TableInv
  /\ StageInv
  /\ FreshInv
  /\ PendingInv
  /\ UniqueKeys
  /\ CreatorIsAdmin
=============================================================================

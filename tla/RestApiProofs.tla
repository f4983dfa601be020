--------------------------- MODULE RestApiProofs ---------------------------
(***************************************************************************)
(* Proofs about RestApi, for any number of requests, names and addresses:  *)
(* ApiInv is an inductive invariant, and the transactions implement the    *)
(* specification Directory.                                                *)
(***************************************************************************)
EXTENDS RestApi, TLAPS

USE ApiAssumption
USE DEF WriteUser, WriteRoom, WriteMember, DeleteMember

-----------------------------------------------------------------------------
(* The first states satisfy the invariant: there are no rows yet.          *)
LEMMA InitApiInv == Init => ApiInv
  BY DEF Init, ApiInv, TypeOK, TableInv, StageInv, FreshInv, PendingInv,
         UniqueKeys, CreatorIsAdmin, Busy

(* An answered request has left nothing to keep.                           *)
LEMMA RefuseKeeps ==
  ASSUME ApiInv, NEW q \in Requests, NEW from \in Busy, Refuse(q, from)
  PROVE  ApiInv'
<1>1. TypeOK'
  BY DEF ApiInv, TypeOK, Refuse, Reply, Goto, tables, Busy
<1>2. TableInv' /\ UniqueKeys' /\ CreatorIsAdmin'
  BY DEF ApiInv, TableInv, UniqueKeys, CreatorIsAdmin, RoomExists,
         Refuse, tables
<1>3. StageInv'
  BY DEF ApiInv, StageInv, TypeOK, Refuse, Reply, Goto, tables, RoomExists
<1>4. FreshInv'
  BY DEF ApiInv, FreshInv, TypeOK, Refuse, Reply, Goto, tables
<1>5. PendingInv'
  BY DEF ApiInv, PendingInv, TypeOK, Refuse, Reply, Goto, tables, Holders,
         SameKey, Taken, Membership
<1>. QED BY <1>1, <1>2, <1>3, <1>4, <1>5 DEF ApiInv

(* Logging in, refreshing and expiry touch nothing but tokens, and tokens  *)
(* are issued to accounts.                                                 *)
LEMMA TokensKeep ==
  ASSUME ApiInv, tokens' \subseteq Token,
         \A t \in tokens' : \E a \in accounts : a.id = t.user,
         UNCHANGED <<tables, served, call, row, pc>>
  PROVE  ApiInv'
  BY DEF ApiInv, TypeOK, TableInv, StageInv, FreshInv, PendingInv, UniqueKeys,
         CreatorIsAdmin, tables, RoomExists, Holders, SameKey, Taken, Membership

(* A new request has a number of its own.                                  *)
LEMMA ReceiveKeeps ==
  ASSUME ApiInv, NEW q \in Requests, NEW c \in RegisterCall \cup RoomCall,
         NEW first \in {"select", "auth"},
         c.n = served + 1,
         c.op = "register" <=> first = "select",
         c.op = "create" => c.room = c.n,
         Receive(q, c, first)
  PROVE  ApiInv'
<1>1. TypeOK'
  BY DEF ApiInv, TypeOK, Receive, Goto, tables, Busy
<1>2. TableInv' /\ UniqueKeys' /\ CreatorIsAdmin'
  BY DEF ApiInv, TypeOK, TableInv, UniqueKeys, CreatorIsAdmin, RoomExists,
         Receive, tables
<1>3. StageInv'
  BY DEF ApiInv, StageInv, TypeOK, Receive, Goto, tables, RoomExists
<1>4. FreshInv'
  BY DEF ApiInv, FreshInv, StageInv, TableInv, TypeOK, Receive, Goto, tables
<1>5. PendingInv'
  BY DEF ApiInv, PendingInv, TypeOK, Receive, Goto, tables, Holders,
         SameKey, Taken, Membership
<1>. QED BY <1>1, <1>2, <1>3, <1>4, <1>5 DEF ApiInv

LEMMA PostKeeps ==
  ASSUME ApiInv, NEW q \in Requests, Post(q)
  PROVE  ApiInv'
<1>s. served \in Nat /\ tokens \subseteq Token /\ rooms \subseteq RoomRow
  BY DEF ApiInv, TypeOK
<1>1. ASSUME NEW name \in Names, NEW email \in Emails, PostRegister(q, name, email)
      PROVE  ApiInv'
  BY <1>1, <1>s, ReceiveKeeps DEF PostRegister, RegisterCall
<1>2. ASSUME NEW t \in tokens, PostCreate(q, t)
      PROVE  ApiInv'
  BY <1>2, <1>s, ReceiveKeeps DEF PostCreate, RoomCall
<1>3. ASSUME NEW t \in tokens, NEW r \in {x.id : x \in rooms} \cup {0},
             PostJoin(q, t, r) \/ PostLeave(q, t, r)
      PROVE  ApiInv'
  <2>1. r \in Nat BY <1>s DEF RoomRow
  <2>. QED BY <2>1, <1>3, <1>s, ReceiveKeeps DEF PostJoin, PostLeave, RoomCall
<1>. QED BY <1>1, <1>2, <1>3 DEF Post

-----------------------------------------------------------------------------
(* The statements of a transaction write nothing that others can see.      *)

(* A request that goes on to another stage than its COMMIT.                *)
LEMMA SelectKeeps ==
  ASSUME ApiInv, NEW q \in Requests,
         AuthOk(q) \/ RegisterFree(q) \/ JoinFree(q) \/ LeaveFound(q)
  PROVE  ApiInv'
<1>1. TypeOK'
  BY DEF ApiInv, TypeOK, AuthOk, RegisterFree, JoinFree, LeaveFound, Goto,
         tables, Busy, Membership
<1>2. TableInv' /\ UniqueKeys' /\ CreatorIsAdmin'
  BY DEF ApiInv, TableInv, UniqueKeys, CreatorIsAdmin, RoomExists, tables,
         AuthOk, RegisterFree, JoinFree, LeaveFound
<1>3. StageInv'
  BY DEF ApiInv, StageInv, TypeOK, Goto, tables, RoomExists, Authorised, User,
         Membership, AuthOk, RegisterFree, JoinFree, LeaveFound
<1>4. FreshInv'
  BY DEF ApiInv, FreshInv, TypeOK, Goto, tables,
         AuthOk, RegisterFree, JoinFree, LeaveFound
<1>5. PendingInv'
  BY DEF ApiInv, PendingInv, TypeOK, Goto, tables, Holders, SameKey, Taken,
         Membership, AuthOk, RegisterFree, JoinFree, LeaveFound
<1>. QED BY <1>1, <1>2, <1>3, <1>4, <1>5 DEF ApiInv

(* INSERT succeeds when the key is free and nobody else holds it.          *)
LEMMA FlushKeeps ==
  ASSUME ApiInv, NEW q \in Requests, Insert(q) \/ Delete(q)
  PROVE  ApiInv'
<1>1. TypeOK'
  BY DEF ApiInv, TypeOK, Insert, Delete, Goto, tables, Busy
<1>2. TableInv' /\ UniqueKeys' /\ CreatorIsAdmin'
  BY DEF ApiInv, TableInv, UniqueKeys, CreatorIsAdmin, RoomExists, tables,
         Insert, Delete
<1>3. StageInv'
  BY DEF ApiInv, StageInv, TypeOK, Goto, tables, RoomExists, Insert, Delete
<1>4. FreshInv'
  BY DEF ApiInv, FreshInv, TypeOK, Goto, tables, Insert, Delete
<1>5. PendingInv'
  <2>1. \A p \in Requests \ {q} : pc[p] = "commit" =>
          ~SameKey(call[p], call[q]) /\ ~SameKey(call[q], call[p])
    BY DEF ApiInv, StageInv, Insert, Delete, Goto, KeyLocked, SameKey
  <2>2. Holders(call[q]) = {}
    BY DEF ApiInv, StageInv, Insert, Delete, Goto, Holders
  <2>. QED
    BY <2>1, <2>2 DEF ApiInv, PendingInv, TypeOK, Goto, tables, Insert, Delete,
         Holders, SameKey, Taken, Membership
<1>. QED BY <1>1, <1>2, <1>3, <1>4, <1>5 DEF ApiInv

-----------------------------------------------------------------------------
(* COMMIT.                                                                 *)

(* Commit is one of four.                                                  *)
CommitOf(q, op) == Commit(q) /\ call[q].op = op

LEMMA RegisterKeeps ==
  ASSUME ApiInv, NEW q \in Requests, CommitOf(q, "register")
  PROVE  ApiInv'
<1>. DEFINE a == [id |-> call[q].n, name |-> call[q].name, email |-> call[q].email]
<1>1. /\ accounts' = accounts \cup {a}
      /\ UNCHANGED <<rooms, members, gone, tokens, served>>
      /\ pc[q] = "commit" /\ call[q].op = "register"
  BY DEF CommitOf, Commit, Effect, Reply, Goto
<1>2. a \in Account /\ call[q].n \in 1..served
  BY <1>1 DEF ApiInv, StageInv, RegisterCall, RoomCall, Account
<1>3. \A b \in accounts : b.name # a.name /\ b.email # a.email
  BY <1>1 DEF ApiInv, PendingInv, Holders, Taken
<1>4. TypeOK'
  BY <1>1, <1>2 DEF ApiInv, TypeOK, CommitOf, Commit, Reply, Goto, Busy
<1>5. TableInv'
  BY <1>1, <1>2 DEF ApiInv, TableInv, RoomExists
<1>6. StageInv'
  BY <1>1 DEF ApiInv, StageInv, TypeOK, CommitOf, Commit, Reply, Goto, RoomExists
<1>7. FreshInv'
  BY <1>1, <1>2 DEF ApiInv, FreshInv, TypeOK, CommitOf, Commit, Reply, Goto
<1>8. PendingInv'
  <2>1. \A p \in Requests \ {q} : pc[p] = "commit" => ~SameKey(call[p], call[q])
    BY <1>1 DEF ApiInv, PendingInv
  <2>. QED
    BY <1>1, <2>1 DEF ApiInv, PendingInv, TypeOK, CommitOf, Commit, Reply, Goto,
         Holders, SameKey, Taken, Membership
<1>9. UniqueKeys' /\ CreatorIsAdmin'
  BY <1>1, <1>3 DEF ApiInv, UniqueKeys, CreatorIsAdmin
<1>. QED BY <1>4, <1>5, <1>6, <1>7, <1>8, <1>9 DEF ApiInv

(* The id of the room is new, so no membership refers to it yet.           *)
LEMMA CreateKeeps ==
  ASSUME ApiInv, NEW q \in Requests, CommitOf(q, "create")
  PROVE  ApiInv'
<1>. DEFINE c == call[q]
            x == [id |-> c.n, created_by |-> c.token.user]
            m == [id |-> c.n, room |-> c.n, user |-> c.token.user, role |-> "admin"]
<1>1. /\ rooms' = rooms \cup {x}
      /\ members' = members \cup {m}
      /\ UNCHANGED <<accounts, gone, tokens, served>>
      /\ pc[q] = "commit" /\ c.op = "create"
  BY DEF CommitOf, Commit, Effect, Reply, Goto
<1>2. x \in RoomRow /\ m \in Member /\ c.n \in 1..served
  BY <1>1 DEF ApiInv, StageInv, RegisterCall, RoomCall, Token, RoomRow, Member
<1>3. /\ \A y \in rooms : y.id # c.n
      /\ \A k \in members \cup gone : k.room # c.n
  BY <1>1 DEF ApiInv, FreshInv, TableInv, RoomExists
<1>4. TypeOK'
  BY <1>1, <1>2 DEF ApiInv, TypeOK, CommitOf, Commit, Reply, Goto, Busy
<1>5. TableInv'
  BY <1>1, <1>2 DEF ApiInv, TableInv, RoomExists
<1>6. StageInv'
  BY <1>1 DEF ApiInv, StageInv, TypeOK, CommitOf, Commit, Reply, Goto, RoomExists
<1>7. FreshInv'
  BY <1>1, <1>2 DEF ApiInv, FreshInv, TypeOK, CommitOf, Commit, Reply, Goto
<1>8. PendingInv'
  <2>1. \A p \in Requests \ {q} :
          pc[p] = "commit" /\ call[p].op = "join" => call[p].room # c.n
    BY <1>3 DEF ApiInv, StageInv, RoomExists
  <2>. QED
    BY <1>1, <2>1 DEF ApiInv, PendingInv, TypeOK, CommitOf, Commit, Reply, Goto,
         Holders, SameKey, Taken, Membership
<1>9. UniqueKeys'
  BY <1>1, <1>3 DEF ApiInv, UniqueKeys
<1>10. CreatorIsAdmin'
  <2>0. m.room = x.id /\ m.user = x.created_by /\ m.role = "admin"
    OBVIOUS
  <2>. HIDE DEF x, m
  <2>1. ASSUME NEW y \in rooms'
        PROVE  \E k \in members' \cup gone' :
                 k.room = y.id /\ k.user = y.created_by /\ k.role = "admin"
    BY <1>1, <2>0, <2>1 DEF ApiInv, CreatorIsAdmin
  <2>2. ASSUME NEW k \in members', k.role = "admin"
        PROVE  \E y \in rooms' : y.id = k.room /\ y.created_by = k.user
    BY <1>1, <2>0, <2>2 DEF ApiInv, CreatorIsAdmin
  <2>. QED BY <2>1, <2>2 DEF CreatorIsAdmin
<1>. QED BY <1>4, <1>5, <1>6, <1>7, <1>8, <1>9, <1>10 DEF ApiInv

LEMMA JoinKeeps ==
  ASSUME ApiInv, NEW q \in Requests, CommitOf(q, "join")
  PROVE  ApiInv'
<1>. DEFINE c == call[q]
            m == [id |-> c.n, room |-> c.room, user |-> c.token.user, role |-> "member"]
<1>1. /\ members' = members \cup {m}
      /\ UNCHANGED <<accounts, rooms, gone, tokens, served>>
      /\ pc[q] = "commit" /\ c.op = "join"
  BY DEF CommitOf, Commit, Effect, Reply, Goto
<1>2. m \in Member /\ c.n \in 1..served /\ RoomExists(c.room)
  BY <1>1 DEF ApiInv, StageInv, RegisterCall, RoomCall, Token, Member
<1>3. \A k \in members : ~(k.room = c.room /\ k.user = c.token.user)
  BY <1>1 DEF ApiInv, PendingInv, Holders, Membership
<1>4. TypeOK'
  BY <1>1, <1>2 DEF ApiInv, TypeOK, CommitOf, Commit, Reply, Goto, Busy
<1>5. TableInv'
  BY <1>1, <1>2 DEF ApiInv, TableInv, RoomExists
<1>6. StageInv'
  BY <1>1 DEF ApiInv, StageInv, TypeOK, CommitOf, Commit, Reply, Goto, RoomExists
<1>7. FreshInv'
  BY <1>1, <1>2 DEF ApiInv, FreshInv, TypeOK, CommitOf, Commit, Reply, Goto
<1>8. PendingInv'
  <2>1. \A p \in Requests \ {q} : pc[p] = "commit" => ~SameKey(call[p], call[q])
    BY <1>1 DEF ApiInv, PendingInv
  <2>. QED
    BY <1>1, <2>1 DEF ApiInv, PendingInv, TypeOK, CommitOf, Commit, Reply, Goto,
         Holders, SameKey, Taken, Membership
<1>9. UniqueKeys'
  BY <1>1, <1>3 DEF ApiInv, UniqueKeys
<1>10. CreatorIsAdmin'
  BY <1>1 DEF ApiInv, CreatorIsAdmin
<1>. QED BY <1>4, <1>5, <1>6, <1>7, <1>8, <1>9, <1>10 DEF ApiInv

LEMMA LeaveKeeps ==
  ASSUME ApiInv, NEW q \in Requests, CommitOf(q, "leave")
  PROVE  ApiInv'
<1>1. /\ members' = members \ {row[q]}
      /\ gone' = gone \cup {row[q]}
      /\ UNCHANGED <<accounts, rooms, tokens, served>>
      /\ pc[q] = "commit" /\ call[q].op = "leave"
  BY DEF CommitOf, Commit, Effect, Reply, Goto
<1>2. row[q] \in members \cup gone
  BY <1>1 DEF ApiInv, StageInv
<1>3. members' \cup gone' = members \cup gone /\ members' \subseteq members
  BY <1>1, <1>2
<1>4. TypeOK'
  BY <1>1, <1>2 DEF ApiInv, TypeOK, CommitOf, Commit, Reply, Goto, Busy
<1>5. TableInv'
  BY <1>1, <1>3 DEF ApiInv, TableInv, RoomExists
<1>6. StageInv'
  BY <1>1, <1>3 DEF ApiInv, StageInv, TypeOK, CommitOf, Commit, Reply, Goto, RoomExists
<1>7. FreshInv'
  BY <1>1, <1>3 DEF ApiInv, FreshInv, TypeOK, CommitOf, Commit, Reply, Goto
<1>8. PendingInv'
  BY <1>1 DEF ApiInv, PendingInv, TypeOK, CommitOf, Commit, Reply, Goto,
         Holders, SameKey, Taken, Membership
<1>9. UniqueKeys'
  BY <1>1 DEF ApiInv, UniqueKeys
<1>10. CreatorIsAdmin'
  BY <1>1, <1>3 DEF ApiInv, CreatorIsAdmin
<1>. QED BY <1>4, <1>5, <1>6, <1>7, <1>8, <1>9, <1>10 DEF ApiInv

LEMMA CommitCases ==
  ASSUME NEW q \in Requests, Commit(q)
  PROVE  \E op \in {"register", "create", "join", "leave"} : CommitOf(q, op)
  BY DEF Commit, CommitOf, Effect

(* Every step of the specification keeps the invariant.                    *)
LEMMA NextKeeps == ApiInv /\ [Next]_vars => ApiInv'
<1>. SUFFICES ASSUME ApiInv, [Next]_vars PROVE ApiInv'
  OBVIOUS
<1>1. CASE UNCHANGED vars
  BY <1>1, TokensKeep DEF vars, ApiInv, TypeOK, TableInv
<1>2. ASSUME NEW name \in Names, Login(name) PROVE ApiInv'
  BY <1>2, TokensKeep DEF Login, Issue, ApiInv, TypeOK, TableInv, Token, Account
<1>3. ASSUME NEW t \in tokens, RefreshToken(t) \/ Expire(t) PROVE ApiInv'
  BY <1>3, TokensKeep DEF RefreshToken, Expire, Issue, ApiInv, TypeOK, TableInv,
                          Token, Account
<1>4. ASSUME NEW q \in Requests, Post(q) PROVE ApiInv'
  BY <1>4, PostKeeps
<1>5. ASSUME NEW q \in Requests, Answer(q) PROVE ApiInv'
  <2>1. CASE AuthError(q) \/ RegisterTaken(q) \/ JoinRefused(q)
             \/ LeaveRefused(q) \/ InsertConflict(q) \/ Rollback(q)
    BY <2>1, RefuseKeeps DEF AuthError, RegisterTaken, JoinRefused, LeaveRefused,
                             InsertConflict, Rollback, Busy
  <2>2. CASE AuthOk(q) \/ RegisterFree(q) \/ JoinFree(q) \/ LeaveFound(q)
    BY <2>2, SelectKeeps
  <2>3. CASE Insert(q) \/ Delete(q)
    BY <2>3, FlushKeeps
  <2>4. CASE Commit(q)
    BY <2>4, CommitCases, RegisterKeeps, CreateKeeps, JoinKeeps, LeaveKeeps
  <2>. QED BY <1>5, <2>1, <2>2, <2>3, <2>4 DEF Answer
<1>. QED BY <1>1, <1>2, <1>3, <1>4, <1>5 DEF Next

LEMMA ApiInvHolds == Spec => []ApiInv
  BY InitApiInv, NextKeeps, PTL DEF Spec

-----------------------------------------------------------------------------
(* However requests overlap between their SELECT and their INSERT, names,  *)
(* addresses and memberships stay unique (auth_service.register,           *)
(* room_service.join_room).                                                *)
THEOREM KeysStayUnique == Spec => []UniqueKeys
<1>1. ApiInv => UniqueKeys BY DEF ApiInv
<1>. QED BY <1>1, ApiInvHolds, PTL

(* create_room is all or nothing.                                          *)
THEOREM RoomsHaveCreators == Spec => []CreatorIsAdmin
<1>1. ApiInv => CreatorIsAdmin BY DEF ApiInv
<1>. QED BY <1>1, ApiInvHolds, PTL

(* Steps other than COMMIT leave the tables alone.                         *)
LEMMA OnlyCommitWrites ==
  ASSUME [Next]_vars
  PROVE  UNCHANGED tables \/ \E q \in Requests : Commit(q)
  BY DEF Next, vars, tables, Login, RefreshToken, Expire, Post, PostRegister,
    PostCreate, PostJoin, PostLeave, Receive, Answer, AuthOk, AuthError,
    RegisterFree, RegisterTaken, JoinFree, JoinRefused, LeaveFound, LeaveRefused,
    Insert, InsertConflict, Delete, Rollback, Refuse

(* leave_room deletes nothing but the row it has seen.                     *)
THEOREM LateLeaveIsHarmless == Spec => OnlySeenRowsLeave
<1>. DEFINE Seen == \A m \in members \ members' : \E q \in Requests :
                      /\ pc[q] = "commit" /\ call[q].op = "leave"
                      /\ row[q] = m /\ User(q) = m.user
<1>1. ApiInv /\ [Next]_vars => [Seen]_vars
  <2>. SUFFICES ASSUME ApiInv, [Next]_vars, NEW m \in members \ members'
                PROVE  \E q \in Requests :
                         /\ pc[q] = "commit" /\ call[q].op = "leave"
                         /\ row[q] = m /\ User(q) = m.user
    OBVIOUS
  <2>1. PICK q \in Requests : Commit(q)
    BY OnlyCommitWrites DEF tables
  <2>2. pc[q] = "commit" /\ call[q].op = "leave" /\ row[q] = m
    BY <2>1 DEF Commit, Effect, Reply, Goto
  <2>. QED BY <2>2 DEF ApiInv, StageInv, User
<1>. QED BY <1>1, ApiInvHolds, PTL DEF Spec, OnlySeenRowsLeave

-----------------------------------------------------------------------------
(* The refinement.  A membership row without its id:                       *)
Abs(m) == [room |-> m.room, user |-> m.user, role |-> m.role]

(* A row is added, or the only row of its room and user is removed.        *)
LEMMA AbsAdd ==
  ASSUME NEW M, NEW m
  PROVE  {Abs(k) : k \in M \cup {m}} = {Abs(k) : k \in M} \cup {Abs(m)}
  OBVIOUS

LEMMA AbsRemove ==
  ASSUME UniqueKeys, NEW m \in members
  PROVE  {Abs(k) : k \in members \ {m}}
           = {a \in {Abs(k) : k \in members} : ~(a.room = m.room /\ a.user = m.user)}
  BY DEF UniqueKeys, Abs

LEMMA DirStep ==
  ASSUME NEW r \in 0..MaxRequests, NEW u \in 0..MaxRequests,
         Dir!CreateRoom(r, u) \/ Dir!JoinRoom(r, u) \/ Dir!LeaveRoom(r, u)
  PROVE  Dir!Next
  BY DEF Dir!Next

(* Every COMMIT is a step of Directory, or changes nothing it can see.     *)
LEMMA CommitMaps ==
  ASSUME ApiInv, NEW q \in Requests, Commit(q)
  PROVE  Dir!Next \/ UNCHANGED Dir!dirVars
<1>. DEFINE c == call[q]
<1>0. /\ pc[q] = "commit" /\ c \in RegisterCall \cup RoomCall /\ c.n \in 0..MaxRequests
  BY DEF ApiInv, StageInv, TableInv, TypeOK, Commit, Reply, Goto
<1>1. CASE c.op = "register"
  <2>1. /\ accounts' = accounts \cup {[id |-> c.n, name |-> c.name, email |-> c.email]}
        /\ rooms' = rooms /\ members' = members
    BY <1>1 DEF Commit, Effect
  <2>2. \A a \in accounts : a.id # c.n /\ a.name # c.name /\ a.email # c.email
    BY <1>0, <1>1 DEF ApiInv, FreshInv, PendingInv, Holders, Taken
  <2>3. c.name \in Names /\ c.email \in Emails
    BY <1>0, <1>1 DEF RegisterCall, RoomCall
  <2>. QED BY <1>0, <2>1, <2>2, <2>3 DEF Dir!Next, Dir!Register
<1>2. ASSUME c.op # "register"
      PROVE  /\ \E a \in accounts : a.id = c.token.user
             /\ c.token.user \in 0..MaxRequests
  BY <1>0, <1>2 DEF ApiInv, StageInv, TableInv, TypeOK
<1>k. PICK n, r, u : n = c.n /\ r = c.room /\ u = c.token.user
  OBVIOUS
<1>3. CASE c.op = "create"
  <2>. DEFINE m == [id |-> c.n, room |-> c.n, user |-> c.token.user, role |-> "admin"]
  <2>1. /\ rooms' = rooms \cup {[id |-> c.n, created_by |-> c.token.user]}
        /\ members' = members \cup {m} /\ accounts' = accounts
    BY <1>3 DEF Commit, Effect
  <2>2. \A x \in rooms : x.id # c.n
    BY <1>0 DEF ApiInv, FreshInv
  <2>3. {Abs(k) : k \in members'} = {Abs(k) : k \in members} \cup {Abs(m)}
    BY <2>1, AbsAdd
  <2>4. Dir!CreateRoom(n, u)
    <3>1. Abs(m) = [room |-> c.n, user |-> c.token.user, role |-> "admin"]
      BY DEF Abs
    <3>2. /\ rooms' = rooms \cup {[id |-> c.n, created_by |-> c.token.user]}
          /\ accounts' = accounts
      BY <2>1
    <3>3. \E a \in accounts : a.id = c.token.user
      BY <1>2, <1>3
    <3>. QED BY <1>k, <2>2, <2>3, <3>1, <3>2, <3>3 DEF Dir!CreateRoom, Dir!Account, Abs
  <2>5. n \in 0..MaxRequests /\ u \in 0..MaxRequests
    BY <1>0, <1>2, <1>3, <1>k
  <2>. QED BY <2>4, <2>5, DirStep
<1>4. CASE c.op = "join"
  <2>. DEFINE m == [id |-> c.n, room |-> c.room, user |-> c.token.user, role |-> "member"]
  <2>1. members' = members \cup {m} /\ accounts' = accounts /\ rooms' = rooms
    BY <1>4 DEF Commit, Effect
  <2>2. PICK x \in rooms : x.id = c.room
    BY <1>0, <1>4 DEF ApiInv, StageInv, RoomExists
  <2>3. \A k \in members : ~(k.room = c.room /\ k.user = c.token.user)
    BY <1>0, <1>4 DEF ApiInv, PendingInv, Holders, Membership
  <2>4. {Abs(k) : k \in members'} = {Abs(k) : k \in members} \cup {Abs(m)}
    BY <2>1, AbsAdd
  <2>5. Dir!JoinRoom(r, u)
    BY <1>2, <1>4, <1>k, <2>1, <2>2, <2>3, <2>4 DEF Dir!JoinRoom, Dir!Account, Abs
  <2>6. r \in 0..MaxRequests /\ u \in 0..MaxRequests
    BY <1>2, <1>4, <1>k, <2>2 DEF ApiInv, TableInv, TypeOK
  <2>. QED BY <2>5, <2>6, DirStep
<1>5. CASE c.op = "leave"
  <2>1. members' = members \ {row[q]} /\ accounts' = accounts /\ rooms' = rooms
    BY <1>5 DEF Commit, Effect
  <2>2. row[q] \in members \cup gone /\ row[q].room = c.room /\ row[q].user = c.token.user
    BY <1>0, <1>5 DEF ApiInv, StageInv
  <2>3. CASE row[q] \notin members
    BY <2>1, <2>3 DEF Dir!dirVars
  <2>4. CASE row[q] \in members
    <3>1. {Abs(k) : k \in members'}
            = {a \in {Abs(k) : k \in members} : ~(a.room = c.room /\ a.user = c.token.user)}
      BY <2>1, <2>2, <2>4, AbsRemove DEF ApiInv
    <3>2. Dir!LeaveRoom(r, u)
      BY <1>k, <2>1, <3>1 DEF Dir!LeaveRoom, Abs
    <3>3. r \in 0..MaxRequests /\ u \in 0..MaxRequests
      BY <1>2, <1>5, <1>k, <2>2 DEF ApiInv, TableInv, TypeOK, RoomExists
    <3>. QED BY <3>2, <3>3, DirStep
  <2>. QED BY <2>3, <2>4
<1>. QED BY <1>0, <1>1, <1>3, <1>4, <1>5 DEF RegisterCall, RoomCall

(* The transactions of RestApi implement Directory: overlapping requests   *)
(* change the tables only as requests served one at a time would.          *)
THEOREM RestApiImplementsDirectory == Spec => ServedOneAtATime
<1>1. Init => Dir!Init
  BY DEF Init, Dir!Init
<1>2. ApiInv /\ [Next]_vars => [Dir!Next]_(Dir!dirVars)
  <2>. SUFFICES ASSUME ApiInv, [Next]_vars
                PROVE  Dir!Next \/ UNCHANGED Dir!dirVars
    OBVIOUS
  <2>1. CASE UNCHANGED tables
    BY <2>1 DEF tables, Dir!dirVars
  <2>. QED BY <2>1, OnlyCommitWrites, CommitMaps
<1>. QED BY <1>1, <1>2, ApiInvHolds, PTL DEF Spec, ServedOneAtATime, Dir!Spec
=============================================================================

--------------------------- MODULE HistoryProofs ---------------------------
(***************************************************************************)
(* Proofs about History, for every page size, every set of rooms and       *)
(* timestamps and every number of messages and of requests under way.  The *)
(* invariant is WalkInv: the properties alone are not inductive, because   *)
(* what the next page leaves out depends on where the cursor lies between  *)
(* what was seen and what was not, and on what the query of an answer that *)
(* is still on the way has seen.                                           *)
(***************************************************************************)
EXTENDS History, FiniteSetTheorems, TLAPS

(* What ORDER BY created_at DESC LIMIT k returns: rows of S, all of them   *)
(* if they fit, otherwise k of them that are not older than the rest.      *)
LEMMA NewestFacts ==
  ASSUME NEW S, IsFiniteSet(S), NEW k \in Nat, NEW T \in Newest(S, k)
  PROVE  /\ T \subseteq S
         /\ IsFiniteSet(T)
         /\ Cardinality(T) \in Nat
         /\ Cardinality(T) < k => T = S
         /\ Cardinality(S) <= k => T = S
         /\ \A a \in T, b \in S \ T : a.created_at >= b.created_at
<1>1. /\ T \subseteq S
      /\ Cardinality(T) = IF Cardinality(S) < k THEN Cardinality(S) ELSE k
      /\ \A a \in T, b \in S \ T : a.created_at >= b.created_at
  BY DEF Newest
<1>2. /\ IsFiniteSet(T)
      /\ Cardinality(T) = Cardinality(S) => T = S
  BY <1>1, FS_Subset
<1>3. Cardinality(T) \in Nat /\ Cardinality(S) \in Nat
  BY <1>2, FS_CardinalityType
<1> QED BY <1>1, <1>2, <1>3

(* What an answer of get_room_messages tells about the messages it was     *)
(* asked for: all of them, or those down to a cursor that one of them has. *)
LEMMA AnswerFacts ==
  ASSUME NEW S, S \subseteq Message, IsFiniteSet(S), NEW p, NEW k, Answer(S, p, k)
  PROVE  /\ p \subseteq S
         /\ \/ k = 0 /\ p = S
            \/ /\ k \in Times
               /\ \E m \in p : m.created_at = k
               /\ \A q \in p : q.created_at >= k
               /\ \A m \in S \ p : m.created_at <= k
<1>0. limit \in Nat /\ limit + 1 \in Nat
  BY LimitAssumption
<1>1. PICK fetched \in Newest(S, limit + 1) :
        /\ p \in Newest(fetched, limit)
        /\ \/ /\ Cardinality(fetched) > limit
              /\ \E m \in p : m.created_at = k /\ \A q \in p : k <= q.created_at
           \/ Cardinality(fetched) <= limit /\ k = 0
  BY DEF Answer
<1>2. /\ fetched \subseteq S
      /\ IsFiniteSet(fetched)
      /\ Cardinality(fetched) \in Nat
      /\ Cardinality(fetched) < limit + 1 => fetched = S
      /\ \A a \in fetched, b \in S \ fetched : a.created_at >= b.created_at
  BY <1>0, NewestFacts
<1>3. /\ p \subseteq fetched
      /\ Cardinality(fetched) <= limit => p = fetched
      /\ \A a \in p, b \in fetched \ p : a.created_at >= b.created_at
  BY <1>0, <1>1, <1>2, NewestFacts
<1>4. CASE Cardinality(fetched) <= limit
  BY <1>0, <1>1, <1>2, <1>3, <1>4
<1>5. CASE Cardinality(fetched) > limit
  <2>1. PICK m \in p : m.created_at = k /\ \A q \in p : k <= q.created_at
    BY <1>0, <1>1, <1>2, <1>5
  <2>2. \A q \in S : q.created_at \in Nat /\ q.created_at \in Times
    BY TimesAssumption DEF Message
  <2>3. \A b \in S \ p : b.created_at <= k
    BY <1>2, <1>3, <2>1, <2>2
  <2>4. \A q \in p : q.created_at >= k
    BY <1>2, <1>3, <2>1, <2>2
  <2> QED BY <1>2, <1>3, <2>1, <2>2, <2>3, <2>4
<1> QED BY <1>0, <1>2, <1>4, <1>5

LEMMA InitWalk == Init => WalkInv
<1> SUFFICES ASSUME Init PROVE WalkInv
  OBVIOUS
<1>1. /\ Idle \in Call
      /\ Idle.stage = "idle"
  BY DEF Idle, Request, Call
<1>2. \A c \in Calls : call[c] = Idle
  BY DEF Init
<1>3. TypeOK
  BY <1>1, <1>2 DEF Init, TypeOK
<1>4. AnswersOK
  BY <1>1, <1>2 DEF AnswersOK
<1>5. \A r \in Rooms : IsFiniteSet(rows[r])
  BY FS_EmptySet DEF Init
<1> QED BY <1>3, <1>4, <1>5 DEF Init, WalkInv, CursorInv, WalkInOrder, WalkComplete

(* A step of which the list knows nothing keeps its part of the invariant, *)
(* whether the room stays open or the list is given up; rows only grow.    *)
LEMMA ListKept ==
  ASSUME WalkInv, UNCHANGED <<messageCursors, page, earlier, base>>,
         intact' => intact /\ currentRoom' = currentRoom,
         \A r \in Rooms : rows[r] \subseteq rows'[r]
  PROVE  CursorInv' /\ WalkInOrder' /\ WalkComplete'
<1>1. CASE ~intact'
  BY <1>1 DEF CursorInv, WalkInOrder, WalkComplete
<1>2. CASE intact'
  <2>1. /\ intact /\ currentRoom' = currentRoom /\ currentRoom \in Rooms
        /\ rows[currentRoom] \subseteq rows'[currentRoom]
    BY <1>2 DEF WalkInv, CursorInv
  <2> QED BY <2>1 DEF WalkInv, CursorInv, WalkInOrder, WalkComplete, Seen, InOrTied
<1> QED BY <1>1, <1>2

(* Storing a message can only add rows: answers on the way stay as they    *)
(* are about what their query saw.                                         *)
LEMMA StoreWalk ==
  ASSUME WalkInv, NEW r \in Rooms, NEW t \in Times, Store(r, t)
  PROVE  WalkInv'
<1> DEFINE m == [n |-> stored, created_at |-> t]
<1>1. m \in Message /\ rows' = [rows EXCEPT ![r] = @ \cup {m}]
  BY DEF WalkInv, TypeOK, Store, Message
<1> HIDE DEF m
<1>2. /\ TypeOK'
      /\ \A s \in Rooms : rows[s] \subseteq rows'[s]
      /\ UNCHANGED <<call, currentRoom, shown, intact>>
  BY <1>1 DEF WalkInv, TypeOK, Store, shown
<1>3. \A s \in Rooms : IsFiniteSet(rows'[s])
  <2>1. \A s \in Rooms : rows'[s] = IF s = r THEN rows[s] \cup {m} ELSE rows[s]
    BY <1>1 DEF WalkInv, TypeOK
  <2>2. \A s \in Rooms : IsFiniteSet(rows[s]) /\ IsFiniteSet(rows[s] \cup {m})
    BY FS_AddElement DEF WalkInv
  <2> QED BY <2>1, <2>2
<1>4. AnswersOK'
  BY <1>2 DEF WalkInv, TypeOK, AnswersOK, AnswerOK, Before
<1> QED BY <1>2, <1>3, <1>4, ListKept DEF WalkInv, shown

(* Steps of the client that send a request, give one up or close the room. *)
LEMMA ClientWalk ==
  ASSUME WalkInv,
         \/ CloseRoom
         \/ \E c \in Calls :
              \/ \E r \in Rooms : switchRoom(c, r)
              \/ LoadMore(c) \/ CallFails(c)
  PROVE  WalkInv'
<1>1. /\ UNCHANGED <<stored, rows, messageCursors, loadMore, base>>
      /\ intact' => /\ intact
                    /\ UNCHANGED <<currentRoom, page, earlier>>
      /\ intact' \in BOOLEAN
  <2>1. CASE CloseRoom \/ \E c \in Calls, r \in Rooms : switchRoom(c, r)
    BY <2>1 DEF CloseRoom, switchRoom, shown
  <2>2. CASE \E c \in Calls : LoadMore(c) \/ CallFails(c)
    <3>1. /\ UNCHANGED <<stored, rows, shown>>
          /\ \/ UNCHANGED <<currentRoom, intact>>
             \/ intact' = FALSE
      BY <2>2 DEF LoadMore, CallFails
    <3>2. CASE UNCHANGED <<currentRoom, intact>>
      BY <3>1, <3>2 DEF WalkInv, TypeOK, shown
    <3>3. CASE intact' = FALSE
      BY <3>1, <3>3 DEF shown
    <3> QED BY <3>1, <3>2, <3>3
  <2> QED BY <2>1, <2>2
<1>2. /\ currentRoom' \in Rooms \cup {NoRoom}
      /\ page' \subseteq Message /\ earlier' \subseteq Message
  BY DEF WalkInv, TypeOK, CloseRoom, switchRoom, LoadMore, CallFails, shown
<1>3. /\ call' \in [Calls -> Call]
      /\ \A d \in Calls : call'[d].stage # "idle" => call'[d].room \in Rooms
      /\ \A d \in Calls : call'[d].stage = "answered" => call'[d] = call[d]
  <2>1. CASE CloseRoom
    BY <2>1 DEF WalkInv, TypeOK, CloseRoom
  <2>2. ASSUME NEW c \in Calls, NEW r \in Rooms, NEW b \in Times \cup {0},
               call' = [call EXCEPT ![c] = Request("sent", r, b)]
        PROVE  /\ call' \in [Calls -> Call]
               /\ \A d \in Calls :
                    call'[d].stage # "idle" => call'[d].room \in Rooms
               /\ \A d \in Calls :
                    call'[d].stage = "answered" => call'[d] = call[d]
    BY <2>2 DEF WalkInv, TypeOK, Request, Call
  <2>3. CASE \E c \in Calls, r \in Rooms : switchRoom(c, r)
    BY <2>2, <2>3 DEF switchRoom, loadMessages
  <2>4. CASE \E c \in Calls : LoadMore(c)
    <3>1. currentRoom # NoRoom => /\ currentRoom \in Rooms
                                  /\ messageCursors[currentRoom] \in Times \cup {0}
      BY DEF WalkInv, TypeOK
    <3> QED BY <2>2, <2>4, <3>1 DEF LoadMore, loadMessages
  <2>5. CASE \E c \in Calls : CallFails(c)
    BY <2>5 DEF WalkInv, TypeOK, CallFails, Idle, Request, Call
  <2> QED BY <2>1, <2>3, <2>4, <2>5
<1>4. TypeOK'
  BY <1>1, <1>2, <1>3 DEF WalkInv, TypeOK
<1>5. AnswersOK'
  BY <1>1, <1>3 DEF WalkInv, AnswersOK, AnswerOK, Before
<1>6. CursorInv' /\ WalkInOrder' /\ WalkComplete'
  <2>1. CASE ~intact'
    BY <2>1 DEF CursorInv, WalkInOrder, WalkComplete
  <2>2. CASE intact'
    BY <1>1, <2>2, ListKept
  <2> QED BY <2>1, <2>2
<1> QED BY <1>1, <1>4, <1>5, <1>6 DEF WalkInv

(* The query of a request leaves an answer that is right about its rows.   *)
LEMMA QueryWalk ==
  ASSUME WalkInv, NEW c \in Calls, Query(c)
  PROVE  WalkInv'
<1> DEFINE r == call[c].room
           b == call[c].before
           S == Before(rows[r], b)
<1>1. /\ call[c] \in Call /\ call[c].stage = "sent" /\ r \in Rooms
      /\ rows[r] \subseteq Message /\ IsFiniteSet(rows[r])
  BY DEF WalkInv, TypeOK, Query
<1>2. S \subseteq rows[r] /\ S \subseteq Message /\ IsFiniteSet(S)
  BY <1>1, FS_Subset DEF Before
<1>3. PICK p \in SUBSET S, k \in Times \cup {0} :
        /\ Answer(S, p, k)
        /\ call' = [call EXCEPT ![c] =
                      [@ EXCEPT !.stage = "answered", !.messages = p,
                                !.next_cursor = k, !.asked = rows[r]]]
  BY DEF Query
<1>4. UNCHANGED <<stored, rows, currentRoom, shown, intact>>
  BY DEF Query
<1> DEFINE a == [call[c] EXCEPT !.stage = "answered", !.messages = p,
                                !.next_cursor = k, !.asked = rows[r]]
<1>5. /\ a \in Call /\ a.room = r /\ a.before = b /\ a.messages = p
      /\ a.next_cursor = k /\ a.asked = rows[r]
  BY <1>1, <1>2 DEF Call
<1>6. /\ call'[c] = a
      /\ \A d \in Calls \ {c} : call'[d] = call[d]
      /\ call' \in [Calls -> Call]
  BY <1>1, <1>3, <1>5 DEF WalkInv, TypeOK
<1> HIDE DEF a
<1>7. /\ p \subseteq S
      /\ \/ k = 0 /\ p = S
         \/ /\ k \in Times
            /\ \E m \in p : m.created_at = k
            /\ \A q \in p : q.created_at >= k
            /\ \A m \in S \ p : m.created_at <= k
  <2> HIDE DEF S
  <2> QED BY <1>2, <1>3, AnswerFacts
<1>8. AnswerOK(a)
  BY <1>5, <1>7 DEF AnswerOK
<1>9. AnswersOK'
  <2>1. \A d \in Calls : call'[d].stage = "answered" => AnswerOK(call'[d])
    BY <1>6, <1>8 DEF WalkInv, AnswersOK
  <2> QED BY <1>4, <2>1 DEF AnswersOK, AnswerOK, Before
<1>10. TypeOK'
  BY <1>1, <1>4, <1>5, <1>6 DEF WalkInv, TypeOK, shown
<1> QED BY <1>4, <1>9, <1>10, ListKept DEF WalkInv, shown
(* Applying an answer: what does not depend on which page it is.           *)
LEMMA ReceiveOthers ==
  ASSUME WalkInv, NEW c \in Calls, Receive(c)
  PROVE  /\ TypeOK'
         /\ \A r \in Rooms : IsFiniteSet(rows'[r])
         /\ AnswersOK'
<1>1. call[c] \in Call /\ call[c].stage = "answered" /\ call[c].room \in Rooms
  BY DEF WalkInv, TypeOK, Receive
<1>2. /\ call' = [call EXCEPT ![c] = Idle]
      /\ messageCursors' = [messageCursors EXCEPT ![call[c].room] = call[c].next_cursor]
      /\ page' = call[c].messages
      /\ UNCHANGED <<stored, rows, currentRoom>>
  BY DEF Receive
<1>3. /\ loadMore' \in BOOLEAN /\ intact' \in BOOLEAN
      /\ earlier' \subseteq Message /\ base' \subseteq Message
  BY <1>1 DEF WalkInv, TypeOK, Receive, Call, Seen
<1>4. /\ call' \in [Calls -> Call]
      /\ \A d \in Calls : call'[d].stage # "idle" => call'[d] = call[d]
  BY <1>2 DEF WalkInv, TypeOK, Idle, Request, Call
<1>5. TypeOK'
  BY <1>1, <1>2, <1>3, <1>4 DEF WalkInv, TypeOK, Call
<1>6. AnswersOK'
  BY <1>2, <1>4 DEF WalkInv, AnswersOK, AnswerOK, Before
<1> QED BY <1>2, <1>5, <1>6 DEF WalkInv

(* A first page replaces the list.                                         *)
LEMMA ReceiveFirst ==
  ASSUME WalkInv, NEW c \in Calls, Receive(c), call[c].before = 0
  PROVE  CursorInv' /\ WalkInOrder' /\ WalkComplete'
<1> DEFINE p == call[c].messages
           k == call[c].next_cursor
           S == call[c].asked
<1>1. CASE ~intact'
  BY <1>1 DEF CursorInv, WalkInOrder, WalkComplete
<1>2. CASE intact'
  <2>1. /\ call[c].room = currentRoom /\ currentRoom \in Rooms
        /\ UNCHANGED <<rows, currentRoom>>
        /\ messageCursors'[currentRoom] = k
        /\ page' = p /\ earlier' = {} /\ base' = S
    BY <1>2 DEF WalkInv, TypeOK, Receive
  <2>2. /\ S \subseteq rows[currentRoom]
        /\ \A m \in rows[currentRoom] : m.created_at \in Nat
    <3>1. AnswerOK(call[c])
      BY DEF WalkInv, AnswersOK, Receive
    <3>2. rows[currentRoom] \subseteq Message
      BY <2>1 DEF WalkInv, TypeOK
    <3> QED BY <2>1, <3>1, <3>2, TimesAssumption DEF AnswerOK, Message
  <2>3. /\ p \subseteq S
        /\ \/ k = 0 /\ p = S
           \/ /\ k \in Times
              /\ \E m \in p : m.created_at = k
              /\ \A q \in p : q.created_at >= k
              /\ \A m \in S \ p : m.created_at <= k
    <3>1. Before(S, call[c].before) = S
      BY DEF Before
    <3>2. AnswerOK(call[c])
      BY DEF WalkInv, AnswersOK, Receive
    <3> QED BY <3>1, <3>2 DEF AnswerOK
  <2> HIDE DEF p, k, S
  <2>4. Seen' = p
    BY <2>1 DEF Seen
  <2>5. WalkInOrder' /\ WalkComplete'
    BY <2>1, <2>2, <2>3, <2>4, TimesAssumption DEF WalkInOrder, WalkComplete, InOrTied
  <2>6. CursorInv'
    <3>1. ASSUME k # 0, NEW m \in S, m.created_at >= k
          PROVE  m \in p \/ \E q \in p : q.created_at = m.created_at
      <4>1. m \notin p => m.created_at = k
        BY <2>2, <2>3, <3>1, TimesAssumption
      <4> QED BY <2>3, <3>1, <4>1
    <3> QED BY <2>1, <2>2, <2>3, <2>4, <3>1 DEF CursorInv, InOrTied
  <2> QED BY <2>5, <2>6
<1> QED BY <1>1, <1>2

(* A further page goes on top: its query has seen at least base, and asked *)
(* for what is older than the cursor that is still current.                *)
LEMMA ReceiveNext ==
  ASSUME WalkInv, NEW c \in Calls, Receive(c), call[c].before # 0
  PROVE  CursorInv' /\ WalkInOrder' /\ WalkComplete'
<1> DEFINE p == call[c].messages
           k == call[c].next_cursor
           b == call[c].before
           asked == call[c].asked
           S == Before(asked, b)
           all == rows[currentRoom]
<1>1. CASE ~intact'
  BY <1>1 DEF CursorInv, WalkInOrder, WalkComplete
<1>2. CASE intact'
  <2>1. /\ intact /\ call[c].room = currentRoom /\ currentRoom \in Rooms
        /\ UNCHANGED <<rows, currentRoom>>
        /\ b = messageCursors[currentRoom]
        /\ messageCursors'[currentRoom] = k
        /\ page' = p /\ earlier' = Seen /\ base' = base \cap asked
    BY <1>2 DEF WalkInv, TypeOK, Receive
  <2>2. /\ asked \subseteq all /\ p \subseteq S
        /\ \/ k = 0 /\ p = S
           \/ /\ k \in Times
              /\ \E m \in p : m.created_at = k
              /\ \A q \in p : q.created_at >= k
              /\ \A m \in S \ p : m.created_at <= k
    BY <2>1 DEF WalkInv, Receive, AnswersOK, AnswerOK
  <2>3. b # 0 /\ b \in Nat
    BY <2>1, TimesAssumption DEF WalkInv, TypeOK
  <2>4. /\ S \subseteq asked
        /\ \A m \in S : m.created_at < b
        /\ \A m \in asked \ S : ~(m.created_at < b)
    BY <2>3 DEF Before
  <2>5. /\ Seen \subseteq all /\ base \subseteq all
        /\ \A m \in all : m.created_at \in Nat
        /\ \A q \in Seen : q.created_at >= b
        /\ \A m \in base : m.created_at >= b => InOrTied(m, Seen, Seen)
    <3>1. all \subseteq Message
      BY <2>1 DEF WalkInv, TypeOK
    <3>2. \A m \in all : m.created_at \in Nat
      BY <3>1, TimesAssumption DEF Message
    <3> QED BY <2>1, <2>3, <3>2 DEF WalkInv, CursorInv, WalkInOrder
  <2> HIDE DEF p, k, b, asked, S, all
  <2>6. Seen' = Seen \cup p /\ rows'[currentRoom'] = all
    BY <2>1 DEF Seen, all
  <2>7. WalkInOrder'
    BY <2>1, <2>2, <2>3, <2>4, <2>5, <2>6 DEF WalkInOrder
  <2>8. ASSUME NEW m \in base \cap asked, m \notin S
        PROVE  InOrTied(m, Seen, Seen)
    BY <2>3, <2>4, <2>5, <2>8
  <2>9. WalkComplete'
    BY <2>1, <2>2, <2>6, <2>8, TimesAssumption DEF WalkComplete, InOrTied
  <2>10. CursorInv'
    <3>1. ASSUME k # 0, NEW q \in Seen \cup p
          PROVE  q.created_at >= k
      <4>1. PICK m \in p : m.created_at = k
        BY <2>2, <3>1
      <4>2. m.created_at < b /\ m \in all
        BY <2>2, <2>4
      <4> QED BY <2>2, <2>3, <2>5, <3>1, <4>1, <4>2
    <3>2. ASSUME k # 0, NEW m \in base \cap asked, m.created_at >= k
          PROVE  InOrTied(m, Seen \cup p, Seen \cup p)
      <4>1. CASE m \notin S
        BY <2>8, <4>1 DEF InOrTied
      <4>2. CASE m \in p
        BY <4>2 DEF InOrTied
      <4>3. CASE m \in S \ p
        <5>1. /\ m.created_at \in Nat /\ k \in Nat
              /\ m.created_at <= k /\ m.created_at >= k
          BY <2>2, <2>5, <3>2, <4>3, TimesAssumption
        <5>2. m.created_at = k
          BY <5>1
        <5> QED BY <2>2, <3>2, <5>2 DEF InOrTied
      <4> QED BY <4>1, <4>2, <4>3
    <3> QED BY <2>1, <2>5, <2>6, <3>1, <3>2 DEF CursorInv, InOrTied
  <2> QED BY <2>7, <2>9, <2>10
<1> QED BY <1>1, <1>2

(* The inductive invariant holds in every reachable state: about           *)
(* get_room_messages and the client's switchRoom and loadMessages, however *)
(* requests and answers of one or several rooms overlap.                   *)
THEOREM WalkInvariance == Spec => []WalkInv
<1>1. Init => WalkInv
  BY InitWalk
<1>2. WalkInv /\ [Next]_vars => WalkInv'
  <2> SUFFICES ASSUME WalkInv, [Next]_vars
               PROVE  WalkInv'
    OBVIOUS
  <2>1. CASE \E r \in Rooms, t \in Times : Store(r, t)
    BY <2>1, StoreWalk
  <2>2. CASE \/ CloseRoom
             \/ \E c \in Calls :
                  \/ \E r \in Rooms : switchRoom(c, r)
                  \/ LoadMore(c) \/ CallFails(c)
    BY <2>2, ClientWalk
  <2>3. CASE \E c \in Calls : Query(c)
    BY <2>3, QueryWalk
  <2>4. ASSUME NEW c \in Calls, Receive(c)
        PROVE  WalkInv'
    BY <2>4, ReceiveOthers, ReceiveFirst, ReceiveNext DEF WalkInv
  <2>5. CASE UNCHANGED vars
    BY <2>5 DEF WalkInv, TypeOK, AnswersOK, AnswerOK, Before, CursorInv, WalkInOrder,
                WalkComplete, Seen, InOrTied, vars
  <2> QED BY <2>1, <2>2, <2>3, <2>4, <2>5 DEF Next
<1> QED BY <1>1, <1>2, PTL DEF Spec

(* While no answer is applied out of turn, the pages in the list are of    *)
(* the open room and follow each other strictly by created_at, however     *)
(* messages are committed and requests overlap, fail or are left over.     *)
THEOREM InOrder == Spec => []WalkInOrder
<1>1. WalkInv => WalkInOrder
  BY DEF WalkInv
<1> QED BY <1>1, WalkInvariance, PTL

(* Such a walk to the end misses no message stored before its queries, but *)
(* for ties with a message of an earlier page (created_at < cursor).       *)
THEOREM Complete == Spec => []WalkComplete
<1>1. WalkInv => WalkComplete
  BY DEF WalkInv
<1> QED BY <1>1, WalkInvariance, PTL
=============================================================================

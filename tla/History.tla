------------------------------ MODULE History ------------------------------
(***************************************************************************)
(* The history of a room: MessageService.get_room_messages behind          *)
(* GET /rooms/{id}/messages, and the browser client that walks through it  *)
(* page by page (switchRoom, loadMessages and the "load older" button of   *)
(* client/app.js) while messages are being stored.                         *)
(*                                                                         *)
(* A request is sent, its query runs and its answer is applied in three    *)
(* steps.  Nothing in the client keeps a second request from being sent in *)
(* between, and an answer is applied whatever has happened since: to the   *)
(* one message list there is, under whichever room is open by then.        *)
(*                                                                         *)
(* A message gets its created_at from the clock of the instance that       *)
(* inserts it and becomes visible when its transaction commits, so         *)
(* messages appear in any order of created_at, and two may have the same.  *)
(* isoformat and fromisoformat keep a timestamp to the microsecond, as     *)
(* PostgreSQL does; cursors are therefore timestamps, and 0 is null.       *)
(* Messages are never deleted.  Contents, the order within a page and the  *)
(* messages that "message" events append below the pages are left out.     *)
(***************************************************************************)
EXTENDS Naturals, FiniteSets

CONSTANTS
  Rooms, NoRoom,
  Calls,        \* bound: requests of loadMessages under way at once
  limit,        \* page size
  Times,        \* bound: values of created_at
  MaxMessages   \* bound: messages stored

ASSUME LimitAssumption == limit \in Nat \ {0}
ASSUME TimesAssumption == Times \subseteq Nat \ {0} /\ MaxMessages \in Nat
ASSUME RoomsAssumption == NoRoom \notin Rooms

VARIABLES
  stored,          \* number of messages stored
  rows,            \* the committed messages of each room
  call,            \* the requests of loadMessages
  currentRoom,
  messageCursors,  \* per room: next_cursor of the last answer applied
  loadMore,        \* the button is displayed (has_more of the last answer)
  page,            \* dom.messages: the page rendered last,
  earlier,         \* and the messages of the pages below it
  base,            \* history: stored before every query the list is made of
  intact           \* history: no answer applied out of turn, see Receive

vars == <<stored, rows, call, currentRoom, messageCursors, loadMore, page,
          earlier, base, intact>>

Message == [n : Nat, created_at : Times]

(* asked is history: the room's messages when the query ran.               *)
Call == [stage : {"idle", "sent", "answered"}, room : Rooms \cup {NoRoom},
         before : Times \cup {0}, messages : SUBSET Message,
         next_cursor : Times \cup {0}, asked : SUBSET Message]

Request(stage, r, before) ==
  [stage |-> stage, room |-> r, before |-> before, messages |-> {},
   next_cursor |-> 0, asked |-> {}]

Idle == Request("idle", NoRoom, 0)

TypeOK ==
  /\ stored \in Nat
  /\ rows \in [Rooms -> SUBSET Message]
  /\ call \in [Calls -> Call]
  /\ \A c \in Calls : call[c].stage # "idle" => call[c].room \in Rooms
  /\ currentRoom \in Rooms \cup {NoRoom}
  /\ messageCursors \in [Rooms -> Times \cup {0}]
  /\ loadMore \in BOOLEAN
  /\ page \subseteq Message
  /\ earlier \subseteq Message
  /\ base \subseteq Message
  /\ intact \in BOOLEAN

Init ==
  /\ stored = 0
  /\ rows = [r \in Rooms |-> {}]
  /\ call = [c \in Calls |-> Idle]
  /\ currentRoom = NoRoom
  /\ messageCursors = [r \in Rooms |-> 0]
  /\ loadMore = FALSE
  /\ page = {}
  /\ earlier = {}
  /\ base = {}
  /\ intact = FALSE

Seen == earlier \cup page

shown == <<messageCursors, loadMore, page, earlier, base>>

-----------------------------------------------------------------------------
(* A message stored by any instance: the COMMIT of its transaction, with   *)
(* the created_at of its INSERT some time before.  (One that is rolled     *)
(* back is never seen by a query.)                                         *)
Store(r, t) ==
  /\ stored < MaxMessages
  /\ stored' = stored + 1
  /\ rows' = [rows EXCEPT ![r] = @ \cup {[n |-> stored, created_at |-> t]}]
  /\ UNCHANGED <<call, currentRoom, shown, intact>>

-----------------------------------------------------------------------------
(* The server: get_room_messages.                                          *)

(* ORDER BY created_at DESC LIMIT k: equal timestamps in any order.        *)
Newest(S, k) ==
  {T \in SUBSET S :
     /\ Cardinality(T) = IF Cardinality(S) < k THEN Cardinality(S) ELSE k
     /\ \A a \in T, b \in S \ T : a.created_at >= b.created_at}

(* Faulty variant: the message at the cursor is returned again.            *)
BeforeInclusive(S, t) == {m \in S : t = 0 \/ m.created_at <= t}

(* WHERE created_at < cursor, if there is a cursor.                        *)
Before(S, t) == {m \in S : t = 0 \/ m.created_at < t}

(* Faulty variant: one row too few is fetched to tell whether there are    *)
(* more.                                                                   *)
AnswerNoLookahead(S, p, k) ==
  \E fetched \in Newest(S, limit) :
    /\ p \in Newest(fetched, limit)
    /\ \/ /\ Cardinality(fetched) > limit
          /\ \E m \in p : m.created_at = k /\ \A q \in p : k <= q.created_at
       \/ Cardinality(fetched) <= limit /\ k = 0

(* The page p and the cursor k may be the answer for the messages S.  One  *)
(* row more than a page is fetched; if it exists there are more, and the   *)
(* oldest timestamp of the page is the cursor for the next one.            *)
Answer(S, p, k) ==
  \E fetched \in Newest(S, limit + 1) :
    /\ p \in Newest(fetched, limit)
    /\ \/ /\ Cardinality(fetched) > limit
          /\ \E m \in p : m.created_at = k /\ \A q \in p : k <= q.created_at
       \/ Cardinality(fetched) <= limit /\ k = 0

(* The query of a request runs; its answer is on the way.                  *)
Query(c) ==
  LET all == rows[call[c].room]
      S   == Before(all, call[c].before)
  IN  /\ call[c].stage = "sent"
      /\ \E p \in SUBSET S, k \in Times \cup {0} :
           /\ Answer(S, p, k)
           /\ call' = [call EXCEPT ![c] =
                         [@ EXCEPT !.stage = "answered", !.messages = p,
                                   !.next_cursor = k, !.asked = all]]
      /\ UNCHANGED <<stored, rows, currentRoom, shown, intact>>

-----------------------------------------------------------------------------
(* The client.                                                             *)

(* loadMessages up to its await.                                           *)
loadMessages(c, r, before) ==
  /\ call[c].stage = "idle"
  /\ call' = [call EXCEPT ![c] = Request("sent", r, before)]

(* The list is emptied at once; the room's cursor of an earlier visit and  *)
(* the button of the room before stay until the answer.                    *)
switchRoom(c, r) ==
  /\ currentRoom' = r
  /\ page' = {}
  /\ earlier' = {}
  /\ loadMessages(c, r, 0)
  /\ intact' = FALSE
  /\ UNCHANGED <<stored, rows, messageCursors, loadMore, base>>

(* A click on "Load older messages": the cursor is read now.               *)
LoadMore(c) ==
  /\ loadMore
  /\ currentRoom # NoRoom
  /\ messageCursors[currentRoom] # 0
  /\ loadMessages(c, currentRoom, messageCursors[currentRoom])
  /\ UNCHANGED <<stored, rows, currentRoom, shown, intact>>

(* leaveCurrentRoom's answer, or logout: the list is hidden, not emptied.  *)
CloseRoom ==
  /\ currentRoom' = NoRoom
  /\ intact' = FALSE
  /\ UNCHANGED <<stored, rows, call, shown>>

(* The rest of loadMessages: the button and the room's cursor are set, and *)
(* a first page replaces the list while another one goes on top of it.     *)
(* Neither the room nor the cursor is compared with the current ones: the  *)
(* list stays intact while the answers happen to be for the room that is   *)
(* open and for the cursor that is current.                                *)
Receive(c) ==
  LET a == call[c]
  IN  /\ a.stage = "answered"
      /\ call' = [call EXCEPT ![c] = Idle]
      /\ loadMore' = (a.next_cursor # 0)
      /\ messageCursors' = [messageCursors EXCEPT ![a.room] = a.next_cursor]
      /\ page' = a.messages
      /\ \/ /\ a.before = 0
            /\ earlier' = {}
            /\ base' = a.asked
            /\ intact' = (a.room = currentRoom)
         \/ /\ a.before # 0
            /\ earlier' = Seen
            /\ base' = base \cap a.asked
            /\ intact' = ( /\ intact
                           /\ a.room = currentRoom
                           /\ a.before = messageCursors[a.room])
      /\ UNCHANGED <<stored, rows, currentRoom>>

(* An error is only logged; after a 401 that no refresh cures the user has *)
(* been logged out by then.                                                *)
CallFails(c) ==
  /\ call[c].stage # "idle"
  /\ call' = [call EXCEPT ![c] = Idle]
  /\ \/ UNCHANGED <<currentRoom, intact>>
     \/ currentRoom' = NoRoom /\ intact' = FALSE
  /\ UNCHANGED <<stored, rows, shown>>

-----------------------------------------------------------------------------
Next ==
  \/ \E r \in Rooms, t \in Times : Store(r, t)
  \/ CloseRoom
  \/ \E c \in Calls :
       \/ \E r \in Rooms : switchRoom(c, r)
       \/ LoadMore(c) \/ Query(c) \/ Receive(c) \/ CallFails(c)

Spec == Init /\ [][Next]_vars

-----------------------------------------------------------------------------
(* Properties.                                                             *)

(* A message is in S, or one with the same created_at is in T: a page that *)
(* ends between two messages with one timestamp loses the second.          *)
InOrTied(m, S, T) == m \in S \/ \E q \in T : q.created_at = m.created_at

(* "Consistent results": as long as no answer has been applied out of      *)
(* turn, the list holds messages of the open room only, and its top page   *)
(* is strictly older than all pages below, so that nothing is shown twice, *)
(* whatever is committed meanwhile and whichever requests of this or of an *)
(* earlier visit are repeated, late or failing.                            *)
WalkInOrder ==
  intact =>
    /\ Seen \subseteq rows[currentRoom]
    /\ \A m \in page, q \in earlier : m.created_at < q.created_at

(* And nothing is left out: when such a walk has come to its end, every    *)
(* message that was stored before the first of the queries the list is     *)
(* made of is in the list, or ties with one of a page before the last.     *)
WalkComplete ==
  intact /\ messageCursors[currentRoom] = 0 =>
    \A m \in base : InOrTied(m, Seen, earlier)

(* Why that is so: the cursor bounds what has been seen from below and     *)
(* what is missing from above.                                             *)
CursorInv ==
  LET cursor == messageCursors[currentRoom]
  IN  intact =>
        /\ currentRoom \in Rooms
        /\ base \subseteq rows[currentRoom]
        /\ cursor # 0 =>
             /\ \A q \in Seen : q.created_at >= cursor
             /\ \A m \in base :
                  m.created_at >= cursor => InOrTied(m, Seen, Seen)

(* What an answer on the way says of the messages its query has seen: it   *)
(* is all of those asked for, or those down to a cursor one of them has.   *)
AnswerOK(a) ==
  LET S == Before(a.asked, a.before)
  IN  /\ a.asked \subseteq rows[a.room]
      /\ a.messages \subseteq S
      /\ \/ a.next_cursor = 0 /\ a.messages = S
         \/ /\ a.next_cursor \in Times
            /\ \E m \in a.messages : m.created_at = a.next_cursor
            /\ \A q \in a.messages : q.created_at >= a.next_cursor
            /\ \A m \in S \ a.messages : m.created_at <= a.next_cursor

AnswersOK == \A c \in Calls : call[c].stage = "answered" => AnswerOK(call[c])

(* The inductive invariant of the walk.                                    *)
WalkInv ==
  /\ TypeOK
  /\ \A r \in Rooms : IsFiniteSet(rows[r])
  /\ AnswersOK
  /\ CursorInv
  /\ WalkInOrder
  /\ WalkComplete
=============================================================================

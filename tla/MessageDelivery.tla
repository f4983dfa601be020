-------------------------- MODULE MessageDelivery --------------------------
(***************************************************************************)
(* The path of a chat message: _handle_message in                          *)
(* app/api/websocket/chat.py, MessageService.save_message, the message     *)
(* table, RedisBroker.publish with its retries and publish_dead_letter.    *)
(*                                                                         *)
(* Sessions may run on different instances; they share the database and    *)
(* Redis, and an action is the code up to the next answer of one of them.  *)
(* A client that retries sends the same idempotency key again, on the same *)
(* or on another session.  Contents are left out: a message is known by    *)
(* the event that carried it.  One room suffices.                          *)
(***************************************************************************)
EXTENDS Naturals, Sequences, FiniteSets

CONSTANTS
  Sessions,   \* websocket sessions that send messages
  Keys,       \* idempotency keys
  NoKey,      \* the event carries no key
  NoEvent,
  retries,    \* attempts of publish
  DLQ_MAX,    \* dead letters kept by ltrim
  MaxEvents   \* bound: message events received in all

ASSUME KeyAssumption == NoKey \notin Keys
ASSUME BoundAssumption ==
  retries \in Nat \ {0} /\ DLQ_MAX \in Nat \ {0} /\ MaxEvents \in Nat

(* n numbers the events as they are received and stands for the message's  *)
(* id; the key is its idempotency_key, and by the session it came in on.   *)
Event == [n : 1..MaxEvents, key : Keys \cup {NoKey}, by : Sessions]

VARIABLES
  received,  \* number of message events received
  pc,        \* per session: the answer it awaits
  event,     \* per session: the event it handles
  message,   \* per session: the row whose id it announces
  attempt,   \* per session: publish attempts that raised
  rows,      \* committed rows, each known by the event that inserted it
  feed,      \* what Redis has sent to the subscribers of the room
  dead_letter_queue,  \* the list in Redis, newest first
  letters    \* history: every dead letter pushed, newest first

vars == <<received, pc, event, message, attempt, rows, feed,
          dead_letter_queue, letters>>

TypeOK ==
  /\ received \in Nat
  /\ pc \in [Sessions -> {"idle", "select", "insert", "commit", "publish",
                          "lpush", "ltrim", "failed", "integrity_error"}]
  /\ event \in [Sessions -> Event \cup {NoEvent}]
  /\ message \in [Sessions -> Event \cup {NoEvent}]
  /\ attempt \in [Sessions -> 0..(retries - 1)]
  /\ rows \subseteq Event
  /\ feed \in Seq([id : Event, of : Event])
  /\ dead_letter_queue \in Seq(Event)
  /\ letters \in Seq(Event)

Init ==
  /\ received = 0
  /\ pc = [s \in Sessions |-> "idle"]
  /\ event = [s \in Sessions |-> NoEvent]
  /\ message = [s \in Sessions |-> NoEvent]
  /\ attempt = [s \in Sessions |-> 0]
  /\ rows = {}
  /\ feed = << >>
  /\ dead_letter_queue = << >>
  /\ letters = << >>

-----------------------------------------------------------------------------
(* No event is being handled: the session waits for one or has ended.      *)
Resting == {"idle", "failed", "integrity_error"}

Goto(s, from, to) == pc[s] = from /\ pc' = [pc EXCEPT ![s] = to]

WithKey(k) == {r \in rows : r.key = k}

redisVars == <<feed, dead_letter_queue, letters>>

(* _handle_message, the event being well-formed; the check for an existing *)
(* row is skipped without a key.                                           *)
Receive(s, k) ==
  /\ received < MaxEvents
  /\ received' = received + 1
  /\ Goto(s, "idle", IF k = NoKey THEN "insert" ELSE "select")
  /\ event' = [event EXCEPT ![s] = [n |-> received + 1, key |-> k, by |-> s]]
  /\ UNCHANGED <<message, attempt, rows, redisVars>>

(* The row to announce is known: publish starts.                           *)
Announce(s, row) ==
  /\ message' = [message EXCEPT ![s] = row]
  /\ attempt' = [attempt EXCEPT ![s] = 0]

(* save_message returns the existing row; it is announced again.           *)
SelectFound(s) ==
  /\ Goto(s, "select", "publish")
  /\ \E row \in WithKey(event[s].key) : Announce(s, row)
  /\ UNCHANGED <<received, event, rows, redisVars>>

SelectNone(s) ==
  /\ Goto(s, "select", "insert")
  /\ WithKey(event[s].key) = {}
  /\ UNCHANGED <<received, event, message, attempt, rows, redisVars>>

(* Faulty variant: the column is not unique.                               *)
InsertNotUnique(s) ==
  /\ Goto(s, "insert", "commit")
  /\ UNCHANGED <<received, event, message, attempt, rows, redisVars>>

(* Faulty variant: a session that failed keeps its transaction open.       *)
InsertBehindFailed(s) ==
  /\ Goto(s, "insert", "commit")
  /\ event[s].key # NoKey =>
       /\ WithKey(event[s].key) = {}
       /\ \A t \in Sessions : pc[t] \in {"commit", "failed"} =>
            event[t].key # event[s].key
  /\ UNCHANGED <<received, event, message, attempt, rows, redisVars>>

(* The INSERT of flush() succeeds; it waits for other transactions that    *)
(* have inserted the same key and not ended.                               *)
Insert(s) ==
  /\ Goto(s, "insert", "commit")
  /\ event[s].key # NoKey =>
       /\ WithKey(event[s].key) = {}
       /\ \A t \in Sessions : pc[t] = "commit" => event[t].key # event[s].key
  /\ UNCHANGED <<received, event, message, attempt, rows, redisVars>>

(* Faulty variant: the violation is swallowed and the message announced.   *)
InsertConflictSwallowed(s) ==
  /\ Goto(s, "insert", "publish")
  /\ event[s].key # NoKey
  /\ WithKey(event[s].key) # {}
  /\ Announce(s, event[s])
  /\ UNCHANGED <<received, event, rows, redisVars>>

(* The key has been committed since the SELECT: IntegrityError, and the    *)
(* session ends.                                                           *)
InsertConflict(s) ==
  /\ Goto(s, "insert", "integrity_error")
  /\ event[s].key # NoKey
  /\ WithKey(event[s].key) # {}
  /\ UNCHANGED <<received, event, message, attempt, rows, redisVars>>

Commit(s) ==
  /\ Goto(s, "commit", "publish")
  /\ rows' = rows \cup {event[s]}
  /\ Announce(s, event[s])
  /\ UNCHANGED <<received, event, redisVars>>

(* The database raises: the transaction is rolled back and the session     *)
(* ends.  A COMMIT may have taken effect all the same.                     *)
DbError(s) ==
  /\ \/ Goto(s, "select", "failed") /\ UNCHANGED rows
     \/ Goto(s, "insert", "failed") /\ UNCHANGED rows
     \/ Goto(s, "commit", "failed") /\ UNCHANGED rows
     \/ Goto(s, "commit", "failed") /\ rows' = rows \cup {event[s]}
  /\ UNCHANGED <<received, event, message, attempt, redisVars>>

-----------------------------------------------------------------------------
(* RedisBroker.publish.  The sleep between attempts changes nothing.       *)

(* PUBLISH takes effect.                                                   *)
Fanout(s) == feed' = Append(feed, [id |-> message[s], of |-> event[s]])

(* Faulty variant: a success publishes the dead letters once more.         *)
PublishOkReplays(s) ==
  /\ Goto(s, "publish", "idle")
  /\ feed' = Append(feed, [id |-> message[s], of |-> event[s]])
               \o [i \in 1..Len(dead_letter_queue) |->
                     [id |-> dead_letter_queue[i], of |-> dead_letter_queue[i]]]
  /\ dead_letter_queue' = << >>
  /\ UNCHANGED <<received, event, message, attempt, rows, letters>>

PublishOk(s) ==
  /\ Goto(s, "publish", "idle")
  /\ Fanout(s)
  /\ UNCHANGED <<received, event, message, attempt, rows,
                 dead_letter_queue, letters>>

(* Faulty variant: one attempt more than there should be.                  *)
RetryOrGiveUpLate(s) ==
  /\ pc[s] = "publish"
  /\ IF attempt[s] < retries
     THEN /\ attempt' = [attempt EXCEPT ![s] = @ + 1]
          /\ UNCHANGED pc
     ELSE /\ pc' = [pc EXCEPT ![s] = "lpush"]
          /\ UNCHANGED attempt

(* Faulty variant: attempts are not counted.                               *)
RetryOrGiveUpNever(s) ==
  /\ pc[s] = "publish"
  /\ UNCHANGED <<pc, attempt>>

(* An attempt raised: the next one, or the dead letter queue.              *)
RetryOrGiveUp(s) ==
  /\ pc[s] = "publish"
  /\ IF attempt[s] < retries - 1
     THEN /\ attempt' = [attempt EXCEPT ![s] = @ + 1]
          /\ UNCHANGED pc
     ELSE /\ pc' = [pc EXCEPT ![s] = "lpush"]
          /\ UNCHANGED attempt

(* The attempt raises before Redis has seen the command ...                *)
PublishFail(s) ==
  /\ RetryOrGiveUp(s)
  /\ UNCHANGED <<received, event, message, rows, feed, dead_letter_queue,
                 letters>>

(* ... or after: the reply is lost.                                        *)
PublishLost(s) ==
  /\ RetryOrGiveUp(s)
  /\ Fanout(s)
  /\ UNCHANGED <<received, event, message, rows, dead_letter_queue, letters>>

-----------------------------------------------------------------------------
(* publish_dead_letter; its errors are logged and swallowed.               *)

(* Faulty variant: rpush, so that ltrim drops the newest.                  *)
PushAtTail(s) ==
  /\ dead_letter_queue' = Append(dead_letter_queue, event[s])
  /\ letters' = <<event[s]>> \o letters

Push(s) ==
  /\ dead_letter_queue' = <<event[s]>> \o dead_letter_queue
  /\ letters' = <<event[s]>> \o letters

(* lpush succeeds, takes effect and raises, or raises without effect.      *)
LPush(s) ==
  /\ Goto(s, "lpush", "ltrim")
  /\ Push(s)
  /\ UNCHANGED <<received, event, message, attempt, rows, feed>>

LPushLost(s) ==
  /\ Goto(s, "lpush", "idle")
  /\ Push(s)
  /\ UNCHANGED <<received, event, message, attempt, rows, feed>>

LPushFail(s) ==
  /\ Goto(s, "lpush", "idle")
  /\ UNCHANGED <<received, event, message, attempt, rows, redisVars>>

(* ltrim succeeds or takes effect and raises.                              *)
LTrim(s) ==
  /\ Goto(s, "ltrim", "idle")
  /\ dead_letter_queue' =
       SubSeq(dead_letter_queue, 1,
              IF Len(dead_letter_queue) < DLQ_MAX
              THEN Len(dead_letter_queue) ELSE DLQ_MAX)
  /\ UNCHANGED <<received, event, message, attempt, rows, feed, letters>>

LTrimFail(s) ==
  /\ Goto(s, "ltrim", "idle")
  /\ UNCHANGED <<received, event, message, attempt, rows, redisVars>>

(* The instance is killed while the session handles an event; PostgreSQL   *)
(* rolls an open transaction back.                                         *)
Crash(s) ==
  /\ pc[s] \notin Resting
  /\ pc' = [pc EXCEPT ![s] = "failed"]
  /\ UNCHANGED <<received, event, message, attempt, rows, redisVars>>

-----------------------------------------------------------------------------
SaveStep(s) ==
  SelectFound(s) \/ SelectNone(s) \/ Insert(s) \/ InsertConflict(s)
    \/ Commit(s)

PublishStep(s) ==
  \/ PublishOk(s) \/ PublishFail(s) \/ PublishLost(s)
  \/ LPush(s) \/ LPushLost(s) \/ LPushFail(s) \/ LTrim(s) \/ LTrimFail(s)

Next ==
  \E s \in Sessions :
    \/ SaveStep(s) \/ PublishStep(s) \/ DbError(s) \/ Crash(s)
    \/ \E k \in Keys \cup {NoKey} : Receive(s, k)

Spec == Init /\ [][Next]_vars

(* Redis calls return or raise, statements whose locks are free complete,  *)
(* and the event loop resumes the session then.  Errors are not assumed: a *)
(* statement that waits for a lock may wait for as long as it is held.     *)
FairSpec ==
  Spec /\ \A s \in Sessions : WF_vars(SaveStep(s)) /\ WF_vars(PublishStep(s))

-----------------------------------------------------------------------------
(* Properties.                                                             *)

(* What is broadcast is in the history: every announced id is the id of a  *)
(* committed row, whichever sessions raced for the key and whatever failed.*)
AnnouncedIsStored == \A i \in 1..Len(feed) : feed[i].id \in rows

(* However often and by whichever sessions a key is sent, all that clients *)
(* see of it carries one message id.                                       *)
OneIdPerKey ==
  \A i, j \in 1..Len(feed) :
    feed[i].of.key = feed[j].of.key /\ feed[i].of.key # NoKey =>
      feed[i].id = feed[j].id

(* Why that is so: a key has one row, a transaction about to commit a key  *)
(* is alone with it, and a session announces a stored row with the key of  *)
(* its event.                                                              *)
DeliveryInv ==
  /\ TypeOK
  /\ \A r, q \in rows : r.key = q.key /\ r.key # NoKey => r = q
  /\ \A s \in Sessions :
       /\ pc[s] \notin Resting => event[s] \in Event
       /\ pc[s] \in {"publish", "lpush", "ltrim"} =>
            message[s] \in rows /\ message[s].key = event[s].key
       /\ pc[s] = "commit" /\ event[s].key # NoKey =>
            /\ WithKey(event[s].key) = {}
            /\ \A t \in Sessions \ {s} :
                 pc[t] = "commit" => event[t].key # event[s].key
  /\ \A i \in 1..Len(feed) :
       feed[i].id \in rows /\ feed[i].id.key = feed[i].of.key

(* Retries after lost replies broadcast one event at most `retries` times. *)
BoundedCopies ==
  \A e \in {feed[i].of : i \in 1..Len(feed)} :
    Cardinality({i \in 1..Len(feed) : feed[i].of = e}) <= retries

(* The dead letter queue is a run of the newest letters, and lacks one     *)
(* only if DLQ_MAX newer ones exist, whatever trims failed or overtook     *)
(* each other.                                                             *)
NewestLettersKept ==
  \E m \in 0..Len(letters) :
    /\ dead_letter_queue = SubSeq(letters, 1, m)
    /\ m = Len(letters) \/ m >= DLQ_MAX

(* The messages of a session reach the subscribers in the order in which   *)
(* it received them, duplicates of one after lost replies included: a      *)
(* later message never overtakes the retries of an earlier one.            *)
SenderOrder ==
  \A i, j \in 1..Len(feed) :
    i < j /\ feed[i].of.by = feed[j].of.by => feed[i].of.n <= feed[j].of.n

(* Why that is so: the event in hand is the session's newest, and all the  *)
(* subscribers have of the session is no newer.                            *)
SenderInv ==
  /\ \A s \in Sessions : pc[s] \notin Resting =>
       /\ event[s].by = s
       /\ \A i \in 1..Len(feed) :
            feed[i].of.by = s => feed[i].of.n <= event[s].n
  /\ SenderOrder

(* An upper bound on the answers that a session still awaits.              *)
Rank(s) ==
  CASE pc[s] = "select"  -> retries + 5
    [] pc[s] = "insert"  -> retries + 4
    [] pc[s] = "commit"  -> retries + 3
    [] pc[s] = "publish" -> retries + 2 - attempt[s]
    [] pc[s] = "lpush"   -> 2
    [] pc[s] = "ltrim"   -> 1
    [] OTHER             -> 0

(* Every answer, error and crash brings one session closer to its rest and *)
(* concerns no other session, unless an idle session receives an event: no *)
(* sequence of lost replies makes publish or the dead letter queue loop.   *)
EveryAnswerCounts ==
  [][\E s \in Sessions :
       /\ \A t \in Sessions \ {s} : Rank(t)' = Rank(t)
       /\ \/ Rank(s)' < Rank(s)
          \/ pc[s] = "idle" /\ received' = received + 1]_vars

(* The message path seen by the members of the room.                       *)
Log == INSTANCE RoomLog WITH stored <- rows, shown <- feed

(* Sessions that race for a key, transactions whose outcome is unknown,    *)
(* retries and crashes are not to be seen: the room is a log.              *)
RoomIsLog == Log!Spec

(* Handling an event comes to an end: sessions that wait for each other's  *)
(* INSERTs, retries and the dead letter queue never hang one.              *)
EventsEnd ==
  \A s \in Sessions : (pc[s] # "idle") ~> (pc[s] \in Resting)
=============================================================================

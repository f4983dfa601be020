----------------------- MODULE MessageDeliveryProofs -----------------------
(* What clients are told is stored, under one id per key: for any number   *)
(* of sessions, keys, events and publish attempts.                         *)
EXTENDS MessageDelivery, SequenceTheorems, FiniteSetTheorems, TLAPS

(* The parts of DeliveryInv other than the types.                          *)
UniqueRows == \A r, q \in rows : r.key = q.key /\ r.key # NoKey => r = q

SessionEvents ==
  \A s \in Sessions :
    /\ pc[s] \notin Resting => event[s] \in Event
    /\ pc[s] \in {"publish", "lpush", "ltrim"} =>
         message[s] \in rows /\ message[s].key = event[s].key

AloneWithKey ==
  \A s \in Sessions : pc[s] = "commit" /\ event[s].key # NoKey =>
    /\ WithKey(event[s].key) = {}
    /\ \A t \in Sessions \ {s} :
         pc[t] = "commit" => event[t].key # event[s].key

FeedStored ==
  \A i \in 1..Len(feed) :
    feed[i].id \in rows /\ feed[i].id.key = feed[i].of.key

LEMMA Parts ==
  DeliveryInv <=>
    TypeOK /\ UniqueRows /\ SessionEvents /\ AloneWithKey /\ FeedStored
BY DEF DeliveryInv, UniqueRows, SessionEvents, AloneWithKey, FeedStored

LEMMA InitInv == Init => DeliveryInv
<1> SUFFICES ASSUME Init PROVE DeliveryInv
  OBVIOUS
<1>1. TypeOK
  BY BoundAssumption DEF Init, TypeOK
<1>2. UniqueRows /\ SessionEvents /\ AloneWithKey /\ FeedStored
  BY DEF Init, UniqueRows, SessionEvents, AloneWithKey, FeedStored, Resting
<1> QED
  BY <1>1, <1>2, Parts

(* Prepending one letter keeps a sequence of events one.                   *)
LEMMA Prepended ==
  ASSUME NEW e \in Event, NEW q \in Seq(Event)
  PROVE  <<e>> \o q \in Seq(Event)
BY ConcatProperties

LEMMA StepType == DeliveryInv /\ [Next]_vars => TypeOK'
<1> SUFFICES ASSUME DeliveryInv, [Next]_vars PROVE TypeOK'
  OBVIOUS
<1>t. TypeOK /\ SessionEvents
  BY Parts
<1>u. CASE UNCHANGED vars
  BY <1>u, <1>t DEF TypeOK, vars
<1>r. ASSUME NEW s \in Sessions, NEW k \in Keys \cup {NoKey}, Receive(s, k)
      PROVE  TypeOK'
  <2>1. [n |-> received + 1, key |-> k, by |-> s] \in Event
    BY <1>r, <1>t, BoundAssumption DEF TypeOK, Event, Receive
  <2> QED
    BY <2>1, <1>r, <1>t DEF TypeOK, Receive, Goto, redisVars
<1>s. ASSUME NEW s \in Sessions, SaveStep(s) \/ DbError(s) \/ Crash(s)
      PROVE  TypeOK'
  <2>e. pc[s] \notin Resting => event[s] \in Event
    BY <1>t DEF SessionEvents
  <2>1. CASE SelectFound(s)
    BY <2>1, <1>t, BoundAssumption DEF TypeOK, SelectFound, Announce, WithKey,
       Goto, redisVars
  <2>2. CASE SelectNone(s) \/ InsertConflict(s)
    BY <2>2, <1>t
       DEF TypeOK, SelectNone, InsertConflict, Goto, redisVars
  <2>3. CASE Insert(s)
    BY <2>3, <1>t DEF TypeOK, Insert, Goto, redisVars
  <2>4. CASE Commit(s)
    <3>1. event[s] \in Event
      BY <2>4, <2>e DEF Commit, Goto, Resting
    <3> QED
      BY <3>1, <2>4, <1>t, BoundAssumption
         DEF TypeOK, Commit, Announce, Goto, redisVars
  <2>5. CASE DbError(s)
    <3>1. event[s] \in Event
      BY <2>5, <2>e DEF DbError, Goto, Resting
    <3> QED
      BY <3>1, <2>5, <1>t DEF TypeOK, DbError, Goto, redisVars
  <2>6. CASE Crash(s)
    BY <2>6, <1>t DEF TypeOK, Crash, redisVars
  <2> QED
    BY <1>s, <2>1, <2>2, <2>3, <2>4, <2>5, <2>6 DEF SaveStep
<1>p. ASSUME NEW s \in Sessions, PublishStep(s)
      PROVE  TypeOK'
  <2>e. event[s] \in Event
    BY <1>p, <1>t DEF SessionEvents, PublishStep, PublishOk, PublishFail,
       PublishLost, RetryOrGiveUp, LPush, LPushLost, LPushFail, LTrim,
       LTrimFail, Goto, Resting
  <2>1. ASSUME Fanout(s), pc[s] = "publish"
        PROVE  feed' \in Seq([id : Event, of : Event])
    <3>1. message[s] \in Event
      BY <2>1, <1>t DEF SessionEvents, TypeOK
    <3>2. [id |-> message[s], of |-> event[s]] \in [id : Event, of : Event]
      BY <3>1, <2>e
    <3> QED
      BY <3>2, <2>1, <1>t, AppendProperties DEF Fanout, TypeOK
  <2>2. ASSUME RetryOrGiveUp(s)
        PROVE  /\ pc' \in [Sessions -> {"idle", "select", "insert", "commit",
                            "publish", "lpush", "ltrim", "failed",
                            "integrity_error"}]
               /\ attempt' \in [Sessions -> 0..(retries - 1)]
    <3>1. CASE attempt[s] < retries - 1
      <4>1. attempt[s] + 1 \in 0..(retries - 1)
        BY <3>1, <1>t, BoundAssumption DEF TypeOK
      <4> QED
        BY <4>1, <3>1, <2>2, <1>t DEF TypeOK, RetryOrGiveUp
    <3>2. CASE ~(attempt[s] < retries - 1)
      BY <3>2, <2>2, <2>e, <1>t DEF TypeOK, RetryOrGiveUp
    <3> QED
      BY <3>1, <3>2
  <2>3. CASE PublishOk(s)
    <3>1. feed' \in Seq([id : Event, of : Event])
      BY <2>3, <2>1 DEF PublishOk, Goto
    <3> QED
      BY <3>1, <2>3, <1>t DEF TypeOK, PublishOk, Goto
  <2>4. CASE PublishFail(s)
    BY <2>4, <2>2, <1>t DEF TypeOK, PublishFail
  <2>5. CASE PublishLost(s)
    <3>1. feed' \in Seq([id : Event, of : Event])
      BY <2>5, <2>1 DEF PublishLost, RetryOrGiveUp
    <3> QED
      BY <3>1, <2>5, <2>2, <1>t DEF TypeOK, PublishLost
  <2>6. CASE LPush(s) \/ LPushLost(s)
    <3>1. dead_letter_queue' \in Seq(Event) /\ letters' \in Seq(Event)
      BY <2>6, <2>e, <1>t, Prepended DEF TypeOK, LPush, LPushLost, Push
    <3> QED
      BY <3>1, <2>6, <1>t DEF TypeOK, LPush, LPushLost, Goto
  <2>7. CASE LPushFail(s) \/ LTrimFail(s)
    BY <2>7, <1>t DEF TypeOK, LPushFail, LTrimFail, Goto, redisVars
  <2>8. CASE LTrim(s)
    <3>1. dead_letter_queue' \in Seq(Event)
      <4> DEFINE m == IF Len(dead_letter_queue) < DLQ_MAX
                      THEN Len(dead_letter_queue) ELSE DLQ_MAX
      <4>1. m \in Nat /\ m <= Len(dead_letter_queue)
        BY <1>t, BoundAssumption, LenProperties DEF TypeOK
      <4>2. \A i \in 1..m : dead_letter_queue[i] \in Event
        BY <4>1, <1>t, ElementOfSeq DEF TypeOK
      <4>3. dead_letter_queue' = SubSeq(dead_letter_queue, 1, m)
        BY <2>8 DEF LTrim
      <4> HIDE DEF m
      <4> QED
        BY <4>1, <4>2, <4>3, <1>t DEF TypeOK
    <3> QED
      BY <3>1, <2>8, <1>t DEF TypeOK, LTrim, Goto
  <2> QED
    BY <1>p, <2>3, <2>4, <2>5, <2>6, <2>7, <2>8 DEF PublishStep
<1> QED
  BY <1>u, <1>r, <1>s, <1>p DEF Next

(* The keys of stored rows stay unique: only Commit and a COMMIT whose     *)
(* reply is lost add a row, and that session is alone with its key.        *)
LEMMA StepUnique == DeliveryInv /\ [Next]_vars => UniqueRows'
<1> SUFFICES ASSUME DeliveryInv, [Next]_vars PROVE UniqueRows'
  OBVIOUS
<1>t. TypeOK /\ UniqueRows /\ AloneWithKey
  BY Parts
<1>1. ASSUME rows' = rows PROVE UniqueRows'
  BY <1>1, <1>t DEF UniqueRows
<1>2. ASSUME NEW s \in Sessions, pc[s] = "commit", rows' = rows \cup {event[s]}
      PROVE  UniqueRows'
  BY <1>2, <1>t DEF UniqueRows, AloneWithKey, WithKey
<1>3. CASE UNCHANGED vars
  BY <1>3, <1>1 DEF vars
<1>4. ASSUME NEW s \in Sessions, NEW k \in Keys \cup {NoKey}, Receive(s, k)
      PROVE  UniqueRows'
  BY <1>4, <1>1 DEF Receive
<1>5. ASSUME NEW s \in Sessions, SaveStep(s) \/ DbError(s) \/ Crash(s)
      PROVE  UniqueRows'
  BY <1>5, <1>1, <1>2 DEF SaveStep, SelectFound, SelectNone, Insert,
     InsertConflict, Commit, DbError, Crash, Goto
<1>6. ASSUME NEW s \in Sessions, PublishStep(s)
      PROVE  UniqueRows'
  BY <1>6, <1>1 DEF PublishStep, PublishOk, PublishFail, PublishLost, LPush,
     LPushLost, LPushFail, LTrim, LTrimFail
<1> QED
  BY <1>3, <1>4, <1>5, <1>6 DEF Next

(* What one session's step does to its own program counter and event, and  *)
(* that it leaves those of the others alone.                               *)
LEMMA StepSession == DeliveryInv /\ [Next]_vars => SessionEvents'
<1> SUFFICES ASSUME DeliveryInv, [Next]_vars PROVE SessionEvents'
  OBVIOUS
<1>t. TypeOK /\ SessionEvents
  BY Parts
<1>u. CASE UNCHANGED vars
  BY <1>u, <1>t DEF vars, SessionEvents
<1>r. ASSUME NEW s \in Sessions, NEW k \in Keys \cup {NoKey}, Receive(s, k)
      PROVE  SessionEvents'
  <2>1. [n |-> received + 1, key |-> k, by |-> s] \in Event
    BY <1>r, <1>t, BoundAssumption DEF TypeOK, Event, Receive
  <2> QED
    BY <2>1, <1>r, <1>t DEF TypeOK, SessionEvents, Receive, Goto,
       Resting
<1>s. ASSUME NEW s \in Sessions, SaveStep(s) \/ DbError(s) \/ Crash(s)
      PROVE  SessionEvents'
  <2>1. CASE SelectFound(s)
    BY <2>1, <1>t DEF TypeOK, SessionEvents, SelectFound, Announce, WithKey,
       Goto, Resting
  <2>2. CASE SelectNone(s) \/ InsertConflict(s) \/ Crash(s)
    BY <2>2, <1>t DEF TypeOK, SessionEvents, SelectNone, InsertConflict,
       Crash, Goto, Resting
  <2>3. CASE Insert(s)
    BY <2>3, <1>t DEF TypeOK, SessionEvents, Insert, Goto, Resting
  <2>4. CASE Commit(s)
    BY <2>4, <1>t DEF TypeOK, SessionEvents, Commit, Announce, Goto, Resting
  <2>5. CASE DbError(s)
    BY <2>5, <1>t DEF TypeOK, SessionEvents, DbError, Goto, Resting
  <2> QED
    BY <1>s, <2>1, <2>2, <2>3, <2>4, <2>5 DEF SaveStep
<1>p. ASSUME NEW s \in Sessions, PublishStep(s)
      PROVE  SessionEvents'
  <2>1. /\ UNCHANGED <<event, message, rows>>
        /\ pc[s] \in {"publish", "lpush", "ltrim"}
        /\ \E p \in {"idle", "publish", "lpush", "ltrim"} :
             pc' = [pc EXCEPT ![s] = p]
    <3>1. CASE PublishFail(s) \/ PublishLost(s)
      BY <3>1, <1>t DEF PublishFail, PublishLost, RetryOrGiveUp,
         TypeOK
    <3>2. CASE PublishOk(s)
      BY <3>2 DEF PublishOk, Goto
    <3>3. CASE LPush(s) \/ LPushLost(s) \/ LPushFail(s)
      BY <3>3 DEF LPush, LPushLost, LPushFail, Goto
    <3>4. CASE LTrim(s) \/ LTrimFail(s)
      BY <3>4 DEF LTrim, LTrimFail, Goto
    <3> QED
      BY <1>p, <3>1, <3>2, <3>3, <3>4 DEF PublishStep
  <2> QED
    BY <2>1, <1>t DEF TypeOK, SessionEvents, Resting
<1> QED
  BY <1>u, <1>r, <1>s, <1>p DEF Next

(* A session about to commit a key stays alone with it: an INSERT of the   *)
(* same key waits, and a commit of another session has another key.        *)
LEMMA StepAlone == DeliveryInv /\ [Next]_vars => AloneWithKey'
<1> SUFFICES ASSUME DeliveryInv, [Next]_vars PROVE AloneWithKey'
  OBVIOUS
<1>t. TypeOK /\ AloneWithKey
  BY Parts
<1>1. ASSUME NEW s \in Sessions, NEW p, p # "commit",
             pc' = [pc EXCEPT ![s] = p], rows' = rows,
             \A t \in Sessions : t # s => event'[t] = event[t]
      PROVE  AloneWithKey'
  BY <1>1, <1>t DEF TypeOK, AloneWithKey, WithKey
<1>2. CASE UNCHANGED vars
  BY <1>2, <1>t DEF vars, AloneWithKey, WithKey
<1>3. ASSUME NEW s \in Sessions, NEW k \in Keys \cup {NoKey}, Receive(s, k)
      PROVE  AloneWithKey'
  <2>1. \A t \in Sessions : t # s => event'[t] = event[t]
    BY <1>3, <1>t DEF Receive, TypeOK
  <2> QED
    BY <2>1, <1>3, <1>1 DEF Receive, Goto
<1>4. ASSUME NEW s \in Sessions, Insert(s)
      PROVE  AloneWithKey'
  BY <1>4, <1>t DEF TypeOK, AloneWithKey, WithKey, Insert, Goto
<1>5. ASSUME NEW s \in Sessions, pc[s] = "commit", NEW p, p # "commit",
             pc' = [pc EXCEPT ![s] = p], event' = event,
             rows' = rows \cup {event[s]}
      PROVE  AloneWithKey'
  BY <1>5, <1>t DEF TypeOK, AloneWithKey, WithKey
<1>6. ASSUME NEW s \in Sessions, SaveStep(s) \/ DbError(s) \/ Crash(s)
      PROVE  AloneWithKey'
  <2>1. CASE SelectFound(s) \/ SelectNone(s) \/ InsertConflict(s) \/ Crash(s)
    BY <2>1, <1>1 DEF SelectFound, SelectNone, InsertConflict, Crash, Goto
  <2>2. CASE Commit(s)
    BY <2>2, <1>5 DEF Commit, Goto
  <2>3. CASE DbError(s)
    BY <2>3, <1>1, <1>5 DEF DbError, Goto
  <2> QED
    BY <1>6, <1>4, <2>1, <2>2, <2>3 DEF SaveStep
<1>7. ASSUME NEW s \in Sessions, PublishStep(s)
      PROVE  AloneWithKey'
  <2>1. CASE PublishFail(s) \/ PublishLost(s)
    <3>1. CASE UNCHANGED pc
      BY <3>1, <2>1, <1>t DEF PublishFail, PublishLost, AloneWithKey,
         WithKey
    <3>2. CASE pc' = [pc EXCEPT ![s] = "lpush"]
      BY <3>2, <2>1, <1>1 DEF PublishFail, PublishLost
    <3> QED
      BY <3>1, <3>2, <2>1 DEF PublishFail, PublishLost, RetryOrGiveUp
  <2>2. CASE PublishOk(s) \/ LPushFail(s) \/ LTrim(s) \/ LTrimFail(s)
    BY <2>2, <1>1 DEF PublishOk, LPushFail, LTrim, LTrimFail, Goto
  <2>3. CASE LPush(s) \/ LPushLost(s)
    BY <2>3, <1>1 DEF LPush, LPushLost, Goto
  <2> QED
    BY <1>7, <2>1, <2>2, <2>3 DEF PublishStep
<1> QED
  BY <1>2, <1>3, <1>6, <1>7 DEF Next

(* Rows are never taken back, and what is appended to the feed names one.  *)
LEMMA StepFeed == DeliveryInv /\ [Next]_vars => FeedStored'
<1> SUFFICES ASSUME DeliveryInv, [Next]_vars PROVE FeedStored'
  OBVIOUS
<1>t. TypeOK /\ SessionEvents /\ FeedStored
  BY Parts
<1>1. ASSUME feed' = feed, rows \subseteq rows' PROVE FeedStored'
  BY <1>1, <1>t DEF FeedStored
<1>2. ASSUME NEW s \in Sessions, pc[s] = "publish", Fanout(s), rows' = rows
      PROVE  FeedStored'
  <2> DEFINE new == [id |-> message[s], of |-> event[s]]
  <2>1. new.id \in rows /\ new.id.key = new.of.key
    BY <1>2, <1>t DEF SessionEvents
  <2>0. new \in [id : Event, of : Event]
    BY <1>2, <1>t DEF SessionEvents, TypeOK, Resting
  <2>2. feed' = Append(feed, new)
    BY <1>2 DEF Fanout
  <2>3. \A i \in 1..Len(feed') :
          \/ i \in 1..Len(feed) /\ feed'[i] = feed[i]
          \/ feed'[i] = new
    <3> HIDE DEF new
    <3>1. feed \in Seq([id : Event, of : Event])
      BY <1>t DEF TypeOK
    <3>2. /\ Len(feed') = Len(feed) + 1
          /\ \A i \in 1..Len(feed) : feed'[i] = feed[i]
          /\ feed'[Len(feed) + 1] = new
      BY <2>0, <2>2, <3>1, AppendProperties
    <3>3. Len(feed) \in Nat
      BY <3>1, LenProperties
    <3> QED
      BY <3>2, <3>3
  <2> QED
    BY <2>1, <2>3, <1>2, <1>t DEF FeedStored
<1>3. CASE UNCHANGED vars
  BY <1>3, <1>1 DEF vars
<1>4. ASSUME NEW s \in Sessions, NEW k \in Keys \cup {NoKey}, Receive(s, k)
      PROVE  FeedStored'
  BY <1>4, <1>1 DEF Receive, redisVars
<1>5. ASSUME NEW s \in Sessions, SaveStep(s) \/ DbError(s) \/ Crash(s)
      PROVE  FeedStored'
  BY <1>5, <1>1 DEF SaveStep, SelectFound, SelectNone, Insert,
     InsertConflict, Commit, DbError, Crash, redisVars
<1>6. ASSUME NEW s \in Sessions, PublishStep(s)
      PROVE  FeedStored'
  <2>1. CASE PublishOk(s) \/ PublishLost(s)
    BY <2>1, <1>2 DEF PublishOk, PublishLost, RetryOrGiveUp, Goto
  <2>2. CASE \/ PublishFail(s) \/ LPush(s) \/ LPushLost(s) \/ LPushFail(s)
             \/ LTrim(s) \/ LTrimFail(s)
    BY <2>2, <1>1 DEF PublishFail, LPush, LPushLost, LPushFail, LTrim,
       LTrimFail, redisVars
  <2> QED
    BY <1>6, <2>1, <2>2 DEF PublishStep
<1> QED
  BY <1>3, <1>4, <1>5, <1>6 DEF Next

(* DeliveryInv holds in every reachable state: keys stay unique under      *)
(* racing sessions, lost COMMIT replies and crashes.                       *)
THEOREM DeliveryInvariance == Spec => []DeliveryInv
<1>1. DeliveryInv /\ [Next]_vars => DeliveryInv'
  BY Parts, StepType, StepUnique, StepSession, StepAlone, StepFeed
     DEF DeliveryInv, UniqueRows, SessionEvents, AloneWithKey, FeedStored
<1> QED
  BY <1>1, InitInv, PTL DEF Spec

(* _handle_message never broadcasts a message that the history lacks.      *)
THEOREM AnnouncedStored == Spec => []AnnouncedIsStored
<1>1. DeliveryInv => AnnouncedIsStored
  BY DEF DeliveryInv, AnnouncedIsStored
<1> QED
  BY <1>1, DeliveryInvariance, PTL

(* save_message gives every event with one key one message id.             *)
THEOREM SingleId == Spec => []OneIdPerKey
<1>1. DeliveryInv => OneIdPerKey
  BY Parts DEF UniqueRows, FeedStored, OneIdPerKey
<1> QED
  BY <1>1, DeliveryInvariance, PTL

(* In every reachable state the variables have their types: attempts are   *)
(* counted below retries, and what is announced and queued are events.     *)
THEOREM DeliveryTypes == Spec => []TypeOK
<1>1. DeliveryInv => TypeOK
  BY DEF DeliveryInv
<1> QED
  BY <1>1, DeliveryInvariance, PTL

-----------------------------------------------------------------------------
(* The dead letter queue.                                                  *)

(* A prefix of a sequence of events.                                       *)
LEMMA Prefix ==
  ASSUME NEW q \in Seq(Event), NEW m \in 0..Len(q)
  PROVE  /\ SubSeq(q, 1, m) \in Seq(Event)
         /\ Len(SubSeq(q, 1, m)) = m
         /\ \A i \in 1..m : SubSeq(q, 1, m)[i] = q[i]
<1>1. Len(q) \in Nat /\ m \in Int /\ 1 \in Int
  BY LenProperties
<1>2. \A i \in 1..m : q[i] \in Event
  BY <1>1, ElementOfSeq
<1>3. /\ SubSeq(q, 1, m) \in Seq(Event)
      /\ Len(SubSeq(q, 1, m)) = IF 1 <= m THEN m - 1 + 1 ELSE 0
      /\ \A i \in 1..(m - 1 + 1) : SubSeq(q, 1, m)[i] = q[1 + i - 1]
  BY <1>1, <1>2, SubSeqProperties
<1> QED
  BY <1>1, <1>3

(* LPUSH of a letter makes a run of the newest one longer.                 *)
LEMMA PushedPrefix ==
  ASSUME NEW q \in Seq(Event), NEW e \in Event, NEW m \in 0..Len(q)
  PROVE  /\ <<e>> \o SubSeq(q, 1, m) = SubSeq(<<e>> \o q, 1, m + 1)
         /\ Len(<<e>> \o q) = Len(q) + 1
<1> DEFINE p == SubSeq(q, 1, m)
<1> DEFINE long == <<e>> \o q
<1> DEFINE left == <<e>> \o p
<1> DEFINE right == SubSeq(long, 1, m + 1)
<1>0. Len(q) \in Nat
  BY LenProperties
<1>1. p \in Seq(Event) /\ Len(p) = m /\ \A i \in 1..m : p[i] = q[i]
  BY Prefix
<1>e. <<e>> \in Seq(Event) /\ Len(<<e>>) = 1 /\ <<e>>[1] = e
  OBVIOUS
<1>2. /\ long \in Seq(Event) /\ Len(long) = 1 + Len(q)
      /\ \A i \in 1..(1 + Len(q)) :
           long[i] = IF i <= 1 THEN <<e>>[i] ELSE q[i - 1]
  BY <1>e, ConcatProperties
<1>3. /\ left \in Seq(Event) /\ Len(left) = 1 + m
      /\ \A i \in 1..(1 + m) :
           left[i] = IF i <= 1 THEN <<e>>[i] ELSE p[i - 1]
  <2> HIDE DEF p
  <2>1. /\ left \in Seq(Event) /\ Len(left) = Len(<<e>>) + Len(p)
        /\ \A i \in 1..(Len(<<e>>) + Len(p)) :
             left[i] = IF i <= Len(<<e>>) THEN <<e>>[i] ELSE p[i - Len(<<e>>)]
    BY <1>1, <1>e, ConcatProperties
  <2> QED
    BY <2>1, <1>1, <1>e
<1>4. m + 1 \in 0..Len(long)
  BY <1>0, <1>2
<1>5. /\ right \in Seq(Event) /\ Len(right) = m + 1
      /\ \A i \in 1..(m + 1) : right[i] = long[i]
  <2> HIDE DEF long
  <2> QED
    BY <1>2, <1>4, Prefix
<1>6. \A i \in 1..(m + 1) : left[i] = right[i]
  <2> SUFFICES ASSUME NEW i \in 1..(m + 1) PROVE left[i] = right[i]
    OBVIOUS
  <2> HIDE DEF left, right, long, p
  <2>1. CASE i = 1
    BY <2>1, <1>0, <1>2, <1>3, <1>5
  <2>2. CASE i # 1
    <3>1. i - 1 \in 1..m /\ i \in 1..(1 + Len(q)) /\ i \in 1..(1 + m) /\ ~(i <= 1)
      BY <2>2, <1>0
    <3> QED
      BY <3>1, <1>1, <1>2, <1>3, <1>5
  <2> QED
    BY <2>1, <2>2
<1>7. left = right
  <2> HIDE DEF left, right
  <2> QED
    BY <1>3, <1>5, <1>6, SeqEqual
<1> QED
  BY <1>0, <1>2, <1>7

(* LTRIM of a run of the newest letters leaves one.                        *)
LEMMA TrimmedPrefix ==
  ASSUME NEW q \in Seq(Event), NEW m \in 0..Len(q), NEW k \in 0..m
  PROVE  SubSeq(SubSeq(q, 1, m), 1, k) = SubSeq(q, 1, k)
<1> DEFINE p == SubSeq(q, 1, m)
<1>0. Len(q) \in Nat /\ k \in 0..Len(q)
  BY LenProperties
<1>1. p \in Seq(Event) /\ Len(p) = m /\ \A i \in 1..m : p[i] = q[i]
  BY Prefix
<1> HIDE DEF p
<1>2. /\ SubSeq(p, 1, k) \in Seq(Event) /\ Len(SubSeq(p, 1, k)) = k
      /\ \A i \in 1..k : SubSeq(p, 1, k)[i] = p[i]
  BY <1>1, Prefix
<1>3. /\ SubSeq(q, 1, k) \in Seq(Event) /\ Len(SubSeq(q, 1, k)) = k
      /\ \A i \in 1..k : SubSeq(q, 1, k)[i] = q[i]
  BY <1>0, Prefix
<1>4. \A i \in 1..k : i \in 1..m
  OBVIOUS
<1>5. SubSeq(p, 1, k) = SubSeq(q, 1, k)
  BY <1>1, <1>2, <1>3, <1>4, SeqEqual
<1> QED
  BY <1>5 DEF p

(* The dead letter queue keeps the newest letters, whatever pushes and     *)
(* trims of publish_dead_letter interleave, fail or lose their replies.    *)
THEOREM LettersKept == Spec => []NewestLettersKept
<1>1. Init => NewestLettersKept
  <2> SUFFICES ASSUME Init PROVE NewestLettersKept
    OBVIOUS
  <2>1. Len(letters) = 0 /\ letters \in Seq(Event) /\ dead_letter_queue = letters
    BY DEF Init
  <2>2. SubSeq(letters, 1, 0) = << >>
    BY SubSeqEmpty
  <2> QED
    BY <2>1, <2>2 DEF Init, NewestLettersKept
<1>2. DeliveryInv /\ NewestLettersKept /\ [Next]_vars => NewestLettersKept'
  <2> SUFFICES ASSUME DeliveryInv, NewestLettersKept, [Next]_vars
               PROVE  NewestLettersKept'
    OBVIOUS
  <2>t. TypeOK /\ SessionEvents
    BY Parts
  <2>m. PICK m \in 0..Len(letters) :
          /\ dead_letter_queue = SubSeq(letters, 1, m)
          /\ m = Len(letters) \/ m >= DLQ_MAX
    BY DEF NewestLettersKept
  <2>l. letters \in Seq(Event) /\ Len(letters) \in Nat /\ DLQ_MAX \in Nat
    BY <2>t, LenProperties, BoundAssumption DEF TypeOK
  <2>1. ASSUME UNCHANGED <<dead_letter_queue, letters>>
        PROVE  NewestLettersKept'
    BY <2>1, <2>m DEF NewestLettersKept
  <2>2. ASSUME NEW s \in Sessions, LPush(s) \/ LPushLost(s)
        PROVE  NewestLettersKept'
    <3>1. event[s] \in Event
      BY <2>2, <2>t DEF SessionEvents, LPush, LPushLost, Goto, Resting
    <3>2. /\ dead_letter_queue' = <<event[s]>> \o dead_letter_queue
          /\ letters' = <<event[s]>> \o letters
      BY <2>2 DEF LPush, LPushLost, Push
    <3>3. /\ dead_letter_queue' = SubSeq(letters', 1, m + 1)
          /\ Len(letters') = Len(letters) + 1
      BY <3>1, <3>2, <2>m, <2>l, PushedPrefix
    <3>4. m + 1 \in 0..Len(letters')
      BY <3>3, <2>l
    <3>5. m + 1 = Len(letters') \/ m + 1 >= DLQ_MAX
      BY <3>3, <2>m, <2>l
    <3> QED
      BY <3>3, <3>4, <3>5 DEF NewestLettersKept
  <2>3. ASSUME NEW s \in Sessions, LTrim(s)
        PROVE  NewestLettersKept'
    <3> DEFINE k == IF m < DLQ_MAX THEN m ELSE DLQ_MAX
    <3>1. Len(dead_letter_queue) = m
      BY <2>m, <2>l, Prefix
    <3>2. k \in 0..m /\ k \in 0..Len(letters)
      BY <2>l
    <3>3. dead_letter_queue' = SubSeq(dead_letter_queue, 1, k) /\ letters' = letters
      BY <2>3, <3>1 DEF LTrim
    <3>4. k = Len(letters) \/ k >= DLQ_MAX
      BY <2>m, <2>l
    <3> HIDE DEF k
    <3>5. dead_letter_queue' = SubSeq(letters', 1, k)
      BY <3>2, <3>3, <2>m, <2>l, TrimmedPrefix
    <3> QED
      BY <3>2, <3>3, <3>4, <3>5 DEF NewestLettersKept
  <2>4. \/ UNCHANGED <<dead_letter_queue, letters>>
        \/ \E s \in Sessions : LPush(s) \/ LPushLost(s) \/ LTrim(s)
    BY DEF Next, vars, Receive, SaveStep, SelectFound, SelectNone, Insert,
       InsertConflict, Commit, DbError, Crash, PublishStep, PublishOk,
       PublishFail, PublishLost, LPushFail, LTrimFail, redisVars
  <2> QED
    BY <2>1, <2>2, <2>3, <2>4
<1> QED
  BY <1>1, <1>2, DeliveryInvariance, PTL DEF Spec

-----------------------------------------------------------------------------
(* Copies of an event.                                                     *)

Copies(f, e) == {i \in 1..Len(f) : f[i].of = e}

(* Events in hand differ from each other; none is newer than the counter.  *)
OwnEvents ==
  /\ \A s \in Sessions : pc[s] \notin Resting =>
       /\ event[s].n <= received
       /\ \A t \in Sessions \ {s} : pc[t] \notin Resting => event[t] # event[s]
  /\ \A i \in 1..Len(feed) : feed[i].of.n <= received

(* What the attempts of a session say of the copies of its event.          *)
CopyCount ==
  /\ \A e \in Event : Cardinality(Copies(feed, e)) <= retries
  /\ \A s \in Sessions :
       /\ pc[s] \in {"select", "insert", "commit"} => Copies(feed, event[s]) = {}
       /\ pc[s] = "publish" => Cardinality(Copies(feed, event[s])) <= attempt[s]

(* The copies of an event are finitely many.                               *)
LEMMA CopiesFinite ==
  ASSUME TypeOK, NEW e
  PROVE  IsFiniteSet(Copies(feed, e)) /\ Cardinality(Copies(feed, e)) \in Nat
<1>1. Len(feed) \in Nat
  BY LenProperties DEF TypeOK
<1>2. IsFiniteSet(1..Len(feed))
  BY <1>1, FS_Interval
<1>3. Copies(feed, e) \in SUBSET (1..Len(feed))
  BY DEF Copies
<1>4. IsFiniteSet(Copies(feed, e))
  BY <1>2, <1>3, FS_Subset
<1> QED
  BY <1>4, FS_CardinalityType

(* A PUBLISH that takes effect adds one copy of the session's event and    *)
(* none of any other.                                                      *)
LEMMA FanoutCounts ==
  ASSUME TypeOK, NEW s \in Sessions, Fanout(s),
         message[s] \in Event, event[s] \in Event
  PROVE  /\ Cardinality(Copies(feed', event[s]))
              = Cardinality(Copies(feed, event[s])) + 1
         /\ \A e : e # event[s] => Copies(feed', e) = Copies(feed, e)
         /\ \A i \in 1..Len(feed') :
              \/ i \in 1..Len(feed) /\ feed'[i] = feed[i]
              \/ feed'[i].of = event[s]
<1> DEFINE new == [id |-> message[s], of |-> event[s]]
<1>1. feed \in Seq([id : Event, of : Event]) /\ new \in [id : Event, of : Event]
  BY DEF TypeOK
<1>2. feed' = Append(feed, new) /\ new.of = event[s]
  BY DEF Fanout
<1> HIDE DEF new
<1>3. Len(feed) \in Nat
  BY <1>1, LenProperties
<1>4. /\ Len(feed') = Len(feed) + 1
      /\ \A i \in 1..Len(feed) : feed'[i] = feed[i]
      /\ feed'[Len(feed) + 1] = new
  BY <1>1, <1>2, AppendProperties
<1>5. /\ Copies(feed', event[s]) = Copies(feed, event[s]) \cup {Len(feed) + 1}
      /\ Len(feed) + 1 \notin Copies(feed, event[s])
  BY <1>2, <1>3, <1>4 DEF Copies
<1>6. \A e : e # event[s] => Copies(feed', e) = Copies(feed, e)
  BY <1>2, <1>3, <1>4 DEF Copies
<1>7. \A i \in 1..Len(feed') :
        \/ i \in 1..Len(feed) /\ feed'[i] = feed[i]
        \/ feed'[i].of = event[s]
  BY <1>2, <1>3, <1>4
<1>8. IsFiniteSet(Copies(feed, event[s]))
  BY CopiesFinite
<1>9. Cardinality(Copies(feed', event[s])) = Cardinality(Copies(feed, event[s])) + 1
  BY <1>5, <1>8, FS_AddElement
<1> QED
  BY <1>6, <1>7, <1>9

(* What a step does to the feed.                                           *)
LEMMA FeedSteps ==
  ASSUME [Next]_vars
  PROVE  \/ UNCHANGED feed
         \/ \E s \in Sessions : PublishOk(s) \/ PublishLost(s)
BY DEF Next, vars, Receive, SaveStep, SelectFound, SelectNone, Insert,
   InsertConflict, Commit, DbError, Crash, PublishStep, PublishFail, LPush,
   LPushLost, LPushFail, LTrim, LTrimFail, redisVars

(* An event is numbered when it is received, and a session that is busy    *)
(* receives none.                                                          *)
LEMMA StepOwn == DeliveryInv /\ OwnEvents /\ [Next]_vars => OwnEvents'
<1> SUFFICES ASSUME DeliveryInv, OwnEvents, [Next]_vars PROVE OwnEvents'
  OBVIOUS
<1>t. TypeOK /\ SessionEvents
  BY Parts
<1>f. \A i \in 1..Len(feed') :
        \/ i \in 1..Len(feed) /\ feed'[i] = feed[i]
        \/ feed'[i].of.n <= received
  <2>1. CASE UNCHANGED feed
    BY <2>1
  <2>2. ASSUME NEW s \in Sessions, PublishOk(s) \/ PublishLost(s)
        PROVE  \A i \in 1..Len(feed') :
                 \/ i \in 1..Len(feed) /\ feed'[i] = feed[i]
                 \/ feed'[i].of.n <= received
    <3>1. Fanout(s) /\ pc[s] = "publish"
      BY <2>2 DEF PublishOk, PublishLost, RetryOrGiveUp, Goto
    <3>2. message[s] \in Event /\ event[s] \in Event /\ event[s].n <= received
      BY <3>1, <1>t DEF SessionEvents, OwnEvents, TypeOK, Resting
    <3> QED
      BY <3>1, <3>2, <1>t, FanoutCounts
  <2> QED
    BY <2>1, <2>2, FeedSteps
<1>1. ASSUME UNCHANGED <<event, received>>,
             \A t \in Sessions : pc'[t] \notin Resting => pc[t] \notin Resting
      PROVE  OwnEvents'
  BY <1>1, <1>f DEF OwnEvents
<1>2. CASE UNCHANGED vars
  BY <1>2, <1>1 DEF vars
<1>3. ASSUME NEW s \in Sessions, NEW k \in Keys \cup {NoKey}, Receive(s, k)
      PROVE  OwnEvents'
  <2>1. /\ received' = received + 1 /\ received \in Nat
        /\ event' = [event EXCEPT ![s] = [n |-> received + 1, key |-> k, by |-> s]]
        /\ \A t \in Sessions \ {s} : pc'[t] = pc[t] /\ event'[t] = event[t]
        /\ UNCHANGED feed
    BY <1>3, <1>t DEF Receive, Goto, TypeOK, redisVars
  <2>2. event'[s].n = received + 1
    BY <2>1, <1>t DEF TypeOK
  <2>3. \A t \in Sessions \ {s} : pc[t] \notin Resting =>
          event[t].n \in Nat /\ event[t].n <= received
    BY <1>t DEF SessionEvents, OwnEvents, Event
  <2>4. \A i \in 1..Len(feed) : feed[i].of.n \in Nat /\ feed[i].of.n <= received
    <3>1. \A i \in 1..Len(feed) : feed[i] \in [id : Event, of : Event]
      BY <1>t, ElementOfSeq DEF TypeOK
    <3> QED
      BY <3>1 DEF OwnEvents, Event
  <2> QED
    BY <2>1, <2>2, <2>3, <2>4 DEF OwnEvents
<1>4. ASSUME NEW s \in Sessions, SaveStep(s) \/ DbError(s) \/ Crash(s)
      PROVE  OwnEvents'
  BY <1>4, <1>1, <1>t DEF TypeOK, SaveStep, SelectFound, SelectNone, Insert,
     InsertConflict, Commit, DbError, Crash, Goto, Resting
<1>5. ASSUME NEW s \in Sessions, PublishStep(s)
      PROVE  OwnEvents'
  <2>1. CASE PublishOk(s) \/ PublishFail(s) \/ PublishLost(s)
    BY <2>1, <1>1, <1>t DEF TypeOK, PublishOk, PublishFail, PublishLost,
       RetryOrGiveUp, Goto, Resting
  <2>2. CASE LPush(s) \/ LPushLost(s) \/ LPushFail(s) \/ LTrim(s) \/ LTrimFail(s)
    BY <2>2, <1>1, <1>t DEF TypeOK, LPush, LPushLost, LPushFail, LTrim,
       LTrimFail, Goto, Resting
  <2> QED
    BY <1>5, <2>1, <2>2 DEF PublishStep
<1> QED
  BY <1>2, <1>3, <1>4, <1>5 DEF Next

(* The attempts that raised bound the copies that a session has made.      *)
LEMMA StepCount == DeliveryInv /\ OwnEvents /\ CopyCount /\ [Next]_vars => CopyCount'
<1> SUFFICES ASSUME DeliveryInv, OwnEvents, CopyCount, [Next]_vars
             PROVE  CopyCount'
  OBVIOUS
<1>t. TypeOK /\ SessionEvents
  BY Parts
<1>r. retries \in Nat
  BY BoundAssumption
(* The session's own claim, when the feed does not change.                 *)
<1>1. ASSUME NEW s \in Sessions, UNCHANGED feed,
             \A t \in Sessions \ {s} :
               pc'[t] = pc[t] /\ event'[t] = event[t] /\ attempt'[t] = attempt[t],
             pc'[s] \in {"select", "insert", "commit"} =>
               Copies(feed, event'[s]) = {},
             pc'[s] = "publish" =>
               Cardinality(Copies(feed, event'[s])) <= attempt'[s]
      PROVE  CopyCount'
  BY <1>1 DEF CopyCount
<1>2. CASE UNCHANGED vars
  BY <1>2 DEF CopyCount, vars
<1>3. ASSUME NEW s \in Sessions, NEW k \in Keys \cup {NoKey}, Receive(s, k)
      PROVE  CopyCount'
  <2>1. /\ UNCHANGED feed /\ event'[s].n = received + 1 /\ received \in Nat
        /\ pc'[s] \in {"select", "insert"}
        /\ \A t \in Sessions \ {s} :
             pc'[t] = pc[t] /\ event'[t] = event[t] /\ attempt'[t] = attempt[t]
    BY <1>3, <1>t DEF Receive, Goto, TypeOK, redisVars
  <2>2. \A i \in 1..Len(feed) : feed[i].of.n \in Nat /\ feed[i].of.n <= received
    <3>1. \A i \in 1..Len(feed) : feed[i] \in [id : Event, of : Event]
      BY <1>t, ElementOfSeq DEF TypeOK
    <3> QED
      BY <3>1 DEF OwnEvents, Event
  <2>3. Copies(feed, event'[s]) = {}
    BY <2>1, <2>2 DEF Copies
  <2> QED
    BY <2>1, <2>3, <1>1
<1>4. ASSUME NEW s \in Sessions, SaveStep(s) \/ DbError(s) \/ Crash(s)
      PROVE  CopyCount'
  <2>1. CASE SelectFound(s) \/ Commit(s)
    <3>1. /\ UNCHANGED <<feed, event>> /\ pc'[s] = "publish" /\ attempt'[s] = 0
          /\ pc[s] \in {"select", "commit"}
          /\ \A t \in Sessions \ {s} : pc'[t] = pc[t] /\ attempt'[t] = attempt[t]
      BY <2>1, <1>t DEF SelectFound, Commit, Announce, Goto, TypeOK, redisVars
    <3>2. Cardinality(Copies(feed, event[s])) = 0
      BY <3>1, FS_EmptySet DEF CopyCount
    <3> QED
      BY <3>1, <3>2, <1>1
  <2>2. CASE SelectNone(s) \/ Insert(s) \/ InsertConflict(s)
    BY <2>2, <1>1, <1>t DEF CopyCount, SelectNone, Insert, InsertConflict, Goto,
       TypeOK, redisVars
  <2>3. CASE DbError(s) \/ Crash(s)
    BY <2>3, <1>1, <1>t DEF DbError, Crash, Goto, TypeOK, redisVars
  <2> QED
    BY <1>4, <2>1, <2>2, <2>3 DEF SaveStep
<1>5. ASSUME NEW s \in Sessions, PublishStep(s)
      PROVE  CopyCount'
  <2>1. CASE LPush(s) \/ LPushLost(s) \/ LPushFail(s) \/ LTrim(s) \/ LTrimFail(s)
    <3>1. /\ UNCHANGED <<feed, event, attempt>> /\ pc'[s] \in {"idle", "ltrim"}
          /\ \A t \in Sessions \ {s} : pc'[t] = pc[t]
      BY <2>1, <1>t DEF LPush, LPushLost, LPushFail, LTrim, LTrimFail, Goto,
         TypeOK, redisVars
    <3> QED
      BY <3>1, <1>1
  <2>a. ASSUME RetryOrGiveUp(s)
        PROVE  /\ pc'[s] = "publish" => attempt'[s] = attempt[s] + 1
               /\ pc'[s] \in {"publish", "lpush"}
               /\ \A t \in Sessions \ {s} : pc'[t] = pc[t] /\ attempt'[t] = attempt[t]
    BY <2>a, <1>t DEF RetryOrGiveUp, TypeOK
  <2>b. attempt[s] \in Nat /\ attempt[s] + 1 <= retries
    BY <1>t, <1>r DEF TypeOK
  <2>2. CASE PublishFail(s)
    <3>1. /\ UNCHANGED <<feed, event>> /\ pc[s] = "publish" /\ RetryOrGiveUp(s)
      BY <2>2 DEF PublishFail, RetryOrGiveUp
    <3>2. Cardinality(Copies(feed, event[s])) <= attempt[s] + 1
      BY <3>1, <2>b, <1>t, CopiesFinite DEF CopyCount
    <3> QED
      BY <3>1, <3>2, <2>a, <1>1
  <2>3. CASE PublishOk(s) \/ PublishLost(s)
    <3>1. /\ Fanout(s) /\ pc[s] = "publish" /\ UNCHANGED event
          /\ pc'[s] = "publish" => attempt'[s] = attempt[s] + 1
          /\ pc'[s] \in {"publish", "lpush", "idle"}
          /\ \A t \in Sessions \ {s} : pc'[t] = pc[t] /\ attempt'[t] = attempt[t]
      <4>1. CASE PublishOk(s)
        BY <4>1, <1>t DEF PublishOk, Goto, TypeOK
      <4>2. CASE PublishLost(s)
        BY <4>2, <2>a DEF PublishLost, RetryOrGiveUp
      <4> QED
        BY <2>3, <4>1, <4>2
    <3>2. message[s] \in Event /\ event[s] \in Event
      BY <3>1, <1>t DEF SessionEvents, TypeOK, Resting
    <3>3. /\ Cardinality(Copies(feed', event[s]))
               = Cardinality(Copies(feed, event[s])) + 1
          /\ \A e : e # event[s] => Copies(feed', e) = Copies(feed, e)
      BY <3>1, <3>2, <1>t, FanoutCounts
    <3>4. Cardinality(Copies(feed', event[s])) <= attempt[s] + 1
      <4>1. Cardinality(Copies(feed, event[s])) <= attempt[s]
        BY <3>1 DEF CopyCount
      <4>2. Cardinality(Copies(feed, event[s])) \in Nat
        BY <1>t, CopiesFinite
      <4> QED
        BY <4>1, <4>2, <3>3, <2>b
    <3>5. \A e \in Event : Cardinality(Copies(feed', e)) <= retries
      <4> SUFFICES ASSUME NEW e \in Event
                   PROVE  Cardinality(Copies(feed', e)) <= retries
        OBVIOUS
      <4>1. CASE e # event[s]
        BY <4>1, <3>3 DEF CopyCount
      <4>2. CASE e = event[s]
        <5>1. Cardinality(Copies(feed, e)) \in Nat
          BY <1>t, CopiesFinite
        <5> QED
          BY <4>2, <5>1, <3>3, <3>4, <2>b, <1>r
      <4> QED
        BY <4>1, <4>2
    <3>6. \A t \in Sessions \ {s} : pc[t] \notin Resting =>
            Copies(feed', event[t]) = Copies(feed, event[t])
      BY <3>1, <3>3 DEF OwnEvents, Resting
    <3>7. ASSUME NEW t \in Sessions
          PROVE  /\ pc'[t] \in {"select", "insert", "commit"} =>
                      Copies(feed', event'[t]) = {}
                 /\ pc'[t] = "publish" =>
                      Cardinality(Copies(feed', event'[t])) <= attempt'[t]
      <4>1. CASE t = s
        BY <4>1, <3>1, <3>4
      <4>2. CASE t # s
        BY <4>2, <3>1, <3>6 DEF CopyCount, Resting
      <4> QED
        BY <4>1, <4>2
    <3> QED
      BY <3>5, <3>7 DEF CopyCount
  <2> QED
    BY <1>5, <2>1, <2>2, <2>3 DEF PublishStep
<1> QED
  BY <1>2, <1>3, <1>4, <1>5 DEF Next

(* publish broadcasts one event at most `retries` times, however many of   *)
(* its attempts take effect and lose their replies.                        *)
THEOREM CopiesBounded == Spec => []BoundedCopies
<1> DEFINE CopyInv == DeliveryInv /\ OwnEvents /\ CopyCount
<1>1. Init => CopyInv
  <2> SUFFICES ASSUME Init PROVE CopyInv
    OBVIOUS
  <2>1. Len(feed) = 0 /\ \A s \in Sessions : pc[s] = "idle"
    BY DEF Init
  <2>2. \A e : Copies(feed, e) = {}
    BY <2>1 DEF Copies
  <2>3. CopyCount
    BY <2>1, <2>2, FS_EmptySet, BoundAssumption DEF CopyCount
  <2>4. OwnEvents
    BY <2>1 DEF OwnEvents, Resting
  <2> QED
    BY <2>3, <2>4, InitInv
<1>2. CopyInv /\ [Next]_vars => CopyInv'
  <2>1. DeliveryInv /\ [Next]_vars => DeliveryInv'
    BY Parts, StepType, StepUnique, StepSession, StepAlone, StepFeed
       DEF DeliveryInv, UniqueRows, SessionEvents, AloneWithKey, FeedStored
  <2> QED
    BY <2>1, StepOwn, StepCount
<1>3. CopyInv => BoundedCopies
  <2> SUFFICES ASSUME CopyInv, NEW i \in 1..Len(feed)
               PROVE  Cardinality(Copies(feed, feed[i].of)) <= retries
    BY DEF BoundedCopies, Copies
  <2>1. feed[i] \in [id : Event, of : Event]
    BY ElementOfSeq DEF DeliveryInv, TypeOK
  <2> QED
    BY <2>1 DEF CopyCount
<1> QED
  BY <1>1, <1>2, <1>3, PTL DEF Spec

-----------------------------------------------------------------------------
(* Order.                                                                  *)

(* A session that is busy goes on with its event, and one that receives an *)
(* event takes one newer than all before it.                               *)
LEMMA EventSteps ==
  ASSUME DeliveryInv, [Next]_vars
  PROVE  \/ /\ UNCHANGED event
            /\ \A s \in Sessions : pc'[s] \notin Resting => pc[s] \notin Resting
         \/ \E s \in Sessions, k \in Keys \cup {NoKey} : Receive(s, k)
<1>t. TypeOK
  BY DEF DeliveryInv
<1>1. ASSUME NEW s \in Sessions, SaveStep(s) \/ DbError(s) \/ Crash(s)
      PROVE  /\ UNCHANGED event
             /\ \A t \in Sessions : pc'[t] \notin Resting => pc[t] \notin Resting
  BY <1>1, <1>t DEF TypeOK, SaveStep, SelectFound, SelectNone, Insert,
     InsertConflict, Commit, DbError, Crash, Goto, Resting
<1>2. ASSUME NEW s \in Sessions, PublishStep(s)
      PROVE  /\ UNCHANGED event
             /\ \A t \in Sessions : pc'[t] \notin Resting => pc[t] \notin Resting
  <2>1. CASE PublishOk(s) \/ PublishFail(s) \/ PublishLost(s)
    BY <2>1, <1>t DEF TypeOK, PublishOk, PublishFail, PublishLost,
       RetryOrGiveUp, Goto, Resting
  <2>2. CASE LPush(s) \/ LPushLost(s) \/ LPushFail(s) \/ LTrim(s) \/ LTrimFail(s)
    BY <2>2, <1>t DEF TypeOK, LPush, LPushLost, LPushFail, LTrim, LTrimFail,
       Goto, Resting
  <2> QED
    BY <1>2, <2>1, <2>2 DEF PublishStep
<1>3. CASE UNCHANGED vars
  BY <1>3 DEF vars
<1> QED
  BY <1>1, <1>2, <1>3 DEF Next

(* What a PUBLISH that takes effect appends is the event in hand, which is *)
(* not older than anything the subscribers have from the session.          *)
LEMMA FanoutInOrder ==
  ASSUME DeliveryInv, SenderInv, NEW s \in Sessions,
         pc[s] = "publish", Fanout(s)
  PROVE  /\ SenderOrder'
         /\ \A i \in 1..Len(feed') :
              \/ i \in 1..Len(feed) /\ feed'[i] = feed[i]
              \/ feed'[i].of = event[s]
<1>t. TypeOK /\ SessionEvents
  BY Parts
<1>1. message[s] \in Event /\ event[s] \in Event
  BY <1>t DEF SessionEvents, TypeOK, Resting
<1>2. event[s].by = s /\ event[s].n \in Nat
  BY <1>1, BoundAssumption DEF SenderInv, Resting, Event
<1> DEFINE new == [id |-> message[s], of |-> event[s]]
<1>3. feed \in Seq([id : Event, of : Event]) /\ new \in [id : Event, of : Event]
  BY <1>1, <1>t DEF TypeOK
<1>4. feed' = Append(feed, new) /\ new.of = event[s]
  BY DEF Fanout
<1> HIDE DEF new
<1>5. Len(feed) \in Nat
  BY <1>3, LenProperties
<1>6. /\ Len(feed') = Len(feed) + 1
      /\ \A i \in 1..Len(feed) : feed'[i] = feed[i]
      /\ feed'[Len(feed) + 1] = new
  BY <1>3, <1>4, AppendProperties
<1>7. \A i \in 1..Len(feed) : feed[i].of.by = s => feed[i].of.n <= event[s].n
  BY DEF SenderInv, Resting
<1>8. ASSUME NEW i \in 1..Len(feed'), NEW j \in 1..Len(feed'), i < j,
             feed'[i].of.by = feed'[j].of.by
      PROVE  feed'[i].of.n <= feed'[j].of.n
  <2>1. i \in 1..Len(feed)
    BY <1>5, <1>6, <1>8
  <2>2. CASE j \in 1..Len(feed)
    BY <1>6, <1>8, <2>1, <2>2 DEF SenderInv, SenderOrder
  <2>3. CASE j = Len(feed) + 1
    BY <1>2, <1>4, <1>6, <1>7, <1>8, <2>1, <2>3
  <2> QED
    BY <1>5, <1>6, <2>2, <2>3
<1>9. SenderOrder'
  BY <1>8 DEF SenderOrder
<1> QED
  BY <1>4, <1>5, <1>6, <1>9

(* SenderInv is inductive, given that events are numbered as they come.    *)
LEMMA StepSender ==
  DeliveryInv /\ OwnEvents /\ SenderInv /\ [Next]_vars => SenderInv'
<1> SUFFICES ASSUME DeliveryInv, OwnEvents, SenderInv, [Next]_vars
             PROVE  SenderInv'
  OBVIOUS
<1>t. TypeOK /\ SessionEvents
  BY Parts
<1>1. ASSUME NEW s \in Sessions, NEW k \in Keys \cup {NoKey}, Receive(s, k)
      PROVE  SenderInv'
  <2>1. /\ event'[s].n = received + 1 /\ event'[s].by = s
        /\ \A t \in Sessions \ {s} : pc'[t] = pc[t] /\ event'[t] = event[t]
        /\ UNCHANGED feed /\ received \in Nat
    BY <1>1, <1>t DEF Receive, Goto, TypeOK, redisVars
  <2>2. \A i \in 1..Len(feed) : feed[i].of.n \in Nat /\ feed[i].of.n <= received
    <3>1. \A i \in 1..Len(feed) : feed[i] \in [id : Event, of : Event]
      BY <1>t, ElementOfSeq DEF TypeOK
    <3> QED
      BY <3>1, BoundAssumption DEF OwnEvents, Event
  <2>3. \A i \in 1..Len(feed) : feed[i].of.n <= event'[s].n
    BY <2>1, <2>2
  <2> QED
    BY <2>1, <2>3 DEF SenderInv, SenderOrder
<1>2. ASSUME UNCHANGED event,
             \A s \in Sessions : pc'[s] \notin Resting => pc[s] \notin Resting
      PROVE  SenderInv'
  <2>1. CASE UNCHANGED feed
    BY <1>2, <2>1 DEF SenderInv, SenderOrder
  <2>2. ASSUME NEW s \in Sessions, PublishOk(s) \/ PublishLost(s)
        PROVE  SenderInv'
    <3>1. pc[s] = "publish" /\ Fanout(s)
      BY <2>2 DEF PublishOk, PublishLost, RetryOrGiveUp, Goto
    <3>2. /\ SenderOrder'
          /\ \A i \in 1..Len(feed') :
               \/ i \in 1..Len(feed) /\ feed'[i] = feed[i]
               \/ feed'[i].of = event[s]
      BY <3>1, FanoutInOrder
    <3>3. event[s].by = s /\ event[s].n \in Nat
      BY <3>1, <1>t, BoundAssumption
         DEF SenderInv, SessionEvents, Resting, Event
    <3> QED
      BY <1>2, <3>2, <3>3 DEF SenderInv
  <2> QED
    BY <2>1, <2>2, FeedSteps
<1> QED
  BY <1>1, <1>2, EventSteps

(* Events are numbered as they come, and senders are in order.             *)
LEMMA SenderInvariance == Spec => [](DeliveryInv /\ OwnEvents /\ SenderInv)
<1>1. Init => OwnEvents /\ SenderInv
  BY DEF Init, OwnEvents, SenderInv, SenderOrder, Resting
<1>2. DeliveryInv /\ OwnEvents /\ SenderInv /\ [Next]_vars
        => OwnEvents' /\ SenderInv'
  BY StepOwn, StepSender
<1> QED
  BY <1>1, <1>2, DeliveryInvariance, PTL DEF Spec

(* "Ordered delivery", for what one session sends: retries never let a     *)
(* later message be published before an earlier one.                       *)
THEOREM SenderOrdered == Spec => []SenderOrder
<1>1. SenderInv => SenderOrder
  BY DEF SenderInv
<1> QED
  BY <1>1, SenderInvariance, PTL

-----------------------------------------------------------------------------
(* Every answer counts.                                                    *)

(* Ranks are natural numbers; a step of one session leaves those of the    *)
(* others alone.                                                           *)
LEMMA RankFacts ==
  ASSUME TypeOK, NEW s \in Sessions
  PROVE  /\ Rank(s) \in Nat
         /\ pc[s] = "publish" => Rank(s) = retries + 2 - attempt[s] /\ Rank(s) >= 3
         /\ pc[s] = "select" => Rank(s) = retries + 5
         /\ pc[s] = "insert" => Rank(s) = retries + 4
         /\ pc[s] = "commit" => Rank(s) = retries + 3
         /\ pc[s] = "lpush" => Rank(s) = 2
         /\ pc[s] = "ltrim" => Rank(s) = 1
         /\ pc[s] \in Resting => Rank(s) = 0
<1>1. /\ attempt[s] \in 0..(retries - 1) /\ retries \in Nat \ {0}
      /\ pc[s] \in {"idle", "select", "insert", "commit", "publish", "lpush",
                    "ltrim", "failed", "integrity_error"}
  BY BoundAssumption DEF TypeOK
<1> QED
  BY <1>1 DEF Rank, Resting

(* A step leaves the sessions alone that it is not a step of.              *)
LEMMA OthersRest ==
  ASSUME TypeOK, NEW s \in Sessions,
         \/ SaveStep(s) \/ PublishStep(s) \/ DbError(s) \/ Crash(s)
         \/ \E k \in Keys \cup {NoKey} : Receive(s, k)
  PROVE  \A t \in Sessions \ {s} : pc'[t] = pc[t] /\ attempt'[t] = attempt[t]
<1> USE DEF TypeOK, Goto
<1>1. CASE SaveStep(s) \/ DbError(s) \/ Crash(s)
  BY <1>1 DEF SaveStep, SelectFound, SelectNone, Insert, InsertConflict, Commit,
     DbError, Crash, Announce
<1>2. CASE PublishStep(s)
  BY <1>2 DEF PublishStep, PublishOk, PublishFail, PublishLost, RetryOrGiveUp,
     LPush, LPushLost, LPushFail, LTrim, LTrimFail
<1>3. CASE \E k \in Keys \cup {NoKey} : Receive(s, k)
  BY <1>3 DEF Receive
<1> QED
  BY <1>1, <1>2, <1>3

(* The variant that makes handling end: no answer, error or crash sets a   *)
(* session back.                                                           *)
THEOREM AnswersCount == Spec => EveryAnswerCounts
<1> DEFINE Counts ==
      \E s \in Sessions :
        /\ \A t \in Sessions \ {s} : Rank(t)' = Rank(t)
        /\ \/ Rank(s)' < Rank(s)
           \/ pc[s] = "idle" /\ received' = received + 1
<1>1. DeliveryInv /\ DeliveryInv' /\ [Next]_vars => [Counts]_vars
  <2> SUFFICES ASSUME DeliveryInv, DeliveryInv', Next PROVE Counts
    OBVIOUS
  <2>t. TypeOK /\ TypeOK'
    BY DEF DeliveryInv
  <2>r. retries \in Nat \ {0}
    BY BoundAssumption
  <2>1. PICK s \in Sessions :
          \/ SaveStep(s) \/ PublishStep(s) \/ DbError(s) \/ Crash(s)
          \/ \E k \in Keys \cup {NoKey} : Receive(s, k)
    BY DEF Next
  <2>2. \A t \in Sessions \ {s} : Rank(t)' = Rank(t)
    BY <2>1, <2>t, OthersRest DEF Rank
  <2>3. /\ attempt[s] \in 0..(retries - 1)
        /\ attempt'[s] \in 0..(retries - 1)
    BY <2>t DEF TypeOK
  <2>4. \A p : pc' = [pc EXCEPT ![s] = p] => pc'[s] = p
    BY <2>t DEF TypeOK
  <2>5. /\ Rank(s)' \in Nat
        /\ pc'[s] = "publish" =>
             Rank(s)' = retries + 2 - attempt'[s] /\ Rank(s)' <= retries + 2
        /\ pc'[s] = "insert" => Rank(s)' = retries + 4
        /\ pc'[s] = "commit" => Rank(s)' = retries + 3
        /\ pc'[s] = "lpush" => Rank(s)' = 2
        /\ pc'[s] = "ltrim" => Rank(s)' = 1
        /\ pc'[s] \in Resting => Rank(s)' = 0
    <3>1. pc'[s] \in {"idle", "select", "insert", "commit", "publish", "lpush",
                      "ltrim", "failed", "integrity_error"}
      BY <2>t DEF TypeOK
    <3> QED
      BY <3>1, <2>3, <2>r DEF Rank, Resting
  <2>6. CASE SaveStep(s) \/ DbError(s) \/ Crash(s)
    <3>1. Rank(s)' < Rank(s)
      <4>1. CASE SelectFound(s) \/ Commit(s)
        <5>1. pc[s] \in {"select", "commit"} /\ pc'[s] = "publish"
          BY <4>1, <2>4 DEF SelectFound, Commit, Goto
        <5> QED
          BY <5>1, <2>5, <2>r, <2>t, RankFacts
      <4>2. CASE SelectNone(s) \/ Insert(s) \/ InsertConflict(s)
        <5>1. \/ pc[s] = "select" /\ pc'[s] = "insert"
              \/ pc[s] = "insert" /\ pc'[s] \in {"commit", "integrity_error"}
          BY <4>2, <2>4 DEF SelectNone, Insert, InsertConflict, Goto
        <5> QED
          BY <5>1, <2>5, <2>r, <2>t, RankFacts DEF Resting
      <4>3. CASE DbError(s) \/ Crash(s)
        <5>1. pc'[s] \in Resting /\ pc[s] \notin Resting
          BY <4>3, <2>4 DEF DbError, Crash, Goto, Resting
        <5>2. Rank(s) >= 1
          <6>1. pc[s] \in {"select", "insert", "commit", "publish", "lpush",
                           "ltrim"}
            BY <5>1, <2>t DEF TypeOK, Resting
          <6> QED
            BY <6>1, <2>r, <2>t, RankFacts
        <5> QED
          BY <5>1, <5>2, <2>5, <2>t, RankFacts
      <4> QED
        BY <2>6, <4>1, <4>2, <4>3 DEF SaveStep
    <3> QED
      BY <2>2, <3>1
  <2>7. CASE PublishStep(s)
    <3>1. Rank(s)' < Rank(s)
      <4>1. CASE PublishFail(s) \/ PublishLost(s)
        <5>1. /\ pc[s] = "publish"
              /\ \/ pc'[s] = "lpush"
                 \/ pc'[s] = "publish" /\ attempt'[s] = attempt[s] + 1
          BY <4>1, <2>4, <2>t DEF PublishFail, PublishLost, RetryOrGiveUp, TypeOK
        <5> QED
          BY <5>1, <2>3, <2>5, <2>r, <2>t, RankFacts
      <4>2. CASE PublishOk(s)
        <5>1. pc[s] = "publish" /\ pc'[s] = "idle"
          BY <4>2, <2>4 DEF PublishOk, Goto
        <5> QED
          BY <5>1, <2>5, <2>t, RankFacts DEF Resting
      <4>3. CASE LPush(s) \/ LPushLost(s) \/ LPushFail(s) \/ LTrim(s) \/ LTrimFail(s)
        <5>1. \/ pc[s] = "lpush" /\ pc'[s] \in {"ltrim", "idle"}
              \/ pc[s] = "ltrim" /\ pc'[s] = "idle"
          BY <4>3, <2>4
             DEF LPush, LPushLost, LPushFail, LTrim, LTrimFail, Goto
        <5> QED
          BY <5>1, <2>5, <2>t, RankFacts DEF Resting
      <4> QED
        BY <2>7, <4>1, <4>2, <4>3 DEF PublishStep
    <3> QED
      BY <2>2, <3>1
  <2>8. CASE \E k \in Keys \cup {NoKey} : Receive(s, k)
    BY <2>2, <2>8 DEF Receive, Goto
  <2> QED
    BY <2>1, <2>6, <2>7, <2>8
<1> QED
  BY <1>1, DeliveryInvariance, PTL DEF Spec, EveryAnswerCounts

-----------------------------------------------------------------------------
(* The room as a log.                                                      *)

(* Storing a row is a step of the log: the session is alone with its key.  *)
LEMMA StoreMaps ==
  ASSUME DeliveryInv, NEW s \in Sessions, pc[s] = "commit",
         rows' = rows \cup {event[s]}, feed' = feed
  PROVE  Log!Next
<1>1. event[s] \in Event
  BY Parts DEF SessionEvents, Resting
<1>2. event[s].key # NoKey => \A q \in rows : q.key # event[s].key
  BY Parts DEF AloneWithKey, WithKey
<1>3. Log!Store(event[s])
  BY <1>2 DEF Log!Store
<1> QED
  BY <1>1, <1>3 DEF Log!Next

(* A PUBLISH that takes effect shows a stored row, in the sender's order.  *)
LEMMA ShowMaps ==
  ASSUME DeliveryInv, SenderInv, NEW s \in Sessions, pc[s] = "publish",
         Fanout(s), rows' = rows
  PROVE  Log!Next
<1>1. /\ message[s] \in rows /\ message[s].key = event[s].key
      /\ message[s] \in Event /\ event[s] \in Event
  BY Parts DEF SessionEvents, Resting, TypeOK
<1>2. \A i \in 1..Len(feed) : feed[i].of.by = event[s].by =>
        feed[i].of.n <= event[s].n
  BY DEF SenderInv, Resting
<1>3. Log!Show(message[s], event[s])
  BY <1>1, <1>2 DEF Log!Show, Fanout
<1> QED
  BY <1>1, <1>3 DEF Log!Next

(* _handle_message, save_message, publish and the dead letter queue        *)
(* implement RoomLog.                                                      *)
THEOREM DeliveryImplementsLog == Spec => RoomIsLog
<1>1. Init => Log!Init
  BY DEF Init, Log!Init
<1>2. DeliveryInv /\ SenderInv /\ [Next]_vars => [Log!Next]_(Log!logVars)
  <2> SUFFICES ASSUME DeliveryInv, SenderInv, [Next]_vars
               PROVE  Log!Next \/ UNCHANGED Log!logVars
    OBVIOUS
  <2>1. CASE UNCHANGED <<rows, feed>>
    BY <2>1 DEF Log!logVars
  <2>2. ASSUME NEW s \in Sessions, SaveStep(s) \/ DbError(s) \/ Crash(s)
        PROVE  Log!Next \/ UNCHANGED Log!logVars
    BY <2>1, <2>2, StoreMaps DEF SaveStep, SelectFound, SelectNone, Insert,
       InsertConflict, Commit, DbError, Crash, Goto, redisVars
  <2>3. ASSUME NEW s \in Sessions, PublishStep(s)
        PROVE  Log!Next \/ UNCHANGED Log!logVars
    <3>1. CASE PublishOk(s) \/ PublishLost(s)
      BY <3>1, ShowMaps DEF PublishOk, PublishLost, RetryOrGiveUp, Goto
    <3>2. CASE \/ PublishFail(s) \/ LPush(s) \/ LPushLost(s) \/ LPushFail(s)
               \/ LTrim(s) \/ LTrimFail(s)
      BY <2>1, <3>2 DEF PublishFail, LPush, LPushLost, LPushFail, LTrim,
         LTrimFail, redisVars
    <3> QED
      BY <2>3, <3>1, <3>2 DEF PublishStep
  <2>4. ASSUME NEW s \in Sessions, NEW k \in Keys \cup {NoKey}, Receive(s, k)
        PROVE  UNCHANGED Log!logVars
    BY <2>4 DEF Receive, redisVars, Log!logVars
  <2>5. CASE UNCHANGED vars
    BY <2>1, <2>5 DEF vars
  <2> QED
    BY <2>2, <2>3, <2>4, <2>5 DEF Next
<1> QED
  BY <1>1, <1>2, SenderInvariance, PTL DEF Spec, RoomIsLog, Log!Spec
=============================================================================

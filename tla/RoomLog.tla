------------------------------ MODULE RoomLog ------------------------------
(***************************************************************************)
(* What the members of a room may rely on.  Messages are stored for good,  *)
(* one for each idempotency key.  A member is shown stored messages only,  *)
(* each for an event with its key; nothing shown is taken back, and the    *)
(* events of one sender are shown in the order in which he sent them.      *)
(*                                                                         *)
(* MessageDelivery implements this with its transactions, its retries and  *)
(* the answers that get lost.                                              *)
(***************************************************************************)
EXTENDS Naturals, Sequences

CONSTANTS
  Event,  \* events, and the messages stored for them: the n-th in all, with
          \* its key and the session it is by
  NoKey   \* of an event that carries no key

VARIABLES
  stored,  \* the messages of the room
  shown    \* what members have been shown: a message for an event

logVars == <<stored, shown>>

Init == stored = {} /\ shown = << >>

(* A message is stored; its key is new.                                    *)
Store(m) ==
  /\ m.key # NoKey => \A q \in stored : q.key # m.key
  /\ stored' = stored \cup {m}
  /\ UNCHANGED shown

(* A stored message is shown for an event, perhaps not for the first time. *)
Show(m, e) ==
  /\ m \in stored
  /\ m.key = e.key
  /\ \A i \in 1..Len(shown) : shown[i].of.by = e.by => shown[i].of.n <= e.n
  /\ shown' = Append(shown, [id |-> m, of |-> e])
  /\ UNCHANGED stored

Next ==
  \E m \in Event :
    \/ Store(m)
    \/ \E e \in Event : Show(m, e)

Spec == Init /\ [][Next]_logVars
=============================================================================

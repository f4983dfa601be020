---------------------------- MODULE RedisBroker ----------------------------
(***************************************************************************)
(* The subscribing half of RedisBroker (app/messaging/redis_broker.py) in  *)
(* one application instance: connect, subscribe, the _listen task with its *)
(* backoff, _reconnect and disconnect.                                     *)
(*                                                                         *)
(* The Redis server and the client library's PubSub object are external.   *)
(* What the code relies on: PubSub keeps the channels it has subscribed to *)
(* in a dict; subscribe() connects if need be, sends the command and then  *)
(* records the channel; listen() reads for as long as the dict is not      *)
(* empty, re-establishing a closed connection with the recorded channels,  *)
(* and raises when the connection breaks while it reads.                   *)
(*                                                                         *)
(* An action is the code between two awaits that can suspend.  listen() on *)
(* a PubSub without channels returns without suspending, so the loop of    *)
(* _listen then never yields: the listener "spin"s and no other coroutine  *)
(* of the instance ever runs again.                                        *)
(***************************************************************************)
EXTENDS Naturals

CONSTANTS
  Channels,              \* the channels "room:<id>" that sessions join
  Dummy,                 \* "system:dummy"
  Sessions,              \* websocket sessions of this instance
  InitialDelay,          \* first reconnect delay
  max_reconnect_delay,   \* the delay stops doubling here
  NoChannel

ASSUME ChannelAssumption == Dummy \notin Channels /\ NoChannel \notin Channels
ASSUME DelayAssumption ==
  /\ InitialDelay \in Nat \ {0}
  /\ max_reconnect_delay \in Nat
  /\ max_reconnect_delay > InitialDelay

VARIABLES
  redis,            \* is the server up?
  callbacks,        \* keys of _callbacks
  channels,         \* channels recorded by the current _pubsub
  link,             \* its connection; "broken": lost, and not noticed yet
  listener,         \* where the _listen task is
  reconnect_delay,  \* _reconnect_delay
  snapshot,         \* _callbacks when the loop of _reconnect began
  todo,             \* channels that loop has not re-subscribed yet
  sub_pc,           \* per session: is it awaiting a subscribe?
  sub_channel       \* and to which channel

vars == <<redis, callbacks, channels, link, listener, reconnect_delay,
          snapshot, todo, sub_pc, sub_channel>>

TypeOK ==
  /\ redis \in {"up", "down"}
  /\ callbacks \subseteq Channels
  /\ channels \subseteq Channels \cup {Dummy}
  /\ link \in {"up", "broken", "down"}
  /\ listener \in {"none", "listen", "backoff", "resub", "spin", "stopped"}
  /\ reconnect_delay \in InitialDelay..max_reconnect_delay
  /\ snapshot \subseteq Channels
  /\ todo \subseteq Channels
  /\ sub_pc \in [Sessions -> {"idle", "await", "await_old"}]
  /\ sub_channel \in [Sessions -> Channels \cup {NoChannel}]

Init ==
  /\ redis = "up"
  /\ callbacks = {}
  /\ channels = {}
  /\ link = "down"
  /\ listener = "none"
  /\ reconnect_delay = InitialDelay
  /\ snapshot = {}
  /\ todo = {}
  /\ sub_pc = [s \in Sessions |-> "idle"]
  /\ sub_channel = [s \in Sessions |-> NoChannel]

-----------------------------------------------------------------------------
(* A command on the current connection goes through: it is connected, or   *)
(* looks so, or can be connected.                                          *)
CanSend == link # "down" \/ redis = "up"

CannotSend == link = "broken" \/ (link = "down" /\ redis = "down")

Linked == IF link = "down" THEN "up" ELSE link

(* The coroutines of the instance get to run.                              *)
Running == listener \in {"listen", "backoff", "resub"}

-----------------------------------------------------------------------------
(* connect, at startup; a failure aborts the startup.                      *)
Connect ==
  /\ listener = "none"
  /\ redis = "up"
  /\ channels' = {Dummy}
  /\ link' = "up"
  /\ listener' = "listen"
  /\ reconnect_delay' = InitialDelay
  /\ UNCHANGED <<redis, callbacks, snapshot, todo, sub_pc, sub_channel>>

ConnectFail ==
  /\ listener = "none"
  /\ redis = "down"
  /\ listener' = "stopped"
  /\ UNCHANGED <<redis, callbacks, channels, link, reconnect_delay, snapshot,
                 todo, sub_pc, sub_channel>>

(* subscribe: the handler is registered, then the PubSub is awaited.       *)
Subscribe(s, ch) ==
  /\ Running
  /\ sub_pc[s] = "idle"
  /\ callbacks' = callbacks \cup {ch}
  /\ sub_pc' = [sub_pc EXCEPT ![s] = "await"]
  /\ sub_channel' = [sub_channel EXCEPT ![s] = ch]
  /\ UNCHANGED <<redis, channels, link, listener, reconnect_delay, snapshot,
                 todo>>

(* subscribe returns or raises; a handler that was registered stays.       *)
SubscribeReturns(s) ==
  /\ sub_pc' = [sub_pc EXCEPT ![s] = "idle"]
  /\ sub_channel' = [sub_channel EXCEPT ![s] = NoChannel]
  /\ UNCHANGED <<redis, callbacks, listener, reconnect_delay, snapshot, todo>>

SubscribeDone(s) ==
  /\ Running
  /\ sub_pc[s] = "await"
  /\ CanSend
  /\ channels' = channels \cup {sub_channel[s]}
  /\ link' = Linked
  /\ SubscribeReturns(s)

SubscribeFail(s) ==
  /\ Running
  /\ sub_pc[s] = "await"
  /\ CannotSend
  /\ UNCHANGED <<channels, link>>
  /\ SubscribeReturns(s)

(* The PubSub was replaced meanwhile: whatever the outcome, the current    *)
(* one learns nothing of the channel.                                      *)
SubscribeOld(s) ==
  /\ Running
  /\ sub_pc[s] = "await_old"
  /\ UNCHANGED <<channels, link>>
  /\ SubscribeReturns(s)

-----------------------------------------------------------------------------
(* _listen: listen() raises, and the task sleeps before it reconnects.     *)
ListenerError ==
  /\ listener = "listen"
  /\ CannotSend
  /\ listener' = "backoff"
  /\ link' = "down"
  /\ UNCHANGED <<redis, callbacks, channels, reconnect_delay, snapshot, todo,
                 sub_pc, sub_channel>>

(* listen() finds the connection closed and re-establishes it.             *)
Relink ==
  /\ listener = "listen"
  /\ link = "down"
  /\ redis = "up"
  /\ link' = "up"
  /\ UNCHANGED <<redis, callbacks, channels, listener, reconnect_delay,
                 snapshot, todo, sub_pc, sub_channel>>

Doubled == IF 2 * reconnect_delay <= max_reconnect_delay
           THEN 2 * reconnect_delay ELSE max_reconnect_delay

(* The sleep is over: a new PubSub without channels; subscribes under way  *)
(* still belong to the old one.                                            *)
NewPubSub ==
  /\ listener = "backoff"
  /\ channels' = {}
  /\ link' = "down"
  /\ sub_pc' = [s \in Sessions |-> IF sub_pc[s] = "await" THEN "await_old"
                                                          ELSE sub_pc[s]]
  /\ snapshot' = callbacks
  /\ todo' = callbacks
  /\ UNCHANGED <<redis, callbacks, sub_channel>>

(* Faulty variant: no more attempts once the delay is at its maximum.      *)
ReconnectGivesUp ==
  /\ NewPubSub
  /\ callbacks # {}
  /\ reconnect_delay < max_reconnect_delay
  /\ listener' = "resub"
  /\ reconnect_delay' = Doubled

Reconnect ==
  /\ NewPubSub
  /\ callbacks # {}
  /\ listener' = "resub"
  /\ reconnect_delay' = Doubled

(* No room was ever joined: the loop has nothing to do, and the dummy      *)
(* channel is not in it.                                                   *)
ReconnectNothing ==
  /\ NewPubSub
  /\ callbacks = {}
  /\ listener' = "spin"
  /\ reconnect_delay' = InitialDelay

(* One subscribe of the loop in _reconnect returns.                        *)
Resubscribed(ch) ==
  /\ listener = "resub"
  /\ ch \in todo
  /\ CanSend
  /\ channels' = channels \cup {ch}
  /\ link' = Linked
  /\ todo' = todo \ {ch}
  /\ UNCHANGED <<redis, callbacks, snapshot, sub_pc, sub_channel>>

ResubscribeNext(ch) ==
  /\ Resubscribed(ch)
  /\ callbacks = snapshot
  /\ todo # {ch}
  /\ UNCHANGED <<listener, reconnect_delay>>

(* Faulty variant: the loop runs over a copy of the keys, so channels      *)
(* added meanwhile go unnoticed.                                           *)
ResubscribeLastOfCopy(ch) ==
  /\ Resubscribed(ch)
  /\ todo = {ch}
  /\ listener' = "listen"
  /\ reconnect_delay' = InitialDelay

(* The loop is over: the reconnect has succeeded.                          *)
ResubscribeLast(ch) ==
  /\ Resubscribed(ch)
  /\ callbacks = snapshot
  /\ todo = {ch}
  /\ listener' = "listen"
  /\ reconnect_delay' = InitialDelay

(* A room was joined for the first time during the await: the iterator     *)
(* raises RuntimeError, even after the last key, and the loop of _listen   *)
(* goes on with the channels re-subscribed so far.                         *)
ResubscribeGrown(ch) ==
  /\ Resubscribed(ch)
  /\ callbacks # snapshot
  /\ listener' = "listen"
  /\ UNCHANGED reconnect_delay

(* Faulty variant: the delay is reset whatever comes of the reconnect.     *)
ResubscribeFailResets ==
  /\ listener = "resub"
  /\ CannotSend
  /\ listener' = IF channels = {} THEN "spin" ELSE "listen"
  /\ link' = "down"
  /\ reconnect_delay' = InitialDelay
  /\ UNCHANGED <<redis, callbacks, channels, snapshot, todo, sub_pc,
                 sub_channel>>

(* A subscribe of the loop raises: "Reconnection failed", and the loop of  *)
(* _listen goes on with the new PubSub as it is.                           *)
ResubscribeFail ==
  /\ listener = "resub"
  /\ CannotSend
  /\ listener' = IF channels = {} THEN "spin" ELSE "listen"
  /\ link' = "down"
  /\ UNCHANGED <<redis, callbacks, channels, reconnect_delay, snapshot, todo,
                 sub_pc, sub_channel>>

(* disconnect: the task is cancelled, the connections are closed.          *)
Disconnect ==
  /\ Running
  /\ listener' = "stopped"
  /\ link' = "down"
  /\ channels' = {}
  /\ UNCHANGED <<redis, callbacks, reconnect_delay, snapshot, todo, sub_pc,
                 sub_channel>>

-----------------------------------------------------------------------------
(* The server and the network.                                             *)
Broken == IF link = "up" THEN "broken" ELSE link

RedisDown ==
  /\ redis = "up"
  /\ redis' = "down"
  /\ link' = Broken
  /\ UNCHANGED <<callbacks, channels, listener, reconnect_delay, snapshot,
                 todo, sub_pc, sub_channel>>

RedisUp ==
  /\ redis = "down"
  /\ redis' = "up"
  /\ UNCHANGED <<callbacks, channels, link, listener, reconnect_delay,
                 snapshot, todo, sub_pc, sub_channel>>

LinkDrop ==
  /\ link = "up"
  /\ link' = "broken"
  /\ UNCHANGED <<redis, callbacks, channels, listener, reconnect_delay,
                 snapshot, todo, sub_pc, sub_channel>>

-----------------------------------------------------------------------------
ListenerStep ==
  \/ ListenerError \/ Relink \/ Reconnect \/ ReconnectNothing
  \/ \E ch \in Channels :
       ResubscribeNext(ch) \/ ResubscribeLast(ch) \/ ResubscribeGrown(ch)
  \/ ResubscribeFail

SubscribeStep(s) == SubscribeDone(s) \/ SubscribeFail(s) \/ SubscribeOld(s)

Next ==
  \/ Connect \/ ConnectFail \/ Disconnect
  \/ ListenerStep
  \/ \E s \in Sessions : SubscribeStep(s)
  \/ \E s \in Sessions, ch \in Channels : Subscribe(s, ch)
  \/ RedisDown \/ RedisUp \/ LinkDrop

Spec == Init /\ [][Next]_vars

(* The event loop runs the listener whenever its await is over, and every  *)
(* command it awaits succeeds or raises.                                   *)
FairSpec == Spec /\ WF_vars(ListenerStep)

-----------------------------------------------------------------------------
(* Properties.                                                             *)

(* A message never arrives on a channel without a handler to dispatch it   *)
(* to: subscribe registers the handler before it awaits the subscription.  *)
HandlerBeforeSubscription == channels \subseteq callbacks \cup {Dummy}

(* Rooms whose handler is registered and whose subscription is under way.  *)
InFlight == {sub_channel[s] : s \in {t \in Sessions : sub_pc[t] = "await"}}

(* While the backoff delay is at its initial value, a connected listener   *)
(* receives every room that has a handler: subscriptions that failed, that *)
(* went to a PubSub since replaced or that were made during a reconnect    *)
(* are not lost unless a reconnect has been reported as failed.            *)
QuietMeansComplete ==
  listener = "listen" /\ link = "up" /\ reconnect_delay = InitialDelay =>
    callbacks \ InFlight \subseteq channels

(* What the loop of _reconnect keeps true, and why only a failed reconnect *)
(* lets listen() re-establish a connection by itself.                      *)
ReconnectInv ==
  /\ listener = "none" => callbacks = {}
  /\ listener = "resub" =>
       /\ todo \subseteq snapshot /\ snapshot \subseteq callbacks
       /\ snapshot \subseteq channels \cup todo
       /\ reconnect_delay > InitialDelay
  /\ listener = "listen" /\ reconnect_delay = InitialDelay => link # "down"
  /\ \A s \in Sessions : sub_pc[s] # "idle" => sub_channel[s] \in callbacks

(* A listener that reads has a channel to read from, or it would spin.     *)
SpinInv == listener = "listen" => channels # {}

BrokerInv ==
  /\ TypeOK
  /\ HandlerBeforeSubscription
  /\ ReconnectInv
  /\ SpinInv
  /\ QuietMeansComplete

(* "Prevent pubsub.listen() from busy-looping when there are zero          *)
(* subscriptions".                                                         *)
NeverSpins == listener # "spin"

(* "Automatic reconnection": when Redis stays up from some point on, the   *)
(* listener is connected again and again, however often the link drops.    *)
Reconnects ==
  <>[](redis = "up") =>
    []<>(link = "up" \/ listener \in {"none", "spin", "stopped"})
=============================================================================

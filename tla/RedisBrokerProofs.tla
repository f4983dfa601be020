------------------------- MODULE RedisBrokerProofs -------------------------
(* The listener's invariant, for any rooms, sessions and delays.           *)
EXTENDS RedisBroker, TLAPS

(* connect has not run: no channel, no handler.                            *)
LEMMA InitInv == Init => BrokerInv
BY ChannelAssumption, DelayAssumption
   DEF Init, BrokerInv, TypeOK, HandlerBeforeSubscription, ReconnectInv,
       SpinInv, QuietMeansComplete, InFlight

(* The delay doubles up to its cap and leaves its initial value for good.  *)
LEMMA DoubledFacts ==
  ASSUME TypeOK
  PROVE  /\ Doubled \in InitialDelay..max_reconnect_delay
         /\ Doubled > InitialDelay
BY DelayAssumption DEF TypeOK, Doubled

(* Every step keeps the types.                                             *)
LEMMA StepType == BrokerInv /\ [Next]_vars => TypeOK'
<1> SUFFICES ASSUME BrokerInv, [Next]_vars PROVE TypeOK'
  OBVIOUS
<1>t. TypeOK
  BY DEF BrokerInv
<1>d. Doubled \in InitialDelay..max_reconnect_delay
  BY <1>t, DoubledFacts
<1>e. InitialDelay \in InitialDelay..max_reconnect_delay
  BY DelayAssumption
<1>1. CASE Connect \/ ConnectFail \/ Disconnect
  BY <1>1, <1>t, <1>e DEF TypeOK, Connect, ConnectFail, Disconnect
<1>2. CASE ListenerError \/ Relink \/ ResubscribeFail
  BY <1>2, <1>t DEF TypeOK, ListenerError, Relink, ResubscribeFail
<1>3. CASE Reconnect \/ ReconnectNothing
  <2>1. sub_pc' \in [Sessions -> {"idle", "await", "await_old"}]
    BY <1>3, <1>t DEF TypeOK, Reconnect, ReconnectNothing, NewPubSub
  <2> QED
    BY <2>1, <1>3, <1>t, <1>d, <1>e
       DEF TypeOK, Reconnect, ReconnectNothing, NewPubSub
<1>4. ASSUME NEW ch \in Channels,
             ResubscribeNext(ch) \/ ResubscribeLast(ch) \/ ResubscribeGrown(ch)
      PROVE  TypeOK'
  BY <1>4, <1>t, <1>e DEF TypeOK, ResubscribeNext, ResubscribeLast,
     ResubscribeGrown, Resubscribed, Linked
<1>5. ASSUME NEW s \in Sessions, SubscribeStep(s)
      PROVE  TypeOK'
  <2>1. sub_channel[s] \in callbacks \/ sub_pc[s] = "idle"
    BY DEF BrokerInv, ReconnectInv
  <2> QED
    BY <2>1, <1>5, <1>t DEF TypeOK, SubscribeStep, SubscribeDone,
       SubscribeFail, SubscribeOld, SubscribeReturns, Linked
<1>6. ASSUME NEW s \in Sessions, NEW ch \in Channels, Subscribe(s, ch)
      PROVE  TypeOK'
  BY <1>6, <1>t DEF TypeOK, Subscribe
<1>7. CASE RedisDown \/ RedisUp \/ LinkDrop
  BY <1>7, <1>t DEF TypeOK, RedisDown, RedisUp, LinkDrop, Broken
<1>8. CASE UNCHANGED vars
  BY <1>8, <1>t DEF TypeOK, vars
<1> QED
  BY <1>1, <1>2, <1>3, <1>4, <1>5, <1>6, <1>7, <1>8 DEF Next, ListenerStep

(* The rest of the invariant, one conjunct after the other.                *)
LEMMA StepHandlers == BrokerInv /\ [Next]_vars => HandlerBeforeSubscription'
<1> SUFFICES ASSUME BrokerInv, [Next]_vars PROVE HandlerBeforeSubscription'
  OBVIOUS
<1>h. channels \subseteq callbacks \cup {Dummy}
  BY DEF BrokerInv, HandlerBeforeSubscription
<1>r. \A s \in Sessions : sub_pc[s] # "idle" => sub_channel[s] \in callbacks
  BY DEF BrokerInv, ReconnectInv
<1>1. ASSUME NEW s \in Sessions, SubscribeStep(s)
      PROVE  HandlerBeforeSubscription'
  BY <1>1, <1>h, <1>r DEF HandlerBeforeSubscription, SubscribeStep,
     SubscribeDone, SubscribeFail, SubscribeOld, SubscribeReturns
<1>2. ASSUME NEW ch \in Channels,
             ResubscribeNext(ch) \/ ResubscribeLast(ch) \/ ResubscribeGrown(ch)
      PROVE  HandlerBeforeSubscription'
  <2>1. todo \subseteq callbacks
    BY <1>2 DEF BrokerInv, ReconnectInv, ResubscribeNext, ResubscribeLast,
       ResubscribeGrown, Resubscribed
  <2> QED
    BY <2>1, <1>2, <1>h DEF HandlerBeforeSubscription, ResubscribeNext,
       ResubscribeLast, ResubscribeGrown, Resubscribed
<1>3. CASE \/ Connect \/ ConnectFail \/ Disconnect
           \/ ListenerError \/ Relink \/ ResubscribeFail
           \/ Reconnect \/ ReconnectNothing
  BY <1>3, <1>h DEF HandlerBeforeSubscription, Connect, ConnectFail,
     Disconnect, ListenerError, Relink, ResubscribeFail, Reconnect,
     ReconnectNothing, NewPubSub
<1>4. ASSUME NEW s \in Sessions, NEW ch \in Channels, Subscribe(s, ch)
      PROVE  HandlerBeforeSubscription'
  BY <1>4, <1>h DEF HandlerBeforeSubscription, Subscribe
<1>5. CASE RedisDown \/ RedisUp \/ LinkDrop \/ UNCHANGED vars
  BY <1>5, <1>h DEF HandlerBeforeSubscription, RedisDown, RedisUp, LinkDrop,
     vars
<1> QED
  BY <1>1, <1>2, <1>3, <1>4, <1>5 DEF Next, ListenerStep

LEMMA StepReconnect == BrokerInv /\ [Next]_vars => ReconnectInv'
<1> SUFFICES ASSUME BrokerInv, [Next]_vars PROVE ReconnectInv'
  OBVIOUS
<1>t. TypeOK /\ ReconnectInv
  BY DEF BrokerInv
<1>d. Doubled > InitialDelay
  BY <1>t, DoubledFacts
<1>1. CASE Connect \/ ConnectFail \/ Disconnect
  BY <1>1, <1>t DEF TypeOK, ReconnectInv, Connect, ConnectFail, Disconnect
<1>2. CASE ListenerError \/ Relink
  BY <1>2, <1>t DEF TypeOK, ReconnectInv, ListenerError, Relink
<1>3. CASE ResubscribeFail
  BY <1>3, <1>t DEF TypeOK, ReconnectInv, ResubscribeFail
<1>4. CASE Reconnect \/ ReconnectNothing
  BY <1>4, <1>t, <1>d
     DEF TypeOK, ReconnectInv, Reconnect, ReconnectNothing, NewPubSub
<1>5. ASSUME NEW ch \in Channels,
             ResubscribeNext(ch) \/ ResubscribeLast(ch) \/ ResubscribeGrown(ch)
      PROVE  ReconnectInv'
  BY <1>5, <1>t DEF TypeOK, ReconnectInv, ResubscribeNext, ResubscribeLast,
     ResubscribeGrown, Resubscribed, Linked
<1>6. ASSUME NEW s \in Sessions, SubscribeStep(s)
      PROVE  ReconnectInv'
  <2>1. \A t \in Sessions : sub_pc'[t] # "idle" => sub_channel'[t] \in callbacks'
    BY <1>6, <1>t DEF TypeOK, ReconnectInv, SubscribeStep, SubscribeDone,
       SubscribeFail, SubscribeOld, SubscribeReturns
  <2> QED
    BY <2>1, <1>6, <1>t DEF TypeOK, ReconnectInv, SubscribeStep,
       SubscribeDone, SubscribeFail, SubscribeOld, SubscribeReturns, Linked
<1>7. ASSUME NEW s \in Sessions, NEW ch \in Channels, Subscribe(s, ch)
      PROVE  ReconnectInv'
  <2>1. \A t \in Sessions : sub_pc'[t] # "idle" => sub_channel'[t] \in callbacks'
    BY <1>7, <1>t DEF TypeOK, ReconnectInv, Subscribe
  <2> QED
    BY <2>1, <1>7, <1>t DEF TypeOK, ReconnectInv, Subscribe, Running
<1>8. CASE RedisDown \/ RedisUp \/ LinkDrop \/ UNCHANGED vars
  BY <1>8, <1>t DEF TypeOK, ReconnectInv, RedisDown, RedisUp, LinkDrop,
     Broken, vars
<1> QED
  BY <1>1, <1>2, <1>3, <1>4, <1>5, <1>6, <1>7, <1>8 DEF Next, ListenerStep

LEMMA StepSpin == BrokerInv /\ [Next]_vars => SpinInv'
<1> SUFFICES ASSUME BrokerInv, [Next]_vars PROVE SpinInv'
  OBVIOUS
<1>s. SpinInv
  BY DEF BrokerInv
<1>1. CASE \/ Connect \/ ConnectFail \/ Disconnect
           \/ ListenerError \/ Relink \/ ResubscribeFail
           \/ Reconnect \/ ReconnectNothing
  BY <1>1, <1>s DEF SpinInv, Connect, ConnectFail, Disconnect, ListenerError,
     Relink, ResubscribeFail, Reconnect, ReconnectNothing, NewPubSub
<1>2. ASSUME NEW ch \in Channels,
             ResubscribeNext(ch) \/ ResubscribeLast(ch) \/ ResubscribeGrown(ch)
      PROVE  SpinInv'
  BY <1>2, <1>s DEF SpinInv, ResubscribeNext, ResubscribeLast,
     ResubscribeGrown, Resubscribed
<1>3. ASSUME NEW s \in Sessions, SubscribeStep(s)
      PROVE  SpinInv'
  BY <1>3, <1>s DEF SpinInv, SubscribeStep, SubscribeDone, SubscribeFail,
     SubscribeOld, SubscribeReturns
<1>4. ASSUME NEW s \in Sessions, NEW ch \in Channels, Subscribe(s, ch)
      PROVE  SpinInv'
  BY <1>4, <1>s DEF SpinInv, Subscribe
<1>5. CASE RedisDown \/ RedisUp \/ LinkDrop \/ UNCHANGED vars
  BY <1>5, <1>s DEF SpinInv, RedisDown, RedisUp, LinkDrop, vars
<1> QED
  BY <1>1, <1>2, <1>3, <1>4, <1>5 DEF Next, ListenerStep

LEMMA StepQuiet == BrokerInv /\ [Next]_vars => QuietMeansComplete'
<1> SUFFICES ASSUME BrokerInv, [Next]_vars,
                    listener' = "listen", link' = "up",
                    reconnect_delay' = InitialDelay,
                    NEW ch \in callbacks', ch \notin InFlight'
             PROVE  ch \in channels'
  BY DEF QuietMeansComplete
<1>t. TypeOK /\ ReconnectInv
  BY DEF BrokerInv
<1>q. /\ listener = "listen" /\ link = "up"
      /\ reconnect_delay = InitialDelay
      /\ ch \in callbacks /\ ch \notin InFlight
      => ch \in channels
  BY DEF BrokerInv, QuietMeansComplete
<1>1. CASE Connect
  BY <1>1, <1>t DEF Connect, ReconnectInv
<1>2. CASE \/ ConnectFail \/ Disconnect \/ ListenerError
           \/ Reconnect \/ ReconnectNothing
  BY <1>2 DEF ConnectFail, Disconnect, ListenerError, Reconnect,
     ReconnectNothing
<1>3. CASE Relink \/ ResubscribeFail
  BY <1>3, <1>t DEF Relink, ResubscribeFail, ReconnectInv
<1>4. ASSUME NEW k \in Channels,
             ResubscribeNext(k) \/ ResubscribeLast(k) \/ ResubscribeGrown(k)
      PROVE  ch \in channels'
  <2>1. CASE ResubscribeLast(k)
    <3>1. callbacks \subseteq channels \cup {k}
      BY <2>1, <1>t DEF ResubscribeLast, Resubscribed, ReconnectInv
    <3> QED
      BY <2>1, <3>1 DEF ResubscribeLast, Resubscribed
  <2>2. CASE ResubscribeNext(k)
    BY <2>2 DEF ResubscribeNext, Resubscribed
  <2>3. CASE ResubscribeGrown(k)
    BY <2>3, <1>t, DelayAssumption
       DEF ResubscribeGrown, Resubscribed, ReconnectInv, TypeOK
  <2> QED
    BY <1>4, <2>1, <2>2, <2>3
<1>5. ASSUME NEW s \in Sessions, SubscribeStep(s)
      PROVE  ch \in channels'
  <2>1. CASE SubscribeDone(s)
    <3>1. link = "up" /\ listener = "listen" /\ reconnect_delay = InitialDelay
      BY <2>1, <1>t DEF SubscribeDone, SubscribeReturns, Linked, ReconnectInv,
         TypeOK
    <3>2. ch # sub_channel[s] => ch \notin InFlight
      BY <2>1, <1>t DEF SubscribeDone, SubscribeReturns, InFlight, TypeOK
    <3> QED
      BY <3>1, <3>2, <2>1, <1>q DEF SubscribeDone, SubscribeReturns
  <2>2. CASE SubscribeFail(s)
    BY <2>2, <1>t DEF SubscribeFail, SubscribeReturns, CannotSend
  <2>3. CASE SubscribeOld(s)
    <3>1. ch \notin InFlight
      BY <2>3, <1>t DEF SubscribeOld, SubscribeReturns, InFlight, TypeOK
    <3> QED
      BY <3>1, <2>3, <1>q DEF SubscribeOld, SubscribeReturns
  <2> QED
    BY <1>5, <2>1, <2>2, <2>3 DEF SubscribeStep
<1>6. ASSUME NEW s \in Sessions, NEW k \in Channels, Subscribe(s, k)
      PROVE  ch \in channels'
  <2>1. k \in InFlight'
    <3>1. s \in {t \in Sessions : sub_pc'[t] = "await"} /\ sub_channel'[s] = k
      BY <1>6, <1>t DEF Subscribe, TypeOK
    <3> QED
      BY <3>1 DEF InFlight
  <2>2. ch \notin InFlight
    BY <1>6, <1>t DEF Subscribe, TypeOK, InFlight
  <2> QED
    BY <2>1, <2>2, <1>6, <1>q DEF Subscribe
<1>7. CASE RedisDown \/ RedisUp \/ LinkDrop \/ UNCHANGED vars
  <2>1. InFlight' = InFlight
    BY <1>7 DEF RedisDown, RedisUp, LinkDrop, vars, InFlight
  <2> QED
    BY <2>1, <1>7, <1>q DEF RedisDown, RedisUp, LinkDrop, Broken, vars
<1> QED
  BY <1>1, <1>2, <1>3, <1>4, <1>5, <1>6, <1>7 DEF Next, ListenerStep

(* BrokerInv holds in every reachable state, for any number of rooms and   *)
(* sessions: the listener's channels all have handlers, the loop of        *)
(* _reconnect accounts for every handler it started with, and a listener   *)
(* whose PubSub is empty is spinning.                                      *)
THEOREM BrokerInvariance == Spec => []BrokerInv
<1>1. BrokerInv /\ [Next]_vars => BrokerInv'
  BY StepType, StepHandlers, StepReconnect, StepSpin, StepQuiet DEF BrokerInv
<1> QED
  BY <1>1, InitInv, PTL DEF Spec

(* While no reconnect has failed, a connected listener receives every room *)
(* that has a handler, whatever subscriptions raced with the reconnects.   *)
THEOREM QuietComplete == Spec => []QuietMeansComplete
<1>1. BrokerInv => QuietMeansComplete
  BY DEF BrokerInv
<1> QED
  BY <1>1, BrokerInvariance, PTL
=============================================================================

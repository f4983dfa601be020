--------------------------- MODULE PresenceProofs ---------------------------
(***************************************************************************)
(* Proofs about Presence: a list shows nobody who joined long ago, nobody  *)
(* is removed without a cause, and whoever is online has a session that    *)
(* will take him off, for every number of sessions, users and instances,   *)
(* every timeout and every difference of the clocks.                       *)
(***************************************************************************)
EXTENDS Presence, TLAPS

(* At the start nobody is connected and nobody is online.                  *)
LEMMA InitInv == Init => PresenceInv
  BY PresenceAssumption
  DEF Init, PresenceInv, TypeOK, ClockInv, ListIsRecent, RegisteredInv,
      OnlineHasCause, Running, Joining

-----------------------------------------------------------------------------

(* Every step keeps the variables in their types.                          *)
LEMMA TypeStep == TypeOK /\ [Next]_vars => TypeOK'
<1> SUFFICES ASSUME TypeOK, [Next]_vars
             PROVE  TypeOK'
  OBVIOUS
<1> USE PresenceAssumption
    DEF TypeOK, Goto, ReadClock, Register, Registered,
        Forget, ZRem, Running, Joining, history
<1>1. CASE Tick
  BY <1>1 DEF Tick
<1>2. ASSUME NEW s \in Sessions, Connect(s) PROVE TypeOK'
  BY <1>2 DEF Connect
<1>3. ASSUME NEW s \in Sessions, ForceDisconnect(s) PROVE TypeOK'
  BY <1>3 DEF ForceDisconnect
<1>4. ASSUME NEW s \in Sessions, JoinRoom(s) PROVE TypeOK'
  BY <1>4 DEF JoinRoom
<1>5. ASSUME NEW s \in Sessions, ZAdd(s) PROVE TypeOK'
  BY <1>5 DEF ZAdd, Entry
<1>6. ASSUME NEW s \in Sessions, GetOnlineUsers(s) PROVE TypeOK'
  BY <1>6 DEF GetOnlineUsers
<1>7. ASSUME NEW s \in Sessions, Prune(s) PROVE TypeOK'
  BY <1>7 DEF Prune
<1>8. ASSUME NEW s \in Sessions, Range(s) PROVE TypeOK'
  BY <1>8 DEF Range
<1>9. ASSUME NEW s \in Sessions, SendList(s) PROVE TypeOK'
  BY <1>9 DEF SendList
<1>10. ASSUME NEW s \in Sessions, LeaveRoom(s) PROVE TypeOK'
  BY <1>10 DEF LeaveRoom
<1>11. ASSUME NEW s \in Sessions, SetOffline(s) PROVE TypeOK'
  BY <1>11 DEF SetOffline
<1>12. ASSUME NEW s \in Sessions, EndLoop(s) PROVE TypeOK'
  <2>1. connections' \in [Instances -> [Users -> Sessions \cup {NoSession}]]
    <3>1. CASE UNCHANGED connections
      BY <3>1
    <3>2. CASE Register(s, NoSession)
      BY <3>2
    <3> QED
      BY <1>12, <3>1, <3>2 DEF EndLoop
  <2>2. pc' \in [Sessions -> Running \cup {"new", "ended"}]
    BY <1>12 DEF EndLoop
  <2> QED
    BY <1>12, <2>1, <2>2 DEF EndLoop
<1>13. ASSUME NEW s \in Sessions, Cleanup(s) PROVE TypeOK'
  BY <1>13 DEF Cleanup
<1>14. ASSUME NEW s \in Sessions, CleanupError(s) PROVE TypeOK'
  BY <1>14 DEF CleanupError
<1>15. ASSUME NEW i \in Instances, Crash(i) PROVE TypeOK'
  BY <1>15 DEF Crash
<1>16. CASE UNCHANGED vars
  BY <1>16 DEF vars
<1> QED
  BY <1>1, <1>2, <1>3, <1>4, <1>5, <1>6, <1>7, <1>8, <1>9, <1>10, <1>11,
     <1>12, <1>13, <1>14, <1>15, <1>16 DEF Next

(* An entry never gets newer than the last set_online for its user: ZADD   *)
(* writes a clock that was read then or earlier, and only a join makes the *)
(* last call later.                                                        *)
LEMMA ClockStep == TypeOK /\ ClockInv /\ [Next]_vars => ClockInv'
<1> SUFFICES ASSUME TypeOK, ClockInv, [Next]_vars
             PROVE  ClockInv'
  OBVIOUS
<1> USE PresenceAssumption
    DEF TypeOK, Goto, ReadClock, Register, Registered,
        Forget, ZRem, Running, Joining, history, ClockInv, Entry
<1>1. CASE Tick
  BY <1>1 DEF Tick
<1>2. ASSUME NEW s \in Sessions, Connect(s) PROVE ClockInv'
  BY <1>2 DEF Connect
<1>3. ASSUME NEW s \in Sessions, ForceDisconnect(s) PROVE ClockInv'
  BY <1>3 DEF ForceDisconnect
<1>4. ASSUME NEW s \in Sessions, JoinRoom(s) PROVE ClockInv'
  BY <1>4 DEF JoinRoom
<1>5. ASSUME NEW s \in Sessions, ZAdd(s) PROVE ClockInv'
  BY <1>5 DEF ZAdd
<1>6. ASSUME NEW s \in Sessions, GetOnlineUsers(s) PROVE ClockInv'
  BY <1>6 DEF GetOnlineUsers
<1>7. ASSUME NEW s \in Sessions, Prune(s) PROVE ClockInv'
  BY <1>7 DEF Prune
<1>8. ASSUME NEW s \in Sessions, Range(s) PROVE ClockInv'
  BY <1>8 DEF Range
<1>9. ASSUME NEW s \in Sessions, SendList(s) PROVE ClockInv'
  BY <1>9 DEF SendList
<1>10. ASSUME NEW s \in Sessions, LeaveRoom(s) PROVE ClockInv'
  BY <1>10 DEF LeaveRoom
<1>11. ASSUME NEW s \in Sessions, SetOffline(s) PROVE ClockInv'
  BY <1>11 DEF SetOffline
<1>12. ASSUME NEW s \in Sessions, EndLoop(s) PROVE ClockInv'
  BY <1>12 DEF EndLoop
<1>13. ASSUME NEW s \in Sessions, Cleanup(s) PROVE ClockInv'
  BY <1>13 DEF Cleanup
<1>14. ASSUME NEW s \in Sessions, CleanupError(s) PROVE ClockInv'
  BY <1>14 DEF CleanupError
<1>15. ASSUME NEW i \in Instances, Crash(i) PROVE ClockInv'
  BY <1>15 DEF Crash
<1>16. CASE UNCHANGED vars
  BY <1>16 DEF vars
<1> QED
  BY <1>1, <1>2, <1>3, <1>4, <1>5, <1>6, <1>7, <1>8, <1>9, <1>10, <1>11,
     <1>12, <1>13, <1>14, <1>15, <1>16 DEF Next

(* ZRANGEBYSCORE returns scores from the cutoff on, and two clocks differ  *)
(* by the skew at most, so the last join is recent.                        *)
LEMMA ListStep ==
  TypeOK /\ ClockInv /\ ListIsRecent /\ [Next]_vars => ListIsRecent'
<1> SUFFICES ASSUME TypeOK, ClockInv, ListIsRecent, [Next]_vars
             PROVE  ListIsRecent'
  OBVIOUS
<1> USE PresenceAssumption
    DEF TypeOK, Goto, ReadClock, Register, Registered,
        Forget, ZRem, Running, Joining, history,
        ClockInv, ListIsRecent, Entry
<1>1. CASE Tick
  BY <1>1 DEF Tick
<1>2. ASSUME NEW s \in Sessions, Connect(s) PROVE ListIsRecent'
  BY <1>2 DEF Connect
<1>3. ASSUME NEW s \in Sessions, ForceDisconnect(s) PROVE ListIsRecent'
  BY <1>3 DEF ForceDisconnect
<1>4. ASSUME NEW s \in Sessions, JoinRoom(s) PROVE ListIsRecent'
  <2>1. UNCHANGED online /\ online[s] = {}
    BY <1>4 DEF JoinRoom
  <2>2. \A t \in Sessions \ {s} : stamp'[t] = stamp[t]
    BY <1>4 DEF JoinRoom
  <2>3. \A u \in Users : last'[u] >= last[u] /\ last'[u] \in Nat
    BY <1>4 DEF JoinRoom
  <2>4. ASSUME NEW t \in Sessions, NEW u \in online'[t]
        PROVE  stamp'[t] - last'[u] <= timeout + Skew
    <3>1. t # s /\ u \in online[t] /\ u \in Users
      BY <2>1, <2>4
    <3>2. stamp[t] - last[u] <= timeout + Skew
      BY <3>1
    <3>3. stamp[t] \in Int /\ last[u] \in Int
      BY <3>1
    <3> QED
      BY <2>2, <2>3, <3>1, <3>2, <3>3
  <2> QED
    BY <2>4
<1>5. ASSUME NEW s \in Sessions, ZAdd(s) PROVE ListIsRecent'
  BY <1>5 DEF ZAdd
<1>6. ASSUME NEW s \in Sessions, GetOnlineUsers(s) PROVE ListIsRecent'
  BY <1>6 DEF GetOnlineUsers
<1>7. ASSUME NEW s \in Sessions, Prune(s) PROVE ListIsRecent'
  BY <1>7 DEF Prune
<1>8. ASSUME NEW s \in Sessions, Range(s) PROVE ListIsRecent'
  BY <1>8 DEF Range, Score, Cutoff
<1>9. ASSUME NEW s \in Sessions, SendList(s) PROVE ListIsRecent'
  BY <1>9 DEF SendList
<1>10. ASSUME NEW s \in Sessions, LeaveRoom(s) PROVE ListIsRecent'
  BY <1>10 DEF LeaveRoom
<1>11. ASSUME NEW s \in Sessions, SetOffline(s) PROVE ListIsRecent'
  BY <1>11 DEF SetOffline
<1>12. ASSUME NEW s \in Sessions, EndLoop(s) PROVE ListIsRecent'
  BY <1>12 DEF EndLoop
<1>13. ASSUME NEW s \in Sessions, Cleanup(s) PROVE ListIsRecent'
  BY <1>13 DEF Cleanup
<1>14. ASSUME NEW s \in Sessions, CleanupError(s) PROVE ListIsRecent'
  BY <1>14 DEF CleanupError
<1>15. ASSUME NEW i \in Instances, Crash(i) PROVE ListIsRecent'
  BY <1>15 DEF Crash
<1>16. CASE UNCHANGED vars
  BY <1>16 DEF vars
<1> QED
  BY <1>1, <1>2, <1>3, <1>4, <1>5, <1>6, <1>7, <1>8, <1>9, <1>10, <1>11,
     <1>12, <1>13, <1>14, <1>15, <1>16 DEF Next

(* As long as no connection of a user was evicted, dropped or lost, his    *)
(* running sessions are registered, so that a join is recorded at the      *)
(* session that handles it.                                                *)
LEMMA RegisteredStep ==
  TypeOK /\ RegisteredInv /\ [Next]_vars => RegisteredInv'
<1> SUFFICES ASSUME TypeOK, RegisteredInv, [Next]_vars
             PROVE  RegisteredInv'
  OBVIOUS
<1> USE PresenceAssumption
    DEF TypeOK, Goto, ReadClock, Register, Registered,
        Forget, ZRem, Running, Joining, history, RegisteredInv
<1>1. CASE Tick
  BY <1>1 DEF Tick
<1>2. ASSUME NEW s \in Sessions, Connect(s) PROVE RegisteredInv'
  BY <1>2 DEF Connect
<1>3. ASSUME NEW s \in Sessions, ForceDisconnect(s) PROVE RegisteredInv'
  BY <1>3 DEF ForceDisconnect
<1>4. ASSUME NEW s \in Sessions, JoinRoom(s) PROVE RegisteredInv'
  BY <1>4 DEF JoinRoom
<1>5. ASSUME NEW s \in Sessions, ZAdd(s) PROVE RegisteredInv'
  BY <1>5 DEF ZAdd
<1>6. ASSUME NEW s \in Sessions, GetOnlineUsers(s) PROVE RegisteredInv'
  BY <1>6 DEF GetOnlineUsers
<1>7. ASSUME NEW s \in Sessions, Prune(s) PROVE RegisteredInv'
  BY <1>7 DEF Prune
<1>8. ASSUME NEW s \in Sessions, Range(s) PROVE RegisteredInv'
  BY <1>8 DEF Range
<1>9. ASSUME NEW s \in Sessions, SendList(s) PROVE RegisteredInv'
  BY <1>9 DEF SendList
<1>10. ASSUME NEW s \in Sessions, LeaveRoom(s) PROVE RegisteredInv'
  BY <1>10 DEF LeaveRoom
<1>11. ASSUME NEW s \in Sessions, SetOffline(s) PROVE RegisteredInv'
  BY <1>11 DEF SetOffline
<1>12. ASSUME NEW s \in Sessions, EndLoop(s) PROVE RegisteredInv'
  <2>1. CASE UNCHANGED connections
    BY <1>12, <2>1 DEF EndLoop
  <2>2. CASE Register(s, NoSession) /\ pc' = [pc EXCEPT ![s] = "ended"]
    <3>1. ASSUME NEW t \in Sessions, UserOf[t] \notin broken',
                 pc'[t] \in Running
          PROVE  UserOf[t] # UserOf[s] \/ InstanceOf[t] # InstanceOf[s]
      BY <1>12, <2>2, <3>1 DEF EndLoop
    <3> QED
      BY <1>12, <2>2, <3>1 DEF EndLoop
  <2> QED
    BY <1>12, <2>1, <2>2 DEF EndLoop
<1>13. ASSUME NEW s \in Sessions, Cleanup(s) PROVE RegisteredInv'
  BY <1>13 DEF Cleanup
<1>14. ASSUME NEW s \in Sessions, CleanupError(s) PROVE RegisteredInv'
  BY <1>14 DEF CleanupError
<1>15. ASSUME NEW i \in Instances, Crash(i) PROVE RegisteredInv'
  BY <1>15 DEF Crash
<1>16. CASE UNCHANGED vars
  BY <1>16 DEF vars
<1> QED
  BY <1>1, <1>2, <1>3, <1>4, <1>5, <1>6, <1>7, <1>8, <1>9, <1>10, <1>11,
     <1>12, <1>13, <1>14, <1>15, <1>16 DEF Next

(* A session that has set the entry keeps the room in conn.rooms until it  *)
(* leaves, and its cleanup removes the entry.                              *)
LEMMA OnlineStep ==
  /\ TypeOK /\ ClockInv /\ RegisteredInv /\ OnlineHasCause
  /\ [Next]_vars
  => OnlineHasCause'
<1> SUFFICES ASSUME TypeOK, ClockInv, RegisteredInv, OnlineHasCause,
                    [Next]_vars
             PROVE  OnlineHasCause'
  OBVIOUS
<1> USE PresenceAssumption
    DEF TypeOK, Goto, ReadClock, Register, Registered,
        Forget, ZRem, Running, Joining, history,
        ClockInv, RegisteredInv, OnlineHasCause, Entry
<1>1. CASE Tick
  BY <1>1 DEF Tick
<1>2. ASSUME NEW s \in Sessions, Connect(s) PROVE OnlineHasCause'
  BY <1>2 DEF Connect
<1>3. ASSUME NEW s \in Sessions, ForceDisconnect(s) PROVE OnlineHasCause'
  BY <1>3 DEF ForceDisconnect
<1>4. ASSUME NEW s \in Sessions, JoinRoom(s) PROVE OnlineHasCause'
  BY <1>4 DEF JoinRoom
<1>5. ASSUME NEW s \in Sessions, ZAdd(s) PROVE OnlineHasCause'
  BY <1>5 DEF ZAdd
<1>6. ASSUME NEW s \in Sessions, GetOnlineUsers(s) PROVE OnlineHasCause'
  BY <1>6 DEF GetOnlineUsers
<1>7. ASSUME NEW s \in Sessions, Prune(s) PROVE OnlineHasCause'
  BY <1>7 DEF Prune
<1>8. ASSUME NEW s \in Sessions, Range(s) PROVE OnlineHasCause'
  BY <1>8 DEF Range
<1>9. ASSUME NEW s \in Sessions, SendList(s) PROVE OnlineHasCause'
  BY <1>9 DEF SendList
<1>10. ASSUME NEW s \in Sessions, LeaveRoom(s) PROVE OnlineHasCause'
  BY <1>10 DEF LeaveRoom
<1>11. ASSUME NEW s \in Sessions, SetOffline(s) PROVE OnlineHasCause'
  BY <1>11 DEF SetOffline
<1>12. ASSUME NEW s \in Sessions, EndLoop(s) PROVE OnlineHasCause'
  BY <1>12 DEF EndLoop
<1>13. ASSUME NEW s \in Sessions, Cleanup(s) PROVE OnlineHasCause'
  BY <1>13 DEF Cleanup
<1>14. ASSUME NEW s \in Sessions, CleanupError(s) PROVE OnlineHasCause'
  BY <1>14 DEF CleanupError
<1>15. ASSUME NEW i \in Instances, Crash(i) PROVE OnlineHasCause'
  BY <1>15 DEF Crash
<1>16. CASE UNCHANGED vars
  BY <1>16 DEF vars
<1> QED
  BY <1>1, <1>2, <1>3, <1>4, <1>5, <1>6, <1>7, <1>8, <1>9, <1>10, <1>11,
     <1>12, <1>13, <1>14, <1>15, <1>16 DEF Next

-----------------------------------------------------------------------------
(* The sessions of the chat endpoint keep the inductive invariant.         *)
THEOREM PresenceInvariant == Spec => []PresenceInv
<1>1. PresenceInv /\ [Next]_vars => PresenceInv'
  BY TypeStep, ClockStep, ListStep, RegisteredStep, OnlineStep
  DEF PresenceInv
<1> QED
  BY InitInv, <1>1, PTL DEF Spec

(* No list of online users shows a user later than the timeout, and the    *)
(* difference of the clocks, after the last set_online for him, crashed    *)
(* sessions and delayed calls of Redis included.                           *)
THEOREM ListShowsRecentJoins == Spec => []ListIsRecent
  BY PresenceInvariant, PTL DEF PresenceInv

(* A user none of whose sessions was evicted, dropped or lost is online    *)
(* only as long as the session that has called set_online runs and will    *)
(* call set_offline.                                                       *)
THEOREM OnlineUsersHaveSessions == Spec => []OnlineHasCause
  BY PresenceInvariant, PTL DEF PresenceInv

(* Only a leave or a cleanup of a session of the user, or a prune after    *)
(* the timeout, less the difference of the clocks, removes an entry.       *)
THEOREM NobodyRemovedWithoutCause == Spec => RemovedForCause
<1> DEFINE Removed(u) == presence[u] # NoEntry /\ presence'[u] = NoEntry
<1> DEFINE Cause(u) ==
      \/ \E s \in Sessions :
           /\ UserOf[s] = u
           /\ pc[s] \in {"zrem", "cleanup"} /\ pc'[s] # pc[s]
      \/ \E s \in Sessions :
           /\ pc[s] = "prune"
           /\ stamp[s] - presence[u].at >= timeout - Skew
<1>1. PresenceInv /\ [Next]_vars
        => [\A u \in Users : Removed(u) => Cause(u)]_vars
  <2> SUFFICES ASSUME PresenceInv, Next, NEW u \in Users, Removed(u)
               PROVE  Cause(u)
    OBVIOUS
  <2> USE PresenceAssumption DEF PresenceInv, TypeOK, Goto, ZRem, Entry
  <2>1. ASSUME NEW s \in Sessions, Prune(s) PROVE Cause(u)
    BY <2>1 DEF Prune, Score, Cutoff
  <2>2. ASSUME NEW s \in Sessions, SetOffline(s) \/ Cleanup(s) PROVE Cause(u)
    BY <2>2 DEF SetOffline, Cleanup, Running, Joining
  <2>3. ASSUME NEW s \in Sessions, ZAdd(s) PROVE FALSE
    BY <2>3 DEF ZAdd
  <2>4. CASE UNCHANGED presence
    BY <2>4
  <2>5. \/ UNCHANGED presence
        \/ \E s \in Sessions :
             Prune(s) \/ SetOffline(s) \/ Cleanup(s) \/ ZAdd(s)
    BY DEF Next, Tick, Connect, ForceDisconnect, JoinRoom, GetOnlineUsers,
           Range, SendList, LeaveRoom, EndLoop, CleanupError, Crash
  <2> QED
    BY <2>1, <2>2, <2>3, <2>4, <2>5
<1> QED
  BY PresenceInvariant, <1>1, PTL DEF Spec, RemovedForCause
=============================================================================

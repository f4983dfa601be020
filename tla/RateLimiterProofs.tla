------------------------- MODULE RateLimiterProofs -------------------------
(***************************************************************************)
(* Proofs about RateLimiter, for any limit, window, clock offsets and      *)
(* delays, and any number of concurrent checks.                            *)
(***************************************************************************)
EXTENDS RateLimiter, FiniteSetTheorems, TLAPS

USE ClockAssumption, WindowAssumption

(* The inductive invariant: the sorted set against the history.            *)
LimiterInv == TypeOK /\ IsFiniteSet(zset) /\ WindowInv

(* The fields of an entry of the history.                                  *)
LEMMA EntryType ==
  ASSUME TypeOK, NEW i \in 1..Len(log)
  PROVE  /\ log[i].stamp \in Int
         /\ log[i].at \in Int
         /\ log[i].answer \in Answer
<1>1. log[i] \in Entry
  BY DEF TypeOK
<1> QED
  BY <1>1 DEF Entry

(* A pipeline of check p has run with this answer.                         *)
Ran(p, answer) ==
  /\ pc[p] = "await"
  /\ Pipeline(p)
  /\ Record(p, answer)
  /\ Return(p)
  /\ UNCHANGED now

(* The history grows by one entry at its end.                              *)
LEMMA RanLog ==
  ASSUME TypeOK, NEW p \in Checks, NEW answer \in Answer, Ran(p, answer)
  PROVE  /\ log' \in Seq(Entry)
         /\ Len(log') = Len(log) + 1
         /\ \A i \in 1..Len(log) : log'[i] = log[i]
         /\ log'[Len(log) + 1].stamp = stamp[p]
         /\ log'[Len(log) + 1].at = now
         /\ log'[Len(log) + 1].answer = answer
<1> DEFINE e == [stamp |-> stamp[p], at |-> now, answer |-> answer]
<1>1. e \in Entry /\ log' = Append(log, e)
  BY DEF TypeOK, Ran, Record, Entry
<1>2. e.stamp = stamp[p] /\ e.at = now /\ e.answer = answer
  OBVIOUS
<1> HIDE DEF e
<1> QED
  BY <1>1, <1>2 DEF TypeOK

(* The only steps that touch the history are pipelines.                    *)
LEMMA StepShape ==
  ASSUME TypeOK, [Next]_vars
  PROVE  \/ \E p \in Checks, answer \in Answer :
              Ran(p, answer) /\ (answer = "lost" \/ answer = Verdict(p))
         \/ log' = log /\ zset' = zset /\ expires_at' = expires_at
<1>1. ASSUME NEW p \in Checks, Execute(p)
      PROVE  Verdict(p) \in Answer /\ Ran(p, Verdict(p))
  BY <1>1 DEF Execute, Ran, Verdict, Answer
<1>2. ASSUME NEW p \in Checks, ReplyLost(p)
      PROVE  "lost" \in Answer /\ Ran(p, "lost")
  BY <1>2 DEF ReplyLost, Ran, Answer
<1>3. ASSUME NEW p \in Checks, Begin(p) \/ RequestLost(p)
      PROVE  log' = log /\ zset' = zset /\ expires_at' = expires_at
  BY <1>3 DEF Begin, RequestLost
<1>4. CASE Tick
  BY <1>4 DEF Tick
<1>5. CASE UNCHANGED vars
  BY <1>5 DEF vars
<1> QED
  BY <1>1, <1>2, <1>3, <1>4, <1>5 DEF Next

(* What survives the pruning is a finite part of the stored set.           *)
LEMMA InWindowFinite ==
  ASSUME IsFiniteSet(zset), NEW s
  PROVE  IsFiniteSet(InWindow(s)) /\ InWindow(s) \subseteq zset
<1>1. InWindow(s) \subseteq zset
  BY DEF InWindow, Stored
<1> QED
  BY <1>1, FS_Subset

(* The arithmetic of the guaranteed window: a request executed at `at`     *)
(* with timestamp s, and a later pipeline at time t with timestamp u.      *)
LEMMA WindowArithmetic ==
  ASSUME NEW at \in Int, NEW s \in Int, NEW t \in Int, NEW u \in Int,
         s >= at - MaxSkew - MaxDelay, u <= t + MaxSkew, at > t - SafeWindow
  PROVE  s > u - window_seconds
BY DEF SafeWindow

(* A request that executed less than SafeWindow ago is still counted: the  *)
(* pruning and the TTL only drop requests that are older.                  *)
LEMMA RecentIsCounted ==
  ASSUME LimiterInv, NEW p \in Checks, pc[p] = "await",
         NEW i \in 1..Len(log), log[i].at > now - SafeWindow
  PROVE  log[i].stamp \in InWindow(stamp[p])
<1>2. /\ log[i].stamp \in Int /\ log[i].at \in Int /\ now \in Int
      /\ expires_at \in Int
  BY EntryType DEF LimiterInv, TypeOK
<1>3. /\ log[i].stamp >= log[i].at - MaxSkew - MaxDelay
      /\ log[i].at + window_seconds + 1 <= expires_at
      /\ log[i].stamp \in zset \/ log[i].at <= now - SafeWindow
  BY DEF LimiterInv, WindowInv
<1>4. log[i].stamp \in zset
  BY <1>2, <1>3 DEF SafeWindow
<1>5. stamp[p] \in Int /\ stamp[p] <= now + MaxSkew
  BY <1>2 DEF LimiterInv, TypeOK, WindowInv
<1>6. now < expires_at
  BY <1>2, <1>3, SMTT(30) DEF SafeWindow
<1>7. log[i].stamp > stamp[p] - window_seconds
  BY <1>2, <1>3, <1>5, WindowArithmetic
<1> QED
  BY <1>2, <1>4, <1>6, <1>7 DEF InWindow, Stored

(* Initially the history and the sorted set are empty.                     *)
LEMMA InitLimiter == Init => LimiterInv
BY FS_EmptySet DEF Init, LimiterInv, TypeOK, WindowInv, Entry

(* Every step keeps the types and the sorted set finite.                   *)
LEMMA StepLimiterType ==
  ASSUME LimiterInv, [Next]_vars
  PROVE  TypeOK' /\ IsFiniteSet(zset)'
<1> USE DEF LimiterInv, TypeOK
<1>1. ASSUME NEW p \in Checks, NEW answer \in Answer, Ran(p, answer)
      PROVE  TypeOK' /\ IsFiniteSet(zset)'
  <2>1. IsFiniteSet(InWindow(stamp[p])) /\ InWindow(stamp[p]) \subseteq zset
    BY InWindowFinite
  <2>a. zset' = InWindow(stamp[p]) \cup {stamp[p]}
    BY <1>1 DEF Ran, Pipeline
  <2>b. IsFiniteSet(InWindow(stamp[p]) \cup {stamp[p]})
    BY <2>1, FS_AddElement
  <2>c. zset' \in SUBSET Int
    BY <2>1, <2>a
  <2>2. IsFiniteSet(zset') /\ zset' \in SUBSET Int
    BY <2>a, <2>b, <2>c
  <2>3. log' \in Seq(Entry)
    BY <1>1, RanLog
  <2> QED
    BY <1>1, <2>2, <2>3 DEF Ran, Pipeline, Return
<1>2. ASSUME NEW p \in Checks, Begin(p) \/ RequestLost(p)
      PROVE  TypeOK' /\ IsFiniteSet(zset)'
  <2>1. now + Offset[p] \in Int
    OBVIOUS
  <2>2. /\ pc' \in [Checks -> {"idle", "await"}]
        /\ stamp' \in [Checks -> Int]
    <3>1. CASE Begin(p)
      <4>1. /\ pc' = [pc EXCEPT ![p] = "await"]
            /\ stamp' = [stamp EXCEPT ![p] = now + Offset[p]]
        BY <3>1 DEF Begin
      <4> QED
        BY <2>1, <4>1
    <3>2. CASE RequestLost(p)
      BY <3>2 DEF RequestLost, Return
    <3> QED
      BY <1>2, <3>1, <3>2
  <2> QED
    BY <1>2, <2>2 DEF Begin, RequestLost
<1>3. CASE Tick
  BY <1>3 DEF Tick
<1>4. CASE UNCHANGED vars
  BY <1>4 DEF vars
<1>5. ASSUME NEW p \in Checks, Execute(p) \/ ReplyLost(p)
      PROVE  \E answer \in Answer : Ran(p, answer)
  BY <1>5 DEF Execute, ReplyLost, Ran, Verdict, Answer
<1> QED
  BY <1>1, <1>2, <1>3, <1>4, <1>5 DEF Next

(* Every step keeps the sorted set in accord with the history.             *)
LEMMA StepWindow ==
  ASSUME LimiterInv, [Next]_vars
  PROVE  WindowInv'
<1> USE DEF LimiterInv, TypeOK
<1>1. ASSUME NEW p \in Checks, NEW answer \in Answer, Ran(p, answer)
      PROVE  WindowInv'
  <2>0. PICK n \in Nat : n = Len(log)
    BY DEF TypeOK
  <2>1. /\ n \in Nat /\ Len(log') = n + 1
        /\ \A i \in 1..n : log'[i] = log[i]
        /\ log'[n + 1].stamp = stamp[p] /\ log'[n + 1].at = now
    BY <1>1, <2>0, RanLog
  <2>2. /\ now' = now /\ expires_at' = now + window_seconds + 1
        /\ zset' = InWindow(stamp[p]) \cup {stamp[p]}
        /\ stamp[p] >= now - MaxSkew - MaxDelay
        /\ stamp[p] <= now + MaxSkew
        /\ InWindow(stamp[p]) \subseteq zset
    BY <1>1, InWindowFinite DEF Ran, Pipeline, WindowInv
  <2>3. ASSUME NEW i \in 1..n
        PROVE  /\ log[i].at <= now
               /\ log[i].stamp >= log[i].at - MaxSkew - MaxDelay
               /\ log[i].stamp <= log[i].at + MaxSkew
               /\ log[i].at + window_seconds + 1 <= expires_at'
               /\ log[i].stamp \in zset' \/ log[i].at <= now - SafeWindow
    <3>1. log[i].at \in Int /\ log[i].stamp \in Int
      BY <2>0, EntryType
    <3>2. log[i].at > now - SafeWindow => log[i].stamp \in InWindow(stamp[p])
      BY <1>1, <2>0, RecentIsCounted DEF Ran
    <3>3. log[i].at > now - SafeWindow \/ log[i].at <= now - SafeWindow
      BY <3>1, SMTT(30) DEF SafeWindow
    <3>4. /\ log[i].at <= now
          /\ log[i].stamp >= log[i].at - MaxSkew - MaxDelay
          /\ log[i].stamp <= log[i].at + MaxSkew
      BY <2>0 DEF WindowInv
    <3>5. log[i].at + window_seconds + 1 <= expires_at'
      <4>1. log[i].at <= now /\ now \in Int /\ window_seconds \in Int
        BY <3>4
      <4>2. log[i].at + window_seconds + 1 <= now + window_seconds + 1
        BY <3>1, <4>1
      <4> QED
        BY <2>2, <4>2
    <3> QED
      BY <2>2, <3>2, <3>3, <3>4, <3>5
  <2>4. \A i \in 1..Len(log') :
          /\ log'[i].at <= now'
          /\ log'[i].stamp >= log'[i].at - MaxSkew - MaxDelay
          /\ log'[i].stamp <= log'[i].at + MaxSkew
          /\ log'[i].at + window_seconds + 1 <= expires_at'
          /\ log'[i].stamp \in zset' \/ log'[i].at <= now' - SafeWindow
    <3> SUFFICES ASSUME NEW i \in 1..(n + 1)
                 PROVE  /\ log'[i].at <= now'
                        /\ log'[i].stamp >= log'[i].at - MaxSkew - MaxDelay
                        /\ log'[i].stamp <= log'[i].at + MaxSkew
                        /\ log'[i].at + window_seconds + 1 <= expires_at'
                        /\ log'[i].stamp \in zset' \/ log'[i].at <= now' - SafeWindow
      BY <2>1
    <3>1. CASE i \in 1..n
      BY <2>1, <2>2, <2>3, <3>1
    <3>2. CASE i = n + 1
      BY <2>1, <2>2, <3>2, SMTT(30)
    <3> QED
      BY <2>1, <3>1, <3>2
  <2>5. zset' \subseteq {log'[i].stamp : i \in 1..Len(log')}
    <3> SUFFICES ASSUME NEW t \in zset'
                 PROVE  \E i \in 1..(n + 1) : log'[i].stamp = t
      BY <2>1
    <3>1. CASE t = stamp[p]
      <4>1. n + 1 \in 1..(n + 1) /\ log'[n + 1].stamp = t
        BY <2>1, <3>1
      <4> QED
        BY <4>1
    <3>2. CASE t \in zset
      <4>1. PICK i \in 1..n : log[i].stamp = t
        BY <2>0, <3>2 DEF WindowInv
      <4> QED
        BY <2>1, <4>1
    <3> QED
      BY <2>2, <3>1, <3>2
  <2>6. \A q \in Checks : pc'[q] = "await" =>
          /\ stamp'[q] >= now' - MaxSkew - MaxDelay
          /\ stamp'[q] <= now' + MaxSkew
    BY <1>1 DEF Ran, Return, WindowInv
  <2> QED
    BY <2>4, <2>5, <2>6 DEF WindowInv, SafeWindow
<1>2. ASSUME NEW p \in Checks, Begin(p)
      PROVE  WindowInv'
  BY <1>2 DEF Begin, WindowInv, SafeWindow
<1>3. ASSUME NEW p \in Checks, RequestLost(p)
      PROVE  WindowInv'
  BY <1>3 DEF RequestLost, Return, WindowInv, SafeWindow
<1>4. CASE Tick
  <2>1. ASSUME NEW i \in 1..Len(log)
        PROVE  /\ log[i].at <= now'
               /\ log[i].stamp \in zset \/ log[i].at <= now' - SafeWindow
    <3>1. log[i].at \in Int /\ log[i].stamp \in Int
      BY EntryType
    <3>2. now' = now + 1
      BY <1>4 DEF Tick
    <3>3. /\ log[i].at <= now
          /\ log[i].stamp \in zset \/ log[i].at <= now - SafeWindow
      BY DEF WindowInv
    <3> QED
      BY <3>1, <3>2, <3>3, SMTT(30) DEF SafeWindow
  <2>2. ASSUME NEW p \in Checks, pc[p] = "await"
        PROVE  /\ stamp[p] >= now' - MaxSkew - MaxDelay
               /\ stamp[p] <= now' + MaxSkew
    BY <1>4, <2>2, SMTT(30) DEF Tick, WindowInv
  <2> QED
    BY <1>4, <2>1, <2>2 DEF Tick, WindowInv, SafeWindow
<1>5. CASE UNCHANGED vars
  BY <1>5 DEF vars, WindowInv, SafeWindow
<1>6. ASSUME NEW p \in Checks, Execute(p) \/ ReplyLost(p)
      PROVE  \E answer \in Answer : Ran(p, answer)
  BY <1>6 DEF Execute, ReplyLost, Ran, Verdict, Answer
<1> QED
  BY <1>1, <1>2, <1>3, <1>4, <1>5, <1>6 DEF Next

(* A granted pipeline: the requests granted within the guaranteed window   *)
(* have their timestamps in the sorted set, so there are fewer than limit  *)
(* of these before the pipeline adds its own.                              *)
LEMMA StepLimit ==
  ASSUME LimiterInv, WindowLimit, [Next]_vars
  PROVE  WindowLimit'
<1> USE DEF LimiterInv
<1>1. CASE log' = log
  BY <1>1 DEF WindowLimit, GrantedStamps, GrantedWithin, SafeWindow
<1>2. ASSUME NEW p \in Checks, NEW answer \in Answer, Ran(p, answer),
             answer = "lost" \/ answer = Verdict(p)
      PROVE  WindowLimit'
  <2>0. PICK n \in Nat : n = Len(log)
    BY DEF TypeOK
  <2>1. /\ n \in Nat /\ Len(log') = n + 1
        /\ \A i \in 1..n : log'[i] = log[i]
        /\ log'[n + 1].at = now /\ log'[n + 1].answer = answer
        /\ log'[n + 1].stamp = stamp[p]
    BY <1>2, <2>0, RanLog
  <2>2. ASSUME NEW i \in 1..n, log'[i].answer = "granted"
        PROVE  Cardinality(GrantedStamps(i, SafeWindow)') <= limit
    <3>1. GrantedStamps(i, SafeWindow)' = GrantedStamps(i, SafeWindow)
      BY <2>1 DEF GrantedStamps, GrantedWithin, SafeWindow
    <3> QED
      BY <2>0, <2>1, <2>2, <3>1 DEF WindowLimit
  <2>3. ASSUME answer = "granted"
        PROVE  Cardinality(GrantedStamps(n + 1, SafeWindow)') <= limit
    <3> DEFINE W == InWindow(stamp[p])
    <3> DEFINE G == GrantedStamps(n + 1, SafeWindow)'
    <3>1. IsFiniteSet(W) /\ Cardinality(W) \in Nat /\ Cardinality(W) < limit
      <4>1. IsFiniteSet(W)
        BY InWindowFinite
      <4>2. Cardinality(W) \in Nat
        BY <4>1, FS_CardinalityType
      <4> QED
        BY <1>2, <2>3, <4>1, <4>2 DEF Verdict
    <3>2. G \subseteq W \cup {stamp[p]}
      <4>1. G = {log'[j].stamp : j \in {k \in 1..(n + 1) :
                    /\ log'[k].answer = "granted"
                    /\ log'[k].at > log'[n + 1].at - SafeWindow}}
        BY DEF GrantedStamps, GrantedWithin, SafeWindow
      <4>2. \A j \in 1..n : log[j].at > now - SafeWindow => log[j].stamp \in W
        BY <1>2, <2>0, RecentIsCounted DEF Ran
      <4> HIDE DEF W
      <4> QED
        BY <2>1, <4>1, <4>2
    <3> HIDE DEF G, W
    <3>3. /\ IsFiniteSet(W \cup {stamp[p]})
          /\ Cardinality(W \cup {stamp[p]}) \in Nat
          /\ Cardinality(W \cup {stamp[p]}) <= Cardinality(W) + 1
      <4>1. /\ IsFiniteSet(W \cup {stamp[p]})
            /\ Cardinality(W \cup {stamp[p]}) =
                 IF stamp[p] \in W THEN Cardinality(W) ELSE Cardinality(W) + 1
        BY <3>1, FS_AddElement
      <4> QED
        BY <3>1, <4>1
    <3>4. IsFiniteSet(G) /\ Cardinality(G) <= Cardinality(W \cup {stamp[p]})
      BY <3>2, <3>3, FS_Subset
    <3>5. Cardinality(G) \in Nat
      BY <3>4, FS_CardinalityType
    <3>6. Cardinality(G) <= limit
      BY <3>1, <3>3, <3>4, <3>5
    <3> QED
      BY <3>6 DEF G
  <2> SUFFICES ASSUME NEW i \in 1..(n + 1), log'[i].answer = "granted"
               PROVE  Cardinality(GrantedStamps(i, SafeWindow)') <= limit
    BY <2>1 DEF WindowLimit
  <2>4. CASE i \in 1..n
    BY <2>2, <2>4
  <2>5. CASE i = n + 1
    BY <2>1, <2>3, <2>5
  <2> QED
    BY <2>1, <2>4, <2>5
<1> QED
  BY <1>1, <1>2, StepShape

(* A refused pipeline: each timestamp it counted was brought by a request  *)
(* that executed within the wide window.                                   *)
LEMMA StepEarned ==
  ASSUME LimiterInv, DenialIsEarned, [Next]_vars
  PROVE  DenialIsEarned'
<1> USE DEF LimiterInv
<1>1. CASE log' = log
  BY <1>1 DEF DenialIsEarned, WideWindow
<1>2. ASSUME NEW p \in Checks, NEW answer \in Answer, Ran(p, answer),
             answer = "lost" \/ answer = Verdict(p)
      PROVE  DenialIsEarned'
  <2>0. PICK n \in Nat : n = Len(log)
    BY DEF TypeOK
  <2>1. /\ n \in Nat /\ Len(log') = n + 1
        /\ \A i \in 1..n : log'[i] = log[i]
        /\ log'[n + 1].at = now /\ log'[n + 1].answer = answer
    BY <1>2, <2>0, RanLog
  <2> DEFINE Before(i) == {j \in 1..(i - 1) : log[j].at > log[i].at - WideWindow}
  <2> DEFINE D == {j \in 1..n : log[j].at > now - WideWindow}
  <2>2. ASSUME answer = "denied"
        PROVE  Cardinality(D) >= limit
    <3> DEFINE W == InWindow(stamp[p])
    <3> DEFINE S == {j \in 1..n : log[j].stamp \in W}
    <3> DEFINE f == [j \in S |-> log[j].stamp]
    <3>1. IsFiniteSet(W) /\ W \subseteq zset
      BY InWindowFinite
    <3>2. Cardinality(W) \in Nat /\ Cardinality(W) >= limit
      BY <1>2, <2>2, <3>1, FS_CardinalityType DEF Verdict
    <3>3. f \in Surjection(S, W)
      <4>1. \A t \in W : \E j \in S : f[j] = t
        BY <2>0, <3>1 DEF WindowInv
      <4> QED
        BY <4>1 DEF Surjection
    <3>4. IsFiniteSet(1..n)
      BY <2>1, FS_Interval
    <3>5. S \subseteq D
      <4> SUFFICES ASSUME NEW j \in S PROVE log[j].at > now - WideWindow
        OBVIOUS
      <4>1. log[j].at \in Int /\ log[j].stamp \in Int
        BY <2>0, EntryType
      <4>2. log[j].stamp <= log[j].at + MaxSkew
        BY <2>0 DEF WindowInv
      <4>3. stamp[p] \in Int /\ now \in Int /\ stamp[p] >= now - MaxSkew - MaxDelay
        BY <1>2 DEF TypeOK, WindowInv, Ran
      <4>4. log[j].stamp > stamp[p] - window_seconds
        BY DEF InWindow
      <4> QED
        BY <4>1, <4>2, <4>3, <4>4 DEF WideWindow
    <3>6. IsFiniteSet(S) /\ IsFiniteSet(D)
      BY <3>4, FS_Subset
    <3> HIDE DEF D, W, S, f
    <3>7. Cardinality(W) <= Cardinality(S) /\ Cardinality(S) <= Cardinality(D)
      BY <3>3, <3>5, <3>6, FS_Surjection, FS_Subset
    <3>8. Cardinality(S) \in Nat /\ Cardinality(D) \in Nat
      BY <3>6, FS_CardinalityType
    <3> QED
      BY <3>2, <3>7, <3>8
  <2>3. ASSUME NEW i \in 1..n
        PROVE  Before(i)' = Before(i)
    BY <2>1 DEF WideWindow
  <2>4. Before(n + 1)' = D
    BY <2>1 DEF WideWindow
  <2> SUFFICES ASSUME NEW i \in 1..(n + 1), log'[i].answer = "denied"
               PROVE  Cardinality(Before(i)') >= limit
    BY <2>1 DEF DenialIsEarned, WideWindow
  <2>5. CASE i \in 1..n
    BY <2>0, <2>1, <2>3, <2>5 DEF DenialIsEarned
  <2>6. CASE i = n + 1
    BY <2>1, <2>2, <2>4, <2>6
  <2> QED
    BY <2>1, <2>5, <2>6
<1> QED
  BY <1>1, <1>2, StepShape

(* The sorted set is in accord with the history in every reachable state.  *)
THEOREM LimiterInvariance == Spec => []LimiterInv
<1>1. LimiterInv /\ [Next]_vars => LimiterInv'
  BY StepLimiterType, StepWindow DEF LimiterInv
<1> QED
  BY <1>1, InitLimiter, PTL DEF Spec

(* Whatever the interleaving of the instances' pipelines, the requests     *)
(* granted to a client in any interval of the guaranteed length carry at   *)
(* most limit timestamps.                                                  *)
THEOREM LimitHolds == Spec => []WindowLimit
<1>1. Init => WindowLimit
  BY DEF Init, WindowLimit
<1>2. LimiterInv /\ WindowLimit /\ [Next]_vars => WindowLimit'
  BY StepLimit
<1> QED
  BY <1>1, <1>2, LimiterInvariance, PTL DEF Spec

(* No client is refused for requests that have left the window.            *)
THEOREM DenialsEarned == Spec => []DenialIsEarned
<1>1. Init => DenialIsEarned
  BY DEF Init, DenialIsEarned
<1>2. LimiterInv /\ DenialIsEarned /\ [Next]_vars => DenialIsEarned'
  BY StepEarned
<1> QED
  BY <1>1, <1>2, LimiterInvariance, PTL DEF Spec
=============================================================================

---------------------------- MODULE RateLimiter ----------------------------
(***************************************************************************)
(* RateLimiter.check_rate_limit (app/core/rate_limiter.py) on one key: a   *)
(* sliding window kept in a Redis sorted set that every instance shares.   *)
(*                                                                         *)
(* A check reads its instance's clock, then awaits one MULTI/EXEC pipeline *)
(* that prunes, counts, adds and renews the key's TTL.  Between the two    *)
(* the pipelines of other instances, or of another session of the same     *)
(* user, may run.  The member of the sorted set is the text of the         *)
(* timestamp and its score is the timestamp, so the sorted set is modelled *)
(* as the set of the timestamps in it.  Keys do not interact; one suffices.*)
(***************************************************************************)
EXTENDS Integers, Sequences, FiniteSets

CONSTANTS
  Checks,          \* coroutines that run check_rate_limit, on any instance
  Offset,          \* by how much the clock of each one's instance is ahead
  limit,           \* maximum number of requests in the window
  window_seconds,  \* length of the window
  MaxSkew,         \* bound on the clock offsets
  MaxDelay,        \* bound on the time between clock reading and execution
  MaxTime,         \* bound: the clock stops here
  MaxRequests      \* bound: pipelines executed

ASSUME ClockAssumption ==
  /\ MaxSkew \in Nat /\ MaxDelay \in Nat /\ MaxTime \in Nat
  /\ Offset \in [Checks -> (-MaxSkew)..MaxSkew]
ASSUME WindowAssumption ==
  /\ limit \in Nat
  /\ window_seconds \in Nat
  /\ MaxRequests \in Nat

VARIABLES
  now,         \* real time, also the time of the Redis server
  zset,        \* the sorted set stored under the key
  expires_at,  \* when Redis drops the key
  pc,          \* per check: "idle", or "await" its pipeline
  stamp,       \* per check: the local variable `now`
  log          \* history: the pipelines executed, in order

vars == <<now, zset, expires_at, pc, stamp, log>>

Answer == {"granted", "denied", "lost"}
Entry == [stamp : Int, at : Int, answer : Answer]

TypeOK ==
  /\ now \in Int
  /\ zset \in SUBSET Int
  /\ expires_at \in Int
  /\ pc \in [Checks -> {"idle", "await"}]
  /\ stamp \in [Checks -> Int]
  /\ log \in Seq(Entry)

Init ==
  /\ now = 0
  /\ zset = {}
  /\ expires_at = 0
  /\ pc = [p \in Checks |-> "idle"]
  /\ stamp = [p \in Checks |-> 0]
  /\ log = << >>

-----------------------------------------------------------------------------
(* now = time.time() on the check's instance; then the pipeline is sent.   *)
Begin(p) ==
  /\ pc[p] = "idle"
  /\ pc' = [pc EXCEPT ![p] = "await"]
  /\ stamp' = [stamp EXCEPT ![p] = now + Offset[p]]
  /\ UNCHANGED <<now, zset, expires_at, log>>

(* The key's contents as Redis sees them: nothing once the TTL is over.    *)
Stored == IF now >= expires_at THEN {} ELSE zset

(* Faulty variant: nothing is pruned.                                      *)
InWindowUnpruned(s) == Stored

(* zremrangebyscore(key, 0, window_start) leaves these (scores are epoch   *)
(* seconds, so the lower end of the range excludes nothing).               *)
InWindow(s) == {t \in Stored : t > s - window_seconds}

(* The pipeline: prune, count, add, renew the TTL.  Denied requests are    *)
(* added too.                                                              *)
Pipeline(p) ==
  /\ zset' = InWindow(stamp[p]) \cup {stamp[p]}
  /\ expires_at' = now + window_seconds + 1

(* Faulty variant: one request too many.                                   *)
VerdictOffByOne(p) ==
  IF Cardinality(InWindow(stamp[p])) > limit THEN "denied" ELSE "granted"

(* zcard is taken before the request's own zadd.                           *)
Verdict(p) ==
  IF Cardinality(InWindow(stamp[p])) >= limit THEN "denied" ELSE "granted"

Record(p, answer) ==
  log' = Append(log, [stamp |-> stamp[p], at |-> now, answer |-> answer])

(* check_rate_limit returns or raises; its local variables are gone.       *)
Return(p) ==
  /\ pc' = [pc EXCEPT ![p] = "idle"]
  /\ stamp' = [stamp EXCEPT ![p] = 0]

(* The pipeline executes and its results come back.                        *)
Execute(p) ==
  /\ pc[p] = "await"
  /\ Len(log) < MaxRequests
  /\ Pipeline(p)
  /\ Record(p, Verdict(p))
  /\ Return(p)
  /\ UNCHANGED now

(* execute() raises: the pipeline has run and its reply is lost.  The      *)
(* caller in chat.py treats every exception as a refusal.                  *)
ReplyLost(p) ==
  /\ pc[p] = "await"
  /\ Len(log) < MaxRequests
  /\ Pipeline(p)
  /\ Record(p, "lost")
  /\ Return(p)
  /\ UNCHANGED now

(* execute() raises before Redis has run the pipeline.                     *)
RequestLost(p) ==
  /\ pc[p] = "await"
  /\ Return(p)
  /\ UNCHANGED <<now, zset, expires_at, log>>

(* Time passes; MaxDelay bounds how long a pipeline stays under way.       *)
Tick ==
  /\ now < MaxTime
  /\ \A p \in Checks :
       pc[p] = "await" => now + 1 <= stamp[p] - Offset[p] + MaxDelay
  /\ now' = now + 1
  /\ UNCHANGED <<zset, expires_at, pc, stamp, log>>

Next ==
  \/ \E p \in Checks : Begin(p) \/ Execute(p) \/ ReplyLost(p) \/ RequestLost(p)
  \/ Tick

Spec == Init /\ [][Next]_vars

-----------------------------------------------------------------------------
(* Properties.                                                             *)

(* The window that is guaranteed: skew and delay eat into it at both ends. *)
SafeWindow == window_seconds - MaxSkew - MaxSkew - MaxDelay

(* And the one a refusal may look back over.                               *)
WideWindow == window_seconds + MaxSkew + MaxSkew + MaxDelay

(* The requests granted up to and including the i-th, within the given     *)
(* time before it.                                                         *)
GrantedWithin(i, length) ==
  {j \in 1..i : log[j].answer = "granted" /\ log[j].at > log[i].at - length}

(* The timestamps they carry.                                              *)
GrantedStamps(i, length) == {log[j].stamp : j \in GrantedWithin(i, length)}

(* "limit: Maximum requests allowed in the window": whichever instances    *)
(* execute and in whatever order, the granted requests of the interval of  *)
(* the guaranteed length that ends with a granted one carry at most limit  *)
(* timestamps.  (Requests with equal timestamps share one member of the    *)
(* sorted set, so the code counts them once.)                              *)
WindowLimit ==
  \A i \in 1..Len(log) : log[i].answer = "granted" =>
    Cardinality(GrantedStamps(i, SafeWindow)) <= limit

(* A refusal is earned: at least limit other requests reached Redis within *)
(* the window before it.  An entry that should have been pruned, or that   *)
(* outlives its key, never counts against a client.                        *)
DenialIsEarned ==
  \A i \in 1..Len(log) : log[i].answer = "denied" =>
    Cardinality({j \in 1..(i - 1) : log[j].at > log[i].at - WideWindow})
      >= limit

(* What the sorted set remembers of the history: every request that can    *)
(* still matter, and nothing but requests.  With this the limit is proved. *)
WindowInv ==
  /\ \A i \in 1..Len(log) :
       /\ log[i].at <= now
       /\ log[i].stamp >= log[i].at - MaxSkew - MaxDelay
       /\ log[i].stamp <= log[i].at + MaxSkew
       /\ log[i].at + window_seconds + 1 <= expires_at
       /\ log[i].stamp \in zset \/ log[i].at <= now - SafeWindow
  /\ zset \subseteq {log[i].stamp : i \in 1..Len(log)}
  /\ \A p \in Checks : pc[p] = "await" =>
       /\ stamp[p] >= now - MaxSkew - MaxDelay
       /\ stamp[p] <= now + MaxSkew
=============================================================================

------------------------------ MODULE RateLimit ------------------------------
(***************************************************************************)
(* RateLimitStore (apps/rate-limit): counts of accepted requests in        *)
(* buckets of time, one Durable Object for all keys of a shard, and        *)
(* increment, which decides by whole buckets what the configuration says   *)
(* of sliding windows.  Time is counted in ticks that divide a bucket.     *)
(* What a request counts for is the creditCost of its model, which may be  *)
(* a fraction (0.36, 1.2) or 0: limits and costs are counted in a unit of  *)
(* which all of them are multiples, and rounding is left out.              *)
(* Every change is persisted before the answer, so a restart loses nothing *)
(* and is not an action.                                                   *)
(***************************************************************************)
EXTENDS Integers, FiniteSets, FiniteSetsExt

CONSTANTS
  LimitKeys,    \* the keys that share the object ("platform:...")
  Config,       \* Config[k]: the limits a request of key k is sent with
  Costs,        \* what a request may count for (1, or creditCost), in units
  BucketSize,   \* ticks of a bucket
  Day,          \* ticks of the daily window
  CleanupEvery, \* ticks between two cleanups
  MaxTime       \* bound: the clock

\* limit of 0 means that the configuration has no such limit.
ConfigType == [limit : Nat \ {0}, period : Nat \ {0},
               burst : Nat, burstWindow : Nat \ {0}, dailyLimit : Nat]

ASSUME RateLimitAssumption ==
  /\ Config \in [LimitKeys -> ConfigType]
  /\ Costs \subseteq Nat /\ IsFiniteSet(Costs) /\ Costs # {}
  /\ BucketSize \in Nat \ {0} /\ Day \in Nat \ {0}
  /\ CleanupEvery \in Nat /\ MaxTime \in Nat

VARIABLES
  now,         \* Date.now()
  buckets,     \* state.buckets, by key and number of the bucket; count 0: no entry
  lastCleanup, \* state.lastCleanup
  accepted     \* history: what was accepted, by key and tick, since the last reset

limitVars == <<now, buckets, lastCleanup, accepted>>

Times == 0..MaxTime
Indexes == 0..(MaxTime \div BucketSize)
NoBucket == [count |-> 0, timestamp |-> 0]

\* Types of the state.
LimitTypeOK ==
  /\ now \in Times
  /\ buckets \in [LimitKeys -> [Indexes -> [count : Nat, timestamp : Times]]]
  /\ lastCleanup \in Times
  /\ accepted \in [LimitKeys -> [Times -> Nat]]

LimitInit ==
  /\ now = 0
  /\ buckets = [k \in LimitKeys |-> [i \in Indexes |-> NoBucket]]
  /\ lastCleanup = 0
  /\ accepted = [k \in LimitKeys |-> [t \in Times |-> 0]]

-----------------------------------------------------------------------------
\* The windows of a configuration, with the limit that holds in each.
Windows(c) ==
  {[ticks |-> c.period, limit |-> c.limit]}
    \cup (IF c.burst = 0 THEN {} ELSE {[ticks |-> c.burstWindow, limit |-> c.burst]})
    \cup (IF c.dailyLimit = 0 THEN {} ELSE {[ticks |-> Day, limit |-> c.dailyLimit]})

\* Mutant: the first bucket is the one that begins in the window.
BucketsInWindowInside(time, ticks) ==
  ((time - ticks + BucketSize - 1) \div BucketSize)..(time \div BucketSize)

\* Mutant: the first bucket is one too early.
BucketsInWindowWide(time, ticks) ==
  (((time - ticks) \div BucketSize) - 1)..(time \div BucketSize)

\* getBucketsInWindow: from the bucket the window begins in to the current one.
BucketsInWindow(time, ticks) == ((time - ticks) \div BucketSize)..(time \div BucketSize)

CountIn(bs, k, ticks) ==
  MapThenSumSet(LAMBDA i : bs[k][i].count, BucketsInWindow(now, ticks) \cap Indexes)

\* A window whose count has reached its limit: the request is refused.
Exceeded(bs, k) == \E w \in Windows(Config[k]) : CountIn(bs, k, w.ticks) >= w.limit

\* The cutoff of cleanup: the longest of the windows of the key that cleans up,
\* the burst window whether there is a burst limit or not.
LongestWindow(k) ==
  LET c == Config[k]
  IN  Max({c.period, c.burstWindow} \cup (IF c.dailyLimit = 0 THEN {} ELSE {Day}))

\* cleanup: entries of ALL keys whose last increment is before the cutoff.
Cleaned(k) ==
  [j \in LimitKeys |-> [i \in Indexes |->
     IF buckets[j][i].timestamp < now - LongestWindow(k) THEN NoBucket ELSE buckets[j][i]]]

AfterCleanup(k) == IF now - lastCleanup > CleanupEvery THEN Cleaned(k) ELSE buckets

-----------------------------------------------------------------------------
\* increment: clean up when it is time, compare, count.
Increment(k, cost) ==
  LET bs == AfterCleanup(k)
      i  == now \div BucketSize
  IN  /\ lastCleanup' = IF bs # buckets THEN now ELSE lastCleanup
      /\ \/ /\ Exceeded(bs, k)
            /\ buckets' = bs
            /\ UNCHANGED accepted
         \/ /\ ~Exceeded(bs, k)
            /\ buckets' = [bs EXCEPT ![k][i] = [count |-> @.count + cost, timestamp |-> now]]
            /\ accepted' = [accepted EXCEPT ![k][now] = @ + cost]
      /\ UNCHANGED now

\* resetLimit of one key, or of all.
ResetLimit(ks) ==
  /\ buckets' = [k \in LimitKeys |-> IF k \in ks THEN [i \in Indexes |-> NoBucket] ELSE buckets[k]]
  /\ accepted' = [k \in LimitKeys |-> IF k \in ks THEN [t \in Times |-> 0] ELSE accepted[k]]
  /\ UNCHANGED <<now, lastCleanup>>

Tick ==
  /\ now < MaxTime
  /\ now' = now + 1
  /\ UNCHANGED <<buckets, lastCleanup, accepted>>

LimitNext ==
  \/ \E k \in LimitKeys, cost \in Costs : Increment(k, cost)
  \/ \E k \in LimitKeys : ResetLimit({k})
  \/ ResetLimit(LimitKeys)
  \/ Tick

LimitSpec == LimitInit /\ [][LimitNext]_limitVars

-----------------------------------------------------------------------------
(* Properties.                                                             *)

\* What was accepted of key k in the last n ticks.
AcceptedIn(k, n) ==
  MapThenSumSet(LAMBDA t : accepted[k][t], {t \in Times : now - n < t /\ t <= now})

\* No key of the object cleans up with a horizon of less than n ticks.
Covered(n) == \A j \in LimitKeys : LongestWindow(j) >= n

\* "bucketed sliding window": what is accepted in a window of a key, wherever it begins, exceeds its
\* limit by less than what one request counts for (increment compares before it adds) -- as long as
\* no key that shares the object cleans up what the window still covers.  The default settings give
\* every key a daily limit, and with it the horizon that covers all windows.
LimitsHold ==
  \A k \in LimitKeys : \A w \in Windows(Config[k]) :
    Covered(w.ticks) => AcceptedIn(k, w.ticks) < w.limit + Max(Costs)

\* A request is refused only if that much was accepted within a window and one
\* bucket more: whole buckets never refuse for what is longer ago.
RefusalsAreJustified ==
  \A k \in LimitKeys : Exceeded(buckets, k) =>
    \E w \in Windows(Config[k]) : AcceptedIn(k, w.ticks + BucketSize) >= w.limit
=============================================================================

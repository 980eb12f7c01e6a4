------------------------------ MODULE RateLimit ------------------------------
(***************************************************************************)
(* Rate limits of router-service (services/rate_limiter.py and its Lua     *)
(* scripts): a sliding window for all calls, then a token bucket for the   *)
(* user's, kept in Redis and shared by the router processes.  When Redis   *)
(* fails, a process falls back on counters of its own.                     *)
(*                                                                         *)
(* A minute is Window ticks.  Tokens are counted in shares, Window to the  *)
(* token, so that a tick refills UserLimit shares.                         *)
(***************************************************************************)
EXTENDS Integers, FiniteSets, FiniteSetsExt

CONSTANTS Routers,      \* router processes, one call at a time each
          GlobalLimit,  \* RATE_LIMIT_GLOBAL_RPM
          UserLimit,    \* the user's effective RPM
          Window,
          RateHorizon   \* bound: the last tick

ASSUME RateAssumption ==
    /\ IsFiniteSet(Routers)
    /\ GlobalLimit \in Nat \ {0} /\ UserLimit \in Nat \ {0}
    /\ Window \in Nat \ {0} /\ RateHorizon \in Nat

VARIABLES
    zset,      \* zset[t] : members of rl:global with score t
    bucket,    \* rl:user: [shares, last], last -1 when the key is absent
    fallback,  \* fallback[p][tier] : TTLCache entry [count, until]
    redisUp,
    passed,    \* processes whose call has passed the global limit
    at,        \* the time
    admitted   \* ghost: admitted[tier][t] : calls let through at t, for
               \* the last Window ticks

rateVars == <<zset, bucket, fallback, redisUp, passed, at, admitted>>

Ticks == 0..RateHorizon
Tiers == {"global", "user"}

Limit(tier) == IF tier = "global" THEN GlobalLimit ELSE UserLimit

-----------------------------------------------------------------------------
Total(count, from, to) ==
    MapThenSumSet(LAMBDA t : count[t], {t \in Ticks : from <= t /\ t <= to})

RateInit ==
    /\ zset = [t \in Ticks |-> 0]
    /\ bucket = [shares |-> 0, last |-> -1]
    /\ fallback = [p \in Routers |->
                     [tier \in Tiers |-> [count |-> 0, until |-> 0]]]
    /\ redisUp = TRUE
    /\ passed = {}
    /\ at = 0
    /\ admitted = [tier \in Tiers |-> [t \in Ticks |-> 0]]

(* sliding_window.lua: members that have left the window are dropped. *)
InWindow == [t \in Ticks |-> IF t <= at - Window THEN 0 ELSE zset[t]]
WindowFull == Total(InWindow, 0, at) >= GlobalLimit

SlidingWindow ==
    zset' = IF WindowFull THEN InWindow ELSE [InWindow EXCEPT ![at] = @ + 1]

(* token_bucket.lua: a bucket is full at first, and never more than full. *)
Capacity == UserLimit * Window

Refilled ==
    LET more == bucket.shares + (at - bucket.last) * UserLimit
    IN  IF bucket.last < 0 \/ more > Capacity THEN Capacity ELSE more

HasToken == Refilled >= Window

TokenBucket ==
    bucket' = [shares |-> IF HasToken THEN Refilled - Window ELSE Refilled,
               last |-> at]

(* InMemoryRateLimiter.check: every count renews the life of the entry.    *)
Counted(p, tier) == IF at < fallback[p][tier].until THEN fallback[p][tier].count
                  ELSE 0

FallbackAllows(p, tier) == Counted(p, tier) < Limit(tier)

(* Variant: the entry keeps the end of life it was created with. *)
FallbackCountsFixed(p, tier) ==
    fallback' = [fallback EXCEPT ![p][tier] =
                    [count |-> Counted(p, tier) + 1,
                     until |-> IF Counted(p, tier) = 0 THEN at + Window
                               ELSE fallback[p][tier].until]]

FallbackCounts(p, tier) ==
    fallback' = [fallback EXCEPT ![p][tier] =
                    [count |-> Counted(p, tier) + 1, until |-> at + Window]]

Admit(p, tier) ==
    /\ admitted' = [admitted EXCEPT ![tier][at] = @ + 1]
    /\ passed' = IF tier = "global" THEN passed \cup {p} ELSE passed \ {p}

Refuse(p) == passed' = passed \ {p} /\ UNCHANGED admitted

(* The tier's script runs in Redis. *)
Script(tier) ==
    IF tier = "global" THEN SlidingWindow /\ UNCHANGED bucket
    ELSE TokenBucket /\ UNCHANGED zset

Allows(tier) == IF tier = "global" THEN ~WindowFull ELSE HasToken

(* check_global, then check_user, of the call that p is serving. *)
Due(p, tier) == IF tier = "global" THEN p \notin passed ELSE p \in passed

CheckRedis(p, tier) ==
    /\ Due(p, tier) /\ redisUp
    /\ Script(tier)
    /\ IF Allows(tier) THEN Admit(p, tier) ELSE Refuse(p)
    /\ UNCHANGED <<fallback, redisUp, at>>

CheckFallback(p, tier) ==
    /\ IF FallbackAllows(p, tier)
       THEN FallbackCounts(p, tier) /\ Admit(p, tier)
       ELSE UNCHANGED fallback /\ Refuse(p)
    /\ UNCHANGED <<redisUp, at>>

(* Redis is down, or the script runs and its answer is lost. *)
CheckDown(p, tier) ==
    /\ Due(p, tier) /\ ~redisUp
    /\ CheckFallback(p, tier) /\ UNCHANGED <<zset, bucket>>

CheckLost(p, tier) ==
    /\ Due(p, tier) /\ redisUp
    /\ CheckFallback(p, tier) /\ Script(tier)

RedisTurns ==
    /\ redisUp' = ~redisUp
    /\ UNCHANGED <<zset, bucket, fallback, passed, at, admitted>>

RateTick ==
    /\ at < RateHorizon /\ at' = at + 1
    /\ admitted' = [tier \in Tiers |-> [t \in Ticks |->
                       IF t <= at + 1 - Window THEN 0 ELSE admitted[tier][t]]]
    /\ UNCHANGED <<zset, bucket, fallback, redisUp, passed>>

NextRate ==
    \/ \E p \in Routers, tier \in Tiers :
          CheckRedis(p, tier) \/ CheckDown(p, tier) \/ CheckLost(p, tier)
    \/ RedisTurns
    \/ RateTick

RateSpec == RateInit /\ [][NextRate]_rateVars

-----------------------------------------------------------------------------
FallbackEntry == [count : Nat, until : Nat]

RateTypeOK ==
    /\ zset \in [Ticks -> 0..GlobalLimit]
    /\ bucket \in [shares : 0..Capacity, last : Ticks \cup {-1}]
    /\ fallback \in [Routers -> [Tiers -> FallbackEntry]]
    /\ redisUp \in BOOLEAN /\ passed \subseteq Routers /\ at \in Ticks
    /\ admitted \in [Tiers -> [Ticks -> Nat]]

(* Over no minute do more calls pass the global limit than GlobalLimit by  *)
(* Redis and GlobalLimit by each process on its own, however often Redis   *)
(* goes away and comes back; a user gets at most twice UserLimit by the    *)
(* bucket, its capacity and a minute's refill, and UserLimit by each       *)
(* process.                                                                *)
RatesBounded ==
    LET calls(tier) == Total(admitted[tier], 0, at)
        alone == Cardinality(Routers)
    IN  /\ calls("global") <= GlobalLimit * (1 + alone)
        /\ calls("user") <= UserLimit * (2 + alone)
=============================================================================

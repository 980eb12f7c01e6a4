-------------------------- MODULE ChannelSelector --------------------------
(***************************************************************************)
(* ChannelSelector of router-service: which channel (the account of a      *)
(* provider pool) a call to one model goes to.  A channel rests after a    *)
(* failure (cool-down), is disabled after Threshold failures in a row, is  *)
(* unhealthy when the health check of admin-service says so.  Among those  *)
(* left the selector takes one priority, and in it weighted round-robin.   *)
(*                                                                         *)
(* A method of the selector does not await: it is one step.  Times are     *)
(* abstracted: what a clock ends may end at any moment.                    *)
(***************************************************************************)
EXTENDS Integers, FiniteSets, FiniteSetsExt

CONSTANTS Channels,    \* channel slugs, as numbers in the order of the slugs
          Priority,    \* Priority[c], of the channel's pool; higher is first
          Weight,      \* Weight[c], of the account
          Threshold,   \* auto_disable_threshold
          AutoDisable, \* auto_disable_enabled
          Cycle        \* the counter counts modulo Cycle

Share(c) == IF Weight[c] > 1 THEN Weight[c] ELSE 1

TotalShare(S) == MapThenSumSet(Share, S)

ASSUME SelectorAssumption ==
    /\ Channels \subseteq Nat /\ IsFiniteSet(Channels)
    /\ Priority \in [Channels -> Int]
    /\ Weight \in [Channels -> Int]
    /\ Threshold \in Nat \ {0}
    /\ AutoDisable \in BOOLEAN
    /\ Cycle \in Nat \ {0}

(* Modulo Cycle the counter picks what the unbounded one does.             *)
ASSUME CycleAssumption ==
    \A S \in SUBSET Channels : S # {} => Cycle % TotalShare(S) = 0

VARIABLES counter,     \* _counters[model]
          cooling,     \* channels whose _failures entry lies in the future
          failures,    \* _failure_counts, up to Threshold
          disabled,    \* channels whose _disabled_until lies in the future
          unhealthy    \* channels the health cache calls "unhealthy"

selector == <<counter, cooling, failures, disabled, unhealthy>>

InitSelector ==
    /\ counter = 0
    /\ cooling = {}
    /\ failures = [c \in Channels |-> 0]
    /\ disabled = {}
    /\ unhealthy = {}

-----------------------------------------------------------------------------
(* select: what it takes from a list, for a call that excludes some        *)
(* channels and has read that some are at their rate limit.                *)

Resting == cooling \cup disabled

(* Variant: excluded channels are looked at only while others are up.      *)
CandidatesIncludingTried(list, excluded, limited) ==
    LET open == list \ limited
        up   == (open \ excluded) \ (Resting \cup unhealthy)
    IN  IF up # {} THEN up
        ELSE IF open # {} THEN open
        ELSE IF list \ excluded # {} THEN {} ELSE list

(* Variant: _disabled_until is not looked at.                              *)
CandidatesIgnoringDisabled(list, excluded, limited) ==
    LET open == (list \ excluded) \ limited
        up   == open \ (cooling \cup unhealthy)
    IN  IF up # {} THEN up
        ELSE IF open # {} THEN open
        ELSE IF list \ excluded # {} THEN {} ELSE list

(* When none is up, one that rests is better than none; when all are       *)
(* excluded, the list starts over.  None: there are only limited ones.     *)
Candidates(list, excluded, limited) ==
    LET open == (list \ excluded) \ limited
        up   == open \ (Resting \cup unhealthy)
    IN  IF up # {} THEN up
        ELSE IF open # {} THEN open
        ELSE IF list \ excluded # {} THEN {} ELSE list

(* The priorities of S above that of c: c is in the tier of this number.   *)
Above(S, c) == {Priority[d] : d \in {e \in S : Priority[e] > Priority[c]}}

Tiers(S) == {Priority[c] : c \in S}

(* Tier k of S, or the last one. *)
Tier(S, k) ==
    {c \in S : Cardinality(Above(S, c))
                  = IF k < Cardinality(Tiers(S)) THEN k
                    ELSE Cardinality(Tiers(S)) - 1}

Before(S, c) == TotalShare({d \in S : d < c})

(* Variant: the share of a channel ends one later than it should.          *)
PickedInclusive(S, n) ==
    LET reached == {c \in S : n % TotalShare(S) <= Before(S, c) + Share(c)}
    IN  {c \in reached : \A d \in reached : c <= d}

(* The channel whose share of the cycle the counter is in, or else the     *)
(* last one.                                                               *)
Picked(S, n) ==
    LET i   == n % TotalShare(S)
        hit == {c \in S : Before(S, c) <= i /\ i < Before(S, c) + Share(c)}
    IN  IF hit # {} THEN hit ELSE {c \in S : \A d \in S : d <= c}

(* What select returns, when it returns.                                   *)
Selected(list, excluded, tier, limited) ==
    Picked(Tier(Candidates(list, excluded, limited), tier), counter)

CountSelection ==
    /\ counter' = (counter + 1) % Cycle
    /\ UNCHANGED <<cooling, failures, disabled, unhealthy>>

-----------------------------------------------------------------------------
(* Reports. *)

ReportSuccess(c) ==
    /\ cooling' = cooling \ {c}
    /\ failures' = [failures EXCEPT ![c] = 0]
    /\ disabled' = disabled \ {c}
    /\ UNCHANGED <<counter, unhealthy>>

ReportFailure(c) ==
    LET reached == failures[c] + 1 >= Threshold
    IN  /\ cooling' = cooling \cup {c}
        /\ failures' = [failures EXCEPT
                          ![c] = IF reached THEN Threshold ELSE @ + 1]
        /\ disabled' = IF AutoDisable /\ reached
                       THEN disabled \cup {c} ELSE disabled
        /\ UNCHANGED <<counter, unhealthy>>

-----------------------------------------------------------------------------
(* What clocks and the health poll do. *)

CoolDown(c) ==
    /\ c \in cooling
    /\ cooling' = cooling \ {c}
    /\ UNCHANGED <<counter, failures, disabled, unhealthy>>

Reenable(c) ==
    /\ c \in disabled
    /\ disabled' = disabled \ {c}
    /\ UNCHANGED <<counter, cooling, failures, unhealthy>>

(* update_health_cache, with what the poll found in Redis. *)
HealthPoll(sick) ==
    /\ unhealthy' = sick
    /\ UNCHANGED <<counter, cooling, failures, disabled>>
=============================================================================

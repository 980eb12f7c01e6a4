--------------------------- MODULE UpstreamRetry ---------------------------
(***************************************************************************)
(* Calling a provider, in router-service: a call finds its first channel   *)
(* (by the affinity of its conversation or by selection), is dispatched,   *)
(* reports how that went to the selector, and is sent again to another     *)
(* channel when the error is worth it.  Calls interleave at every await:   *)
(* the read of each rate-limit window, the affinity store, the provider.   *)
(***************************************************************************)
EXTENDS ChannelSelector

CONSTANTS Calls,
          MaxRetries,   \* CHANNEL_MAX_RETRIES
          Lists,        \* the channel lists the configuration may publish
          Limit,        \* Limit[c] : rpm_limit of the account, 0 for none
          Conversation, \* Conversation[r] : its affinity key, or None
          Fragile,      \* channels the health check may find unhealthy
          None

ASSUME RetryAssumption ==
    /\ MaxRetries \in Nat
    /\ Lists \subseteq SUBSET Channels
    /\ Limit \in [Channels -> Nat]
    /\ Fragile \subseteq Channels
    /\ None \notin Channels

VARIABLES call,   \* call[r] : where call r is
          listed, \* the list of the current configuration
          used,   \* used[c] : calls in the rate-limit window of c's account
          pin     \* pin[k] : the channel conversation k is pinned to, or None

vars == <<call, listed, used, pin, selector>>

Conversations == {Conversation[r] : r \in Calls} \ {None}

(* A call that has been given a list, and must find a channel of it: it    *)
(* reads the window of every account that has a limit, then selects.       *)
Resolving(list, tried, attempt) ==
    [stage |-> "resolving", list |-> list, tried |-> tried,
     attempt |-> attempt, limited |-> {},
     unread |-> {c \in list : Limit[c] > 0}]

At(r, stage) == call[r].stage = stage

Goes(r, to) == call' = [call EXCEPT ![r] = to]

Dispatched(r, stage, c) ==
    [stage |-> stage, at |-> c, tried |-> call[r].tried \cup {c},
     attempt |-> call[r].attempt]

Init ==
    /\ call = [r \in Calls |-> [stage |-> "new"]]
    /\ listed \in Lists
    /\ used = [c \in Channels |-> 0]
    /\ pin = [k \in Conversations |-> None]
    /\ InitSelector

-----------------------------------------------------------------------------
(* Finding a channel. *)

(* route_and_resolve loads the configuration, then awaits the inference    *)
(* service: the list it goes on with may be out of date by then.           *)
Route(r) ==
    /\ At(r, "new")
    /\ Goes(r, [stage |-> "routed", list |-> listed])
    /\ UNCHANGED <<listed, used, pin, selector>>

Pinned(r) == IF Conversation[r] = None THEN None ELSE pin[Conversation[r]]

(* affinity_store.get *)
ReadPin(r) ==
    /\ At(r, "routed")
    /\ Goes(r, [stage |-> "checking", list |-> call[r].list,
                pinned |-> Pinned(r)])
    /\ UNCHANGED <<listed, used, pin, selector>>

(* The pin it read is good if it is in the list and does not rest.         *)
(* Neither its health nor its rate limit is looked at.                     *)
PinHolds(r) == call[r].pinned \in call[r].list \ Resting

UsePin(r) ==
    /\ At(r, "checking") /\ PinHolds(r)
    /\ Goes(r, [stage |-> "sent", at |-> call[r].pinned,
                tried |-> {call[r].pinned}, attempt |-> 0])
    /\ UNCHANGED <<listed, used, pin, selector>>

MissPin(r) ==
    /\ At(r, "checking") /\ ~PinHolds(r)
    /\ Goes(r, Resolving(call[r].list, {}, 0))
    /\ UNCHANGED <<listed, used, pin, selector>>

(* One zcount of _get_rate_limited_accounts. *)
ReadLimit(r, c) ==
    /\ At(r, "resolving") /\ c \in call[r].unread
    /\ Goes(r, [call[r] EXCEPT
                  !.unread = @ \ {c},
                  !.limited = IF used[c] < Limit[c] THEN @ ELSE @ \cup {c}])
    /\ UNCHANGED <<listed, used, pin, selector>>

Ready(r) == At(r, "resolving") /\ call[r].unread = {}

Options(r) ==
    Candidates(call[r].list, call[r].tried, call[r].limited)

(* select, with the number of the attempt as the tier.  A first choice is  *)
(* then written to the affinity store.                                     *)
Select(r) ==
    /\ Ready(r)
    /\ \E c \in Selected(call[r].list, call[r].tried, call[r].attempt,
                         call[r].limited) :
          Goes(r, Dispatched(r, IF call[r].attempt = 0
                                   /\ Conversation[r] # None
                                THEN "pinning" ELSE "sent", c))
    /\ CountSelection
    /\ UNCHANGED <<listed, used, pin>>

(* ChannelRateLimited, or KeyError for a model without channels: the call  *)
(* is answered with an error, a retry with the error of its last attempt.  *)
Refuse(r) ==
    /\ Ready(r) /\ Options(r) = {}
    /\ Goes(r, [stage |-> "failed"])
    /\ UNCHANGED <<listed, used, pin, selector>>

Pin(r) ==
    /\ At(r, "pinning")
    /\ pin' = [pin EXCEPT ![Conversation[r]] = call[r].at]
    /\ Goes(r, [call[r] EXCEPT !.stage = "sent"])
    /\ UNCHANGED <<listed, used, selector>>

-----------------------------------------------------------------------------
(* The provider answers. *)

Succeed(r) ==
    /\ At(r, "sent")
    /\ ReportSuccess(call[r].at)
    /\ Goes(r, [stage |-> "metering", at |-> call[r].at])
    /\ UNCHANGED <<listed, used, pin>>

(* check_account: nothing is done about its answer. *)
Meter(r) ==
    /\ At(r, "metering")
    /\ used' = [used EXCEPT ![call[r].at] = IF @ < Limit[call[r].at]
                                            THEN @ + 1 ELSE @]
    /\ Goes(r, [stage |-> "ok"])
    /\ UNCHANGED <<listed, pin, selector>>

(* Variant: a retry resolves its target the way a new call does, and so    *)
(* begins to count anew.                                                   *)
FailAnew(r) ==
    /\ At(r, "sent")
    /\ ReportFailure(call[r].at)
    /\ \/ Goes(r, [stage |-> "failed"])
       \/ /\ call[r].attempt < MaxRetries
          /\ Goes(r, [stage |-> "routed", list |-> listed])
    /\ UNCHANGED <<listed, used, pin>>

(* Every error is reported, also one the client is to blame for.  The call *)
(* tries again if the error is retryable (should_retry) and retries are    *)
(* left, with the configuration of the moment.                             *)
Fail(r) ==
    /\ At(r, "sent")
    /\ ReportFailure(call[r].at)
    /\ \/ Goes(r, [stage |-> "failed"])
       \/ /\ call[r].attempt < MaxRetries
          /\ Goes(r, Resolving(listed, call[r].tried, call[r].attempt + 1))
    /\ UNCHANGED <<listed, used, pin>>

-----------------------------------------------------------------------------
(* The surroundings. *)

Publish(list) ==
    /\ listed' = list
    /\ UNCHANGED <<call, used, pin, selector>>

WindowSlides(c) ==
    /\ used[c] > 0
    /\ used' = [used EXCEPT ![c] = @ - 1]
    /\ UNCHANGED <<call, listed, pin, selector>>

PinExpires(k) ==
    /\ pin[k] # None
    /\ pin' = [pin EXCEPT ![k] = None]
    /\ UNCHANGED <<call, listed, used, selector>>

Clocks ==
    /\ \/ \E c \in Channels : CoolDown(c) \/ Reenable(c)
       \/ \E sick \in SUBSET Fragile : HealthPoll(sick)
    /\ UNCHANGED <<call, listed, used, pin>>

Finds(r) ==
    \/ Route(r) \/ ReadPin(r) \/ UsePin(r) \/ MissPin(r)
    \/ Select(r) \/ Refuse(r) \/ Pin(r)
    \/ \E c \in Channels : ReadLimit(r, c)

Answers(r) == Succeed(r) \/ Fail(r)

Next ==
    \/ \E r \in Calls : Finds(r) \/ Answers(r) \/ Meter(r)
    \/ \E list \in Lists : Publish(list)
    \/ \E c \in Channels : WindowSlides(c)
    \/ \E k \in Conversations : PinExpires(k)
    \/ Clocks

Spec == Init /\ [][Next]_vars

(* A handler goes on whatever others do, and dispatch returns or raises    *)
(* within its timeout.                                                     *)
Fairness ==
    \A r \in Calls : WF_vars(Finds(r)) /\ WF_vars(Answers(r)) /\ WF_vars(Meter(r))

LiveSpec == Spec /\ Fairness

-----------------------------------------------------------------------------
(* Properties. *)

Call ==
    [stage : {"new", "ok", "failed"}]
    \cup [stage : {"routed"}, list : Lists]
    \cup [stage : {"checking"}, list : Lists, pinned : Channels \cup {None}]
    \cup [stage : {"resolving"}, list : Lists,
          tried : SUBSET Channels, attempt : 0..MaxRetries,
          limited : SUBSET Channels, unread : SUBSET Channels]
    \cup [stage : {"pinning", "sent"}, at : Channels,
          tried : SUBSET Channels, attempt : 0..MaxRetries]
    \cup [stage : {"metering"}, at : Channels]

(* Every variable has its type; attempts are bounded.                      *)
TypeOK ==
    /\ call \in [Calls -> Call]
    /\ listed \in Lists
    /\ used \in [Channels -> Nat]
    /\ \A c \in Channels : used[c] <= Limit[c]
    /\ pin \in [Conversations -> Channels \cup {None}]
    /\ counter \in 0..(Cycle - 1)
    /\ cooling \subseteq Channels
    /\ failures \in [Channels -> 0..Threshold]
    /\ disabled \subseteq Channels
    /\ unhealthy \subseteq Channels

(* What a caller sees of a call. *)
Seen(k) ==
    CASE k.stage \in {"new", "routed", "checking"} ->
             [status |-> "waiting", tried |-> {}, sent |-> 0]
      [] k.stage = "resolving" ->
             [status |-> "waiting", tried |-> k.tried, sent |-> k.attempt]
      [] k.stage \in {"pinning", "sent"} ->
             [status |-> "sent", tried |-> k.tried, sent |-> k.attempt + 1,
              at |-> k.at]
      [] k.stage \in {"metering", "ok"} -> [status |-> "ok"]
      [] k.stage = "failed" -> [status |-> "failed"]

Promise == INSTANCE UpstreamSpec WITH
              MaxAttempts <- MaxRetries + 1,
              call <- [r \in Calls |-> Seen(call[r])],
              streak <- failures,
              benched <- disabled

(* However calls interleave and the list, the clocks and the health check  *)
(* change under them: a call is sent at most MaxRetries + 1 times, never   *)
(* twice to a channel unless it has tried a whole list; each attempt       *)
(* counts exactly once, for the channel it was sent to; and a channel is   *)
(* disabled only by Threshold failures without a success in between.       *)
KeepsPromise == Promise!Spec

(* A call is selected onto a channel that rests, is unhealthy or that it   *)
(* has tried only when the list has no untried channel that is up and was  *)
(* below its limit when its window was read.                               *)
BestEffort ==
    [][\A r \in Calls : Select(r) =>
          LET down == Resting \cup unhealthy \cup call[r].tried
          IN  call[r].list \ (down \cup call[r].limited) # {}
                 => call'[r].at \notin down \cup call[r].limited]_vars

(* Wherever the counter stands, the next selections among the channels S   *)
(* go to each of them in proportion to its weight, if S stays the same.    *)
RoundRobinShare ==
    \A S \in SUBSET Channels : \A c \in S :
        Cardinality({i \in 0..(TotalShare(S) - 1) :
                        Picked(S, counter + i) = {c}}) = Share(c)

(* Every call that has come in is answered or given up. *)
EveryCallEnds ==
    \A r \in Calls : At(r, "routed") ~> (At(r, "ok") \/ At(r, "failed"))

(* "channel retry and tier descent": a retry goes to a tier no higher than *)
(* those the call has tried, unless it has tried the whole list.           *)
TiersDescend ==
    [][\A r \in Calls : Select(r) /\ ~(call[r].list \subseteq call[r].tried) =>
          \A c \in call[r].tried : Priority[call'[r].at] <= Priority[c]]_vars
=============================================================================

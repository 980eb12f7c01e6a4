---------------------------- MODULE ConfigRefresh ----------------------------
(* How what admin-service stores comes into force in a router (admin:       *)
(* controllers/internal.py, services/pool_service.py; router:               *)
(* services/config_manager.py, utils/runtime_config.py).                    *)
(*                                                                          *)
(* The router polls.  The answer is one snapshot of settings, pools and     *)
(* catalog; it is adopted whole or, if it cannot be normalized, not at all. *)
(* A router that cannot reach admin-service when it starts takes a local    *)
(* file, which has providers and no channels.                               *)
EXTENDS RoutingSettings

VARIABLES
    config,   \* the router's configuration: where it is from, its channels
    fetched   \* an answer on its way to the router

configVars == <<config, fetched>>

Sources == {"none", "admin", "cached_previous", "local_fallback"}
NoAnswer == [well |-> FALSE, channels |-> {}, waiting |-> FALSE]
Unstarted == [source |-> "none", channels |-> {}]

ConfigRefreshInit ==
    /\ config = Unstarted
    /\ fetched = NoAnswer

(* resolve_for_internal and resolve_model_channels: the channels of the     *)
(* texts as they are stored.                                                *)
Channels ==
    {a \in Accounts : /\ account[a] = "active" /\ PoolOf[a] \in poolOn
                      /\ \E m \in Slugs : /\ poolModel[PoolOf[a]][m] = "on"
                                          /\ Referenced(m)}

WellFormed == \A t \in TierKeys : ~Blank(tierValue[t])

AnswerPoll ==
    /\ ~fetched.waiting
    /\ fetched' = [well |-> WellFormed, channels |-> Channels, waiting |-> TRUE]
    /\ UNCHANGED config

Stale(source) == IF source = "admin" THEN "cached_previous" ELSE source

(* admin-service does not answer, or the answer is lost.                    *)
PollFails ==
    /\ fetched' = NoAnswer
    /\ config' = [config EXCEPT !.source = Stale(@)]

(* Variant: the channels are replaced only when the version has changed;    *)
(* admin-service sends none. *)
AdoptByVersion ==
    /\ fetched.waiting /\ config.source # "none"
    /\ fetched' = NoAnswer
    /\ config' = [config EXCEPT !.source = IF fetched.well THEN "admin" ELSE Stale(@)]

(* normalize_runtime_config refuses an empty tier; then the router goes on  *)
(* with what it has.                                                        *)
Adopt ==
    /\ fetched.waiting /\ config.source # "none"
    /\ fetched' = NoAnswer
    /\ config' = IF fetched.well
                 THEN [source |-> "admin", channels |-> fetched.channels]
                 ELSE [config EXCEPT !.source = Stale(@)]

StartRouter ==
    /\ config.source = "none"
    /\ config' = IF fetched.waiting /\ fetched.well
                 THEN [source |-> "admin", channels |-> fetched.channels]
                 ELSE [source |-> "local_fallback", channels |-> {}]
    /\ fetched' = NoAnswer

StopRouter ==
    /\ config' = Unstarted /\ fetched' = NoAnswer

NextConfigRefresh ==
    AnswerPoll \/ PollFails \/ Adopt \/ StartRouter \/ StopRouter

(* The poll is a loop that sleeps and asks again; that it is answered in    *)
(* the end and gets to its adoption is what the property assumes of it.     *)
ConfigFairness ==
    /\ WF_configVars(AnswerPoll)
    /\ SF_configVars(Adopt)

-----------------------------------------------------------------------------
ConfigRefreshTypeOK ==
    /\ config \in [source : Sources, channels : SUBSET Accounts]
    /\ fetched \in [well : BOOLEAN, channels : SUBSET Accounts, waiting : BOOLEAN]

(* An account that stays out of use is taken from the router in the end,    *)
(* whatever restarts and lost polls there are, provided that the settings   *)
(* are not such that every poll is refused.                                 *)
DisabledLeaves ==
    \A a \in Accounts :
       <>[](account[a] # "active" /\ WellFormed) => <>[](a \notin config.channels)
=============================================================================

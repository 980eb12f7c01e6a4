------------------------------ MODULE Classify ------------------------------
(* From the name a client asks for to the model that serves the call        *)
(* (router: services/routing.py, services/inference_client.py; inference:   *)
(* services/classify_service.py, services/config_manager.py).               *)
(*                                                                          *)
(* admin-service publishes one configuration.  Router and inference-service *)
(* poll it, each at its own time, and each starts from a local file when it *)
(* gets none.  The router holds the configuration it has at the start of a  *)
(* request, waits for inference-service, which chooses a model by the       *)
(* configuration that *it* has when the question arrives, and resolves that *)
(* model in the configuration it has held.  The price is looked up once     *)
(* more when the answer of the model has been sent.                         *)
EXTENDS Naturals, FiniteSets

CONSTANTS
    Published,   \* configurations admin-service may publish
    RouterFile,  \* the local file of the router
    EngineFile,  \* the local file of inference-service
    Tiers,       \* the tiers that are configured
    LastTier,    \* the tier of the fallback, 3 in the code
    Models,
    Alias,       \* the name that asks for routing by difficulty
    Names,       \* other names clients ask for
    Asking,      \* requests under way
    ClassifyAttempts,   \* 1 + max_retries
    ClassifyThreshold,  \* requests without an answer that open the breaker
    GpuLimit     \* questions the engine works on at once

Configs == [tier : [Tiers -> Models], bands : SUBSET (Tiers \cup {0}),
            names : SUBSET Names, channels : SUBSET Models,
            providers : SUBSET Models, prices : SUBSET Models]

ASSUME ClassifyAssumption ==
    /\ Published \cup {RouterFile, EngineFile} \subseteq Configs
    /\ LastTier \in Tiers /\ 0 \notin Tiers /\ Alias \notin Names
    /\ {ClassifyAttempts, ClassifyThreshold, GpuLimit} \subseteq Nat \ {0}

VARIABLES
    published,  \* what admin-service answers polls with
    routerHas,  \* the configuration of the router
    engineHas,  \* the configuration of inference-service
    request,    \* request[r]
    question,   \* question[r][k] : attempt k of r at inference-service
    silent,     \* _cb_failures, up to ClassifyThreshold
    cooling     \* time is before _cb_open_until

classifyVars == <<published, routerHas, engineHas, request, question, silent, cooling>>

NoRequest == [stage |-> "none", name |-> Alias, attempt |-> 0, model |-> "none",
              held |-> RouterFile, used |-> RouterFile, moved |-> FALSE]
NoQuestion == [stage |-> "none", config |-> EngineFile]

ClassifyInit ==
    /\ published \in Published
    /\ routerHas \in {published, RouterFile} /\ engineHas \in {published, EngineFile}
    /\ request = [r \in Asking |-> NoRequest]
    /\ question = [r \in Asking |-> [k \in 1 .. ClassifyAttempts |-> NoQuestion]]
    /\ silent = 0 /\ cooling = FALSE

Publish(c) ==
    /\ published' = c
    /\ UNCHANGED <<routerHas, engineHas, request, question, silent, cooling>>

PollRouter ==
    /\ routerHas' = published
    /\ request' = [r \in Asking |-> IF request[r].stage \in {"asking", "routed"}
                                    THEN [request[r] EXCEPT !.moved = TRUE] ELSE request[r]]
    /\ UNCHANGED <<published, engineHas, question, silent, cooling>>

PollEngine ==
    /\ engineHas' = published
    /\ UNCHANGED <<published, routerHas, request, question, silent, cooling>>

(* _available_models: model_channels is in every normalized configuration,  *)
(* so the providers never count here; resolve_target does use them when     *)
(* there is no channel at all.                                              *)
Available(c) == c.channels
Resolvable(c) == IF c.channels # {} THEN c.channels ELSE c.providers

(* The end of route_and_resolve: prices, then channels. *)
Verdict(c, model) ==
    IF model \notin c.prices THEN "unpriced"
    ELSE IF model \notin Resolvable(c) THEN "unserved" ELSE "routed"

(* Variant: it takes the configuration of the moment. *)
RoutedAfresh(q, model, used) ==
    [q EXCEPT !.stage = Verdict(routerHas, model), !.model = model, !.used = used]

Routed(q, model, used) ==
    [q EXCEPT !.stage = Verdict(q.held, model), !.model = model, !.used = used]

FallenBack(q) ==
    IF q.held.tier[LastTier] \in Available(q.held)
    THEN Routed(q, q.held.tier[LastTier], q.held)
    ELSE [q EXCEPT !.stage = "nofallback", !.used = q.held]

Put(r, q) == request' = [request EXCEPT ![r] = q]

Tripped == silent = ClassifyThreshold

(* route_and_resolve up to the first await.  The breaker that has cooled    *)
(* down starts to count anew.                                               *)
BeginRequest(r, name) ==
    /\ request[r].stage = "none"
    /\ \A k \in 1 .. ClassifyAttempts : question[r][k] = NoQuestion
    /\ LET q == [NoRequest EXCEPT !.held = routerHas, !.used = routerHas, !.name = name]
           direct == name # Alias /\ name \in Available(routerHas)
           asks == ~direct /\ ~(Tripped /\ cooling)
       IN  IF name # Alias /\ name \notin routerHas.names
           THEN Put(r, [q EXCEPT !.stage = "invalid"]) /\ UNCHANGED silent
           ELSE /\ Put(r, IF direct THEN Routed(q, name, routerHas)
                          ELSE IF asks THEN [q EXCEPT !.stage = "asking", !.attempt = 1]
                          ELSE FallenBack(q))
                /\ silent' = IF asks /\ Tripped THEN 0 ELSE silent
    /\ UNCHANGED <<published, routerHas, engineHas, question, cooling>>

Waits(r, k) == request[r].stage = "asking" /\ request[r].attempt = k

(* The question of attempt k arrives: classify loads the configuration      *)
(* first, then queues for the engine.                                       *)
QuestionArrives(r, k) ==
    /\ Waits(r, k) /\ question[r][k] = NoQuestion
    /\ question' = [question EXCEPT ![r][k] = [stage |-> "queued", config |-> engineHas]]
    /\ UNCHANGED <<published, routerHas, engineHas, request, silent, cooling>>

Running == {a \in Asking \X (1 .. ClassifyAttempts) : question[a[1]][a[2]].stage = "running"}

TakeEngine(r, k) ==
    /\ question[r][k].stage = "queued" /\ Cardinality(Running) < GpuLimit
    /\ question' = [question EXCEPT ![r][k].stage = "running"]
    /\ UNCHANGED <<published, routerHas, engineHas, request, silent, cooling>>

Fails == silent' = IF Tripped THEN silent ELSE silent + 1

(* An attempt without a usable answer: the next one, or the fallback.       *)
GiveUpAttempt(r) ==
    IF request[r].attempt < ClassifyAttempts
    THEN Put(r, [request[r] EXCEPT !.attempt = @ + 1]) /\ UNCHANGED <<silent, cooling>>
    ELSE /\ Put(r, FallenBack(request[r])) /\ Fails
         /\ cooling' = (cooling \/ silent + 1 >= ClassifyThreshold)

(* The engine has a score, and its band gives the tier; a tier that is not  *)
(* in the map, 0 here, raises and is answered with 500.                     *)
EngineAnswers(r, k, tier) ==
    /\ question[r][k].stage = "running" /\ tier \in question[r][k].config.bands
    /\ question' = [question EXCEPT ![r][k] = NoQuestion]
    /\ LET c == question[r][k].config
       IN  IF ~Waits(r, k) THEN UNCHANGED <<request, silent, cooling>>
           ELSE IF tier \in Tiers
           THEN /\ Put(r, Routed(request[r], c.tier[tier], c))
                /\ silent' = 0 /\ UNCHANGED cooling
           ELSE GiveUpAttempt(r)
    /\ UNCHANGED <<published, routerHas, engineHas>>

(* No connection, a timeout while the question waits or is worked on, or a  *)
(* 5xx answer of a service that is not ready.                               *)
AttemptFails(r) ==
    /\ request[r].stage = "asking"
    /\ GiveUpAttempt(r)
    /\ UNCHANGED <<published, routerHas, engineHas, question>>

(* An answer below 500 is no failure of the service.  A wrong secret is an  *)
(* error for the alias and a reason to fall back for other names.           *)
QuestionRefused(r, secret) ==
    /\ request[r].stage = "asking" /\ question[r][request[r].attempt] = NoQuestion
    /\ Put(r, IF secret /\ request[r].name = Alias
              THEN [request[r] EXCEPT !.stage = "error"] ELSE FallenBack(request[r]))
    /\ silent' = 0
    /\ UNCHANGED <<published, routerHas, engineHas, question, cooling>>

(* Another error of the transport, or a body that is no JSON, which has     *)
(* counted as an answer: nothing catches it before the handler.             *)
QuestionBreaks(r) ==
    /\ request[r].stage = "asking"
    /\ Put(r, [request[r] EXCEPT !.stage = "error"])
    /\ silent' \in {silent, 0}
    /\ UNCHANGED <<published, routerHas, engineHas, question, cooling>>

(* The call has been served; its price is looked up again.                  *)
SettleRequest(r) ==
    /\ request[r].stage = "routed"
    /\ Put(r, [request[r] EXCEPT !.stage =
                 IF request[r].model \in routerHas.prices THEN "charged" ELSE "free"])
    /\ UNCHANGED <<published, routerHas, engineHas, question, silent, cooling>>

(* The request is over, served or not; another one takes its place.         *)
LeaveRouter(r) ==
    /\ request[r].stage \notin {"none", "asking", "routed"}
    /\ Put(r, NoRequest)
    /\ UNCHANGED <<published, routerHas, engineHas, question, silent, cooling>>

BreakerCools ==
    /\ cooling /\ cooling' = FALSE
    /\ UNCHANGED <<published, routerHas, engineHas, request, question, silent>>

NextClassify ==
    \/ \E c \in Published : Publish(c)
    \/ PollRouter \/ PollEngine \/ BreakerCools
    \/ \E r \in Asking :
          \/ \E name \in {Alias} \cup Names : BeginRequest(r, name)
          \/ \E k \in 1 .. ClassifyAttempts :
                \/ QuestionArrives(r, k) \/ TakeEngine(r, k)
                \/ \E tier \in Tiers \cup {0} : EngineAnswers(r, k, tier)
          \/ \E secret \in BOOLEAN : QuestionRefused(r, secret)
          \/ AttemptFails(r) \/ QuestionBreaks(r)
          \/ SettleRequest(r) \/ LeaveRouter(r)

ClassifySpec == ClassifyInit /\ [][NextClassify]_classifyVars

-----------------------------------------------------------------------------
Stages == {"none", "asking", "routed", "unpriced", "unserved", "nofallback", "invalid",
           "error", "charged", "free"}

RouterSide == Published \cup {RouterFile}
EngineSide == Published \cup {EngineFile}

Request == [stage : Stages, name : {Alias} \cup Names, attempt : 0 .. ClassifyAttempts,
            model : Models \cup {"none"}, held : RouterSide, used : RouterSide \cup EngineSide,
            moved : BOOLEAN]
Question == [stage : {"none", "queued", "running"}, config : EngineSide]

ClassifyTypeOK ==
    /\ published \in Published /\ routerHas \in RouterSide /\ engineHas \in EngineSide
    /\ request \in [Asking -> Request]
    /\ question \in [Asking -> [1 .. ClassifyAttempts -> Question]]
    /\ IsFiniteSet(Running) /\ Cardinality(Running) <= GpuLimit
    /\ silent \in 0 .. ClassifyThreshold /\ cooling \in BOOLEAN

(* Every tier leads to a model that has a price and a channel.              *)
Complete(c) == \A t \in Tiers : c.tier[t] \in c.prices \cap c.channels

(* A model that has a channel can be asked for by its name.                 *)
Priced(c, name) == name \in Available(c) => name \in c.prices

(* A client is refused for want of a price, a channel or a fallback only if *)
(* the two services were working with different maps of tiers, or if the    *)
(* configuration the router held is not complete, or offers the very model  *)
(* that is asked for without a price; and a call is free only if the router *)
(* has polled since the call began.                                         *)
RefusedOnlyBySkew ==
    \A r \in Asking :
       LET q == request[r]
       IN  /\ /\ q.stage \in {"unpriced", "unserved", "nofallback"}
              /\ Complete(q.held) /\ Priced(q.held, q.name)
              => q.used.tier # q.held.tier
           /\ q.stage = "free" => q.moved
=============================================================================

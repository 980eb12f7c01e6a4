------------------------------- MODULE Engine -------------------------------
(* The routing engine of inference-service (services/router_engine.py).     *)
(* ClassifyService runs predict_chat_messages in threads, AtOnce at a time, *)
(* on one model.  A question is three passes through the layers: one with   *)
(* the text for the judge of tool use, one with the conversation for the    *)
(* other judges, one with the text that is compared with the prototypes.  A *)
(* pass of the first two puts hooks on layers of the model, and a hook      *)
(* keeps the input of its layer for that pass: the last input, of whichever *)
(* pass goes through the layer while the hook is there.                     *)
EXTENDS Judgement

CONSTANTS
    Threads,
    AtOnce,         \* GPU_CONCURRENCY_LIMIT
    Depth,          \* layers
    ToolJudge,
    HeadsOf,        \* HeadsOf[j]: the layers whose heads the judge j looks at
    Talks,          \* conversations asked about
    EngineConfigs   \* what is offered as a configuration

ASSUME EngineAssumption ==
    /\ AtOnce \in Nat \ {0} /\ Depth \in Nat \ {0} /\ ToolJudge \in Judges
    /\ HeadsOf \in [Judges -> (SUBSET (1..Depth)) \ {{}}]
    /\ IsFiniteSet(Threads) /\ Talks \subseteq Seq(Messages)
    /\ EngineConfigs \subseteq [weights: [Judges -> Int], bands: Bands, tiers: SUBSET Int]

VARIABLES
    prototypes,     \* whether their file was there at the start
    engineConfig,   \* the configuration in force
    hooked,         \* hooked[q]: the hooks of q, of a pass and on a layer
    judging         \* judging[q]: the question of the thread q

engineVars == <<prototypes, engineConfig, hooked, judging>>

Layers == 1..Depth
Passes == {"tool", "other"}

Targets(pass) ==
    CASE pass = "tool"  -> HeadsOf[ToolJudge]
      [] pass = "other" -> UNION {HeadsOf[j] : j \in Judges \ {ToolJudge}}
      [] OTHER          -> {}

Own(talk, pass) ==
    CASE pass = "tool"  -> {ToolText(talk)}
      [] pass = "other" -> FullChat(talk)
      [] pass = "proto" -> {ProtoText(talk)}

NoJudging == [stage |-> "idle", running |-> FALSE, at |-> 0, talk |-> <<>>,
              caught |-> [p \in Passes |-> [l \in Layers |-> {}]],
              followed |-> FALSE, tier |-> 0,
              config |-> CHOOSE c \in EngineConfigs : Normal(c)]

EngineInit ==
    /\ prototypes \in BOOLEAN
    /\ engineConfig \in {c \in EngineConfigs : Normal(c)}
    /\ hooked = [q \in Threads |-> {}]
    /\ judging = [q \in Threads |-> NoJudging]

-----------------------------------------------------------------------------
(* The configuration manager offers another one; it is refused unless it    *)
(* can be normalized.                                                       *)
LoadConfig(c) ==
    /\ Normal(c)
    /\ engineConfig' = c
    /\ UNCHANGED <<prototypes, hooked, judging>>

InEngine == {q \in Threads : judging[q].stage \in {"tool", "other", "proto"}}

(* classify loads the configuration, and then waits for the semaphore.      *)
BeginJudging(q, talk) ==
    /\ judging[q].stage = "idle"
    /\ judging' = [judging EXCEPT ![q] =
           [NoJudging EXCEPT !.stage = "queued", !.talk = talk, !.config = engineConfig]]
    /\ UNCHANGED <<prototypes, engineConfig, hooked>>

EnterEngine(q) ==
    /\ judging[q].stage = "queued" /\ Cardinality(InEngine) < AtOnce
    /\ judging' = [judging EXCEPT ![q].stage = "tool"]
    /\ UNCHANGED <<prototypes, engineConfig, hooked>>

(* _run_with_heads puts all its hooks first; what one of them keeps before  *)
(* the pass gets to its layer is replaced then.                             *)
StartPass(q) ==
    /\ q \in InEngine /\ ~judging[q].running
    /\ hooked' = [hooked EXCEPT ![q] =
           @ \cup ({judging[q].stage} \X Targets(judging[q].stage))]
    /\ judging' = [judging EXCEPT ![q].running = TRUE, ![q].at = 0]
    /\ UNCHANGED <<prototypes, engineConfig>>

(* What a hook of a question keeps when a pass, of another one or not, goes *)
(* through its layer; whether one followed its own there.                   *)
Fires(hooks, l) == \E p \in Passes : <<p, l>> \in hooks
CaughtAt(caught, hooks, l, input) ==
    [p \in Passes |-> [caught[p] EXCEPT ![l] = IF <<p, l>> \in hooks THEN input ELSE @]]

Kept(j, hooks, l, input, another) ==
    [j EXCEPT !.caught = CaughtAt(@, hooks, l, input),
              !.followed = @ \/ (another /\ Fires(hooks, l) /\ j.at >= l)]

(* The pass of q goes through the next layer, and every hook there fires.   *)
Forward(q) ==
    LET l == judging[q].at + 1
        input == Own(judging[q].talk, judging[q].stage)
        kept(r) == Kept(judging[r], hooked[r], l, input, r # q)
    IN  /\ judging[q].running /\ l \in Layers
        /\ judging' = [r \in Threads |-> IF r = q THEN [kept(r) EXCEPT !.at = l] ELSE kept(r)]
        /\ UNCHANGED <<prototypes, engineConfig, hooked>>

Passed(q) == judging[q].running /\ judging[q].at = Depth

(* The hooks are removed one by one, also when the pass has failed.         *)
Unhook(q, l) ==
    /\ Passed(q) /\ <<judging[q].stage, l>> \in hooked[q]
    /\ hooked' = [hooked EXCEPT ![q] = @ \ {<<judging[q].stage, l>>}]
    /\ UNCHANGED <<prototypes, engineConfig, judging>>

After(pass) == CASE pass = "tool" -> "other" [] pass = "other" -> "proto"

(* Variant: the hooks of a pass are left where they are. *)
EndPassHooked(q) ==
    /\ Passed(q) /\ judging[q].stage # "proto"
    /\ judging' = [judging EXCEPT ![q].stage = After(@), ![q].running = FALSE]
    /\ UNCHANGED <<prototypes, engineConfig, hooked>>

EndPass(q) ==
    /\ Passed(q) /\ hooked[q] = {} /\ judging[q].stage # "proto"
    /\ judging' = [judging EXCEPT ![q].stage = After(@), ![q].running = FALSE]
    /\ UNCHANGED <<prototypes, engineConfig, hooked>>

(* The judges look at what the hooks have kept.                             *)
Scores(q) ==
    [j \in Judges |->
        LET pass == IF j = ToolJudge THEN "tool" ELSE "other"
        IN  Scaled(RawScore(UNION {judging[q].caught[pass][l] : l \in HeadsOf[j]}))]

(* The rest of predict_chat_messages; a tier that is not in the map raises. *)
Decide(q) ==
    /\ Passed(q) /\ judging[q].stage = "proto"
    /\ LET c == judging[q].config
           score == TotalScore(Scores(q), prototypes, ProtoText(judging[q].talk), c.weights)
           tier == BandTier(score, c.bands)
       IN  judging' = [judging EXCEPT
              ![q].stage = IF tier \in c.tiers THEN "answered" ELSE "failed",
              ![q].tier = tier, ![q].running = FALSE]
    /\ UNCHANGED <<prototypes, engineConfig, hooked>>

(* A pass raises: the hooks go, and then the question.                      *)
PassFails(q) ==
    /\ judging[q].running /\ judging[q].at < Depth
    /\ hooked' = [hooked EXCEPT ![q] = {}]
    /\ judging' = [judging EXCEPT ![q].stage = "failed", ![q].running = FALSE]
    /\ UNCHANGED <<prototypes, engineConfig>>

LeaveEngine(q) ==
    /\ judging[q].stage \in {"answered", "failed"}
    /\ judging' = [judging EXCEPT ![q] = NoJudging]
    /\ UNCHANGED <<prototypes, engineConfig, hooked>>

NextEngine ==
    \/ \E c \in EngineConfigs : LoadConfig(c)
    \/ \E q \in Threads :
          \/ \E talk \in Talks : BeginJudging(q, talk)
          \/ \E l \in Layers : Unhook(q, l)
          \/ EnterEngine(q) \/ StartPass(q) \/ Forward(q) \/ EndPass(q) \/ Decide(q)
          \/ PassFails(q) \/ LeaveEngine(q)

EngineSpec == EngineInit /\ [][NextEngine]_engineVars

-----------------------------------------------------------------------------
EngineTypeOK ==
    /\ engineConfig \in EngineConfigs /\ Normal(engineConfig)
    /\ Cardinality(InEngine) <= AtOnce
    /\ \A q \in Threads : hooked[q] \subseteq Passes \X Layers /\ judging[q].at \in 0..Depth

Answered(q) == judging[q].stage = "answered" /\ ~judging[q].followed

(* A question is judged by its own texts, unless the pass of another one    *)
(* went through a layer behind its own before it had removed its hook.      *)
OwnTextsJudged ==
    \A q \in Threads : Answered(q) =>
        \A p \in Passes : \A l \in Targets(p) :
            judging[q].caught[p][l] = Own(judging[q].talk, p)

(* The judge of tool use and the prototypes look at the same text, and the  *)
(* others see it, if the last text of the user is not empty and every       *)
(* message has its content.                                                 *)
SameTextJudged ==
    \A q \in Threads :
        LET talk == judging[q].talk
        IN  /\ OfUser(talk) # {} /\ talk[Max(OfUser(talk))].text # NoText
            /\ \A i \in DOMAIN talk : ~talk[i].bare
            => /\ ToolText(talk) = ProtoText(talk)
               /\ ToolText(talk) \in FullChat(talk)

(* Bands that leave no gap and put harder questions into stronger tiers,    *)
(* which have the lower numbers.                                            *)
Graded(bands) ==
    \A i \in 1..(Len(bands) - 1) :
        bands[i].to = bands[i + 1].from /\ bands[i].tier >= bands[i + 1].tier

NoHarder(a, b) ==
    /\ \A p \in Passes : RawScore(Own(a, p)) <= RawScore(Own(b, p))
    /\ ProtoText(a) = ProtoText(b)

(* With graded bands, of two such questions that look alike to the          *)
(* prototypes the harder one never gets the weaker tier.                    *)
HarderNoWeaker ==
    \A q, r \in Threads :
        /\ Answered(q) /\ Answered(r) /\ judging[q].config = judging[r].config
        /\ Graded(judging[q].config.bands)
        /\ NoHarder(judging[q].talk, judging[r].talk)
        => judging[q].tier >= judging[r].tier

(* Every question is judged as if it were the only one, and as its texts    *)
(* deserve.                                                                 *)
JudgedFairly == OwnTextsJudged /\ SameTextJudged /\ HarderNoWeaker
=============================================================================

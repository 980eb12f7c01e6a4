------------------------------ MODULE MCServing ------------------------------
(* What becomes of a call between the handler of the router and the         *)
(* statistics of user-service, as one instance for TLC.  A behaviour        *)
(* follows one of eleven parts: a stream converted to the Messages protocol *)
(* of Anthropic, a stream converted to the Responses protocol of OpenAI,    *)
(* the choice of a model for one request, with every change of the          *)
(* configuration, the same for two requests at once while nothing new is    *)
(* published, the hourly bucket the call is counted in, a call at one of    *)
(* the three doors, a conversation that is translated, the figures that are *)
(* shown of call logs, the pages of a list of them, the engine with two     *)
(* conversations at once, and the same one after the other.                 *)
EXTENDS AnthropicStream, ResponsesStream, Classify, UsageStats, Doors, Translate, Reports,
        Engine, TLC

CONSTANTS m1, m2, extra, r1

VARIABLE part

streamVars == <<anthropicVars, responsesVars>>
servingVars == <<part, streamVars, classifyVars, usageVars, doorVars, translateVars, reportVars,
               engineVars>>

Kind(low, high, offered, priced) ==
    [tier |-> (1 :> low @@ 3 :> high), bands |-> {1, 3}, names |-> {extra, m1},
     channels |-> offered, providers |-> {}, prices |-> priced]

(* One is complete.  Of the other, one model has no channel and the other   *)
(* no price, and a band leads to no tier.                                   *)
Whole == Kind(m1, m1, {m1}, {m1})
MCPublished == {Whole, [Kind(m1, m2, {m1}, {m2}) EXCEPT !.bands = {0, 1, 3}]}

MCFile == [Kind(m1, m2, {}, {}) EXCEPT !.providers = {m1, m2}, !.names = {}]

MCPrice == [fresh |-> 2, cached |-> 1, output |-> 3]
MCCounts == {[fresh |-> 1, cached |-> 0, output |-> 1], [fresh |-> 2, cached |-> 1, output |-> 0],
             [fresh |-> 1, cached |-> 3, output |-> 2]}

MCTexts == {<<>>, <<"blank">>, <<"word">>, <<"long">>, <<"think">>, <<"unthink">>,
            <<"word", "think">>, <<"think", "word", "unthink", "long">>}
Arguing(i) == [at |-> i, args |-> TRUE]
MCDeltas == (MCTexts \X {<<>>})
            \cup ({<<>>, <<"word">>} \X ({<<call>> : call \in ToolCalls}
                                        \cup {<<Arguing(0), Arguing(1)>>}))

MCCallLists == {<<>>, <<Arguing(0), Arguing(1)>>} \cup {<<call>> : call \in ReplyCalls}

Told(status, invalid, chosen, cost, score, latency) ==
    [status |-> status, invalid |-> invalid, named |-> "auto", chosen |-> chosen,
     cost |-> cost, tokens |-> cost, score |-> score, latency |-> latency]
MCReported == {Told("ok", FALSE, "m1", 2, 9, 2), Told("ok", FALSE, "m2", 1, 10, 1),
               Told("failed", TRUE, "none", 0, -1, -1), Told("aborted", FALSE, "none", 0, 3, 3)}
MCPresets == {[buckets |-> 3, unit |-> 2], [buckets |-> 2, unit |-> 8]}

(* Two questions of one text, a tool that was used, no word of the user, a  *)
(* message without content; and of three configurations one that leaves a   *)
(* gap and names a tier that is not there, and one that is refused.         *)
Said1(role, text) == [role |-> role, text |-> text, calls |-> FALSE, bare |-> FALSE]
MCTalks == {<<Said1("user", "easy")>>,
            <<Said1("user", "easy"), [Said1("assistant", "") EXCEPT !.calls = TRUE],
              Said1("tool", "hard"), Said1("user", "")>>,
            <<Said1("system", "hard"), Said1("user", "easy")>>,
            <<[Said1("assistant", "") EXCEPT !.bare = TRUE], Said1("user", "odd")>>}
MCTogether == {t \in MCTalks : Len(t) \in {1, 4}}
MCHard == [t \in {"easy", "hard", "odd", "", "N/A", "whole", "marked", "calls"} |->
              CASE t = "hard" -> 4 [] t = "odd" -> 99 [] OTHER -> 1]
MCLikeness == [t \in DOMAIN MCHard |-> IF t = "easy" THEN [tool |-> 1, code |-> 3]
                                                     ELSE [tool |-> 2, code |-> 1]]
MCHeads == [tool |-> {1}, code |-> {1, 2}]
Band(from, to, tier) == [from |-> from, to |-> to, tier |-> tier]
MCGraded == [weights |-> [tool |-> 1, code |-> 2], tiers |-> 1..3,
             bands |-> <<Band(0, 300, 3), Band(300, 700, 2), Band(700, 1000, 1)>>]
MCEngineConfigs == {MCGraded,
    [MCGraded EXCEPT !.bands = <<Band(100, 300, 2), Band(800, 1000, 4)>>],
    [MCGraded EXCEPT !.weights = [tool |-> 0, code |-> 0]]}

Plain == [choice |-> "unset", extras |-> {}]

Parts == {"anthropic", "responses", "classify", "crowd", "usage", "doors", "translate",
          "reports", "pages", "engine", "judges"}

ServingInit ==
    /\ part \in Parts
    /\ AnthropicInit /\ ResponsesInit /\ ClassifyInit /\ UsageInit /\ DoorsInit /\ TranslateInit
    /\ ReportsInit /\ EngineInit
    /\ part # "responses" => feed.kind = "openai"
    /\ part # "classify" => published = Whole
    /\ part \notin {"classify", "crowd"} => routerHas = Whole /\ engineHas = Whole
    /\ part # "translate" => wish = Plain
    /\ part # "judges" => prototypes /\ engineConfig = MCGraded

ClassifyPart ==
    /\ NextClassify
    /\ part = "classify" => \A r \in Asking \ {r1} : request'[r] = NoRequest
    /\ part = "crowd" => /\ UNCHANGED published
                         /\ \A r \in Asking : request'[r].name = Alias

(* A talk, an input and an answer, each by itself. *)
TranslatePart ==
    /\ wish = Plain /\ NextTranslate
    /\ talk' # <<>> => input' = <<>> /\ uttered' = <<>>
    /\ input' # <<>> => uttered' = <<>>

(* Figures are read of two rows or of users; pages are turned of more rows, *)
(* of which some succeed.                                                   *)
ReportsPart ==
    /\ NextReports
    /\ rows' = <<>> \/ joined' = <<>>
    /\ part = "reports" => turning' = Unturned /\ Len(rows') <= 2
    /\ part = "pages" => /\ present' < 5
                         /\ \A i \in DOMAIN rows' : rows'[i].latency < 2 /\ ~rows'[i].invalid

(* Together: two of the talks, and one configuration.  One by one: all.     *)
Busy(q) == judging[q].stage \in {"queued", "tool", "other", "proto"}

EnginePart ==
    /\ NextEngine
    /\ part = "engine" => /\ UNCHANGED engineConfig
                          /\ \A q \in Threads : judging'[q].talk \in MCTogether \cup {<<>>}
    /\ part = "judges" => ~\E q \in Threads : Busy(q)' /\ \E r \in Threads \ {q} : Busy(r)'

ServingNext ==
    /\ UNCHANGED part
    /\ \/ /\ part = "anthropic" /\ NextAnthropicStream
          /\ UNCHANGED <<responsesVars, classifyVars, usageVars, doorVars, translateVars, reportVars, engineVars>>
       \/ /\ part = "responses" /\ NextResponsesStream
          /\ UNCHANGED <<anthropicVars, classifyVars, usageVars, doorVars, translateVars, reportVars, engineVars>>
       \/ /\ part \in {"classify", "crowd"} /\ ClassifyPart
          /\ UNCHANGED <<streamVars, usageVars, doorVars, translateVars, reportVars, engineVars>>
       \/ /\ part = "usage" /\ NextUsageStats
          /\ UNCHANGED <<streamVars, classifyVars, doorVars, translateVars, reportVars, engineVars>>
       \/ /\ part = "doors" /\ NextDoors
          /\ UNCHANGED <<streamVars, classifyVars, usageVars, translateVars, reportVars, engineVars>>
       \/ /\ part = "translate" /\ TranslatePart
          /\ UNCHANGED <<streamVars, classifyVars, usageVars, doorVars, reportVars, engineVars>>
       \/ /\ part \in {"reports", "pages"} /\ ReportsPart
          /\ UNCHANGED <<streamVars, classifyVars, usageVars, doorVars, translateVars, engineVars>>
       \/ /\ part \in {"engine", "judges"} /\ EnginePart
          /\ UNCHANGED <<streamVars, classifyVars, usageVars, doorVars, translateVars, reportVars>>

Spec == ServingInit /\ [][ServingNext]_servingVars
=============================================================================

------------------------------ MODULE Judgement ------------------------------
(* What inference-service computes for a question, without its models:      *)
(* which texts of a conversation are judged (utils/input_builder.py), and   *)
(* how the raw scores of the judges become a tier (utils/scoring.py), by a  *)
(* configuration that has been normalized (utils/runtime_config.py).        *)
(*                                                                          *)
(* A text is a name, and Hard says how hard the models find it.  Scores and *)
(* bands are in hundredths, rounded down.                                   *)
EXTENDS Integers, SequencesExt

CONSTANTS
    Judges,      \* FIVEWAY_ROUTE_ORDER
    Hard,        \* Hard[t]: the raw score of the text t
    NotFinite,   \* a raw score that is no number
    Likeness,    \* Likeness[t][j]: weight of the prototype of j for the text t
    RangeLow, RangeHigh,    \* NORMALIZE_RANGES, of every judge
    Unfinite,    \* 1.0, what stands for a raw score that is no number
    TierCount    \* 5

(* A message has a role, and a text that may be empty or missing; one of    *)
(* the assistant may have calls of tools.                                   *)
NoText == ""
JudgedTexts == DOMAIN Hard
Messages == [role: STRING, text: JudgedTexts, calls: BOOLEAN, bare: BOOLEAN]

(* A weight of a prototype is positive: it is a softmax.                    *)
ASSUME JudgementAssumption ==
    /\ RangeLow \in Int /\ RangeHigh \in Int /\ RangeLow < RangeHigh
    /\ Unfinite \in Int /\ TierCount \in Nat \ {0}
    /\ IsFiniteSet(Judges) /\ Judges # {}
    /\ {NoText, "N/A", "whole", "marked", "calls"} \subseteq JudgedTexts
    /\ Hard \in [JudgedTexts -> Int \cup {NotFinite}]
    /\ Likeness \in [JudgedTexts -> [Judges -> Nat \ {0}]]

-----------------------------------------------------------------------------
(* Which messages of a conversation are of the user, and which say          *)
(* something.                                                               *)
OfUser(talk) == {i \in DOMAIN talk : talk[i].role = "user"}
Said(talk) == {i \in DOMAIN talk : talk[i].text # NoText}

(* shared_record_from_chat_messages: the task is the last text of the user  *)
(* that is not empty.                                                       *)
ToolText(talk) ==
    LET said == OfUser(talk) \cap Said(talk)
    IN  IF said = {} THEN "N/A" ELSE talk[Max(said)].text

(* build_proto_semantic_text: the last text of the user, empty or not; the  *)
(* whole list when there is none, or when a message lacks its content.      *)
ProtoText(talk) ==
    IF (\E i \in DOMAIN talk : talk[i].bare) \/ OfUser(talk) = {}
    THEN "whole" ELSE talk[Max(OfUser(talk))].text

(* build_full_llm_input_for_chat_messages: what a message adds.  A tool's   *)
(* result is marked and never empty.  The order does not matter: RawScore   *)
(* takes the hardest.                                                       *)
Turn(m) ==
    CASE m.role = "tool" /\ m.text = NoText      -> "marked"
      [] m.role = "assistant" /\ m.text = NoText -> IF m.calls THEN "calls" ELSE NoText
      [] OTHER                                  -> m.text

FullChat(talk) ==
    LET turns == {Turn(talk[i]) : i \in DOMAIN talk} \ {NoText}
    IN  IF turns = {} THEN {"N/A"} ELSE turns

-----------------------------------------------------------------------------
(* normalize_config.  A tier that a band names is not compared with the     *)
(* tiers there are.                                                         *)
Bands == Seq([from: Int, to: Int, tier: Int])

Weighed(weights) ==
    /\ \A j \in Judges : weights[j] >= 0
    /\ \E j \in Judges : weights[j] > 0

Banded(bands) == bands # <<>> /\ \A i \in DOMAIN bands : bands[i].from <= bands[i].to

Normal(config) ==
    /\ Weighed(config.weights) /\ Banded(config.bands)
    /\ config.tiers = 1..TierCount

-----------------------------------------------------------------------------
Least(a, b) == IF a < b THEN a ELSE b
Most(a, b) == IF a < b THEN b ELSE a
Clip(x, low, high) == Most(low, Least(high, x))

(* What the model says of several texts at once: as hard as the hardest.    *)
RawScore(texts) ==
    LET raw == {IF Hard[t] = NotFinite THEN Unfinite ELSE Hard[t] : t \in texts}
    IN  Max(raw)

(* minmax_scale_to_0_2                                                      *)
Scaled(raw) == (200 * (Clip(raw, RangeLow, RangeHigh) - RangeLow)) \div (RangeHigh - RangeLow)

Average(scores, weights) ==
    LET sum(f) == FoldFunction(+, 0, f)
    IN  sum([j \in Judges |-> scores[j] * weights[j]]) \div sum([j \in Judges |-> weights[j]])

(* scale_final_score_to_0_10 with the bounds 0.40 and 1.45                  *)
Spread(average) == Clip((1000 * (average - 40)) \div 105, 0, 1000)

(* The weights of the configuration count only without prototypes.          *)
TotalScore(scores, prototypes, text, weights) ==
    IF prototypes THEN Spread(Average(scores, Likeness[text]))
    ELSE 5 * Average(scores, weights)

(* resolve_score_band: the first band that has the score.  Below the first  *)
(* band, the first tier; in a gap, or above, the last.                      *)
BandTier(score, bands) ==
    LET hits == {i \in DOMAIN bands : bands[i].from <= score /\ score <= bands[i].to}
    IN  IF hits # {} THEN bands[Min(hits)].tier
        ELSE IF score < bands[1].from THEN bands[1].tier ELSE Last(bands).tier
=============================================================================

------------------------------ MODULE Translate ------------------------------
(* A conversation, and the answer to it, carried between the protocols of   *)
(* the three doors and those of the providers                               *)
(* (services/anthropic_convert.py, responses_convert.py,                    *)
(* anthropic_backend.py, upstream_dispatch.py).  A part of a message is its *)
(* kind and a number; a result has the number of the call it answers.       *)
EXTENDS Naturals, Sequences, SequencesExt

CONSTANTS TalkBound,    \* messages of a conversation, and items of an input
          AnswerBound   \* parts of an answer

ASSUME TranslateAssumption == TalkBound \in Nat /\ AnswerBound \in Nat

VARIABLES talk,    \* a conversation in the protocol of Anthropic
          input,   \* the input of a Responses request
          uttered,  \* the parts of an answer of Anthropic
          wish     \* what a request asks for beside the conversation

translateVars == <<talk, input, uttered, wish>>

Part(kind, n) == [kind |-> kind, n |-> n]
Each(seq, Op(_)) == [i \in DOMAIN seq |-> Op(seq[i])]
Joined(seqs) == FoldLeft(LAMBDA all, seq : all \o seq, <<>>, seqs)
Among(seq, S) == FoldLeft(LAMBDA kept, x : IF x \in S THEN Append(kept, x) ELSE kept, <<>>, seq)
Only(parts, kinds) == Among(parts, {p \in Range(parts) : p.kind \in kinds})

(* A message of OpenAI: what is said, and for role assistant the calls, or  *)
(* for role tool the call it answers.                                       *)
Message(role, parts, calls) == [role |-> role, parts |-> parts, calls |-> calls]
ToolMessage(result) == Message("tool", <<result>>, <<>>)
Unless(empty, seq) == IF empty THEN <<>> ELSE seq

-----------------------------------------------------------------------------
(* Requests. *)

(* One message of anthropic_to_openai_request: what is said comes first,    *)
(* the results after it.                                                    *)
ToOpenAI(m) ==
    LET said    == Only(m.parts, {"text", "image"})
        calls   == Only(m.parts, {"call"})
        results == Only(m.parts, {"result"})
    IN  (IF m.role = "assistant" /\ calls # <<>>
         THEN <<Message("assistant", said, calls)>>
         ELSE Unless(said = <<>>, <<Message(m.role, said, <<>>)>>))
        \o Each(results, ToolMessage)

(* Variant: the results of a turn share one message. *)
AnthropicToOpenAIJoined(turns) ==
    Joined(Each(turns, LAMBDA m :
        LET results == Only(m.parts, {"result"})
        IN  IF results = <<>> THEN ToOpenAI(m)
            ELSE <<Message("tool", <<results[1]>>, <<>>)>>))

AnthropicToOpenAI(turns) == Joined(Each(turns, ToOpenAI))

(* responses_to_openai_request keeps calls until something else comes.      *)
Flushed(state) ==
    state.out \o Unless(state.pending = <<>>, <<Message("assistant", <<>>, state.pending)>>)

TakeItem(state, item) ==
    CASE item.kind = "call" -> [state EXCEPT !.pending = Append(@, item)]
      [] item.kind = "result" ->
             [out |-> Append(Flushed(state), ToolMessage(item)), pending |-> <<>>]
      [] item.kind \in {"system", "user", "assistant"} ->
             [out |-> Append(Flushed(state),
                             Message(item.kind, <<Part("text", item.n)>>, <<>>)),
              pending |-> <<>>]
      [] OTHER -> state

ResponsesToOpenAI(items) ==
    Flushed(FoldLeft(TakeItem, [out |-> <<>>, pending |-> <<>>], items))

(* _openai_to_anthropic_params: what the system says is gathered apart.     *)
ToolTurn(m) == [role |-> "user", parts |-> m.parts]
AssistantTurn(m) == [role |-> "assistant", parts |-> Only(m.parts, {"text"}) \o m.calls]
UserTurn(m) == [role |-> "user", parts |-> m.parts]

OpenAIToAnthropic(messages) ==
    LET system == Among(messages, {m \in Range(messages) : m.role = "system"})
        others == Among(messages, {m \in Range(messages) : m.role # "system"})
    IN  [system |-> Joined(Each(system, LAMBDA m : m.parts)),
         turns  |-> Each(others, LAMBDA m : CASE m.role = "tool" -> ToolTurn(m)
                                              [] m.role = "assistant" -> AssistantTurn(m)
                                              [] OTHER -> UserTurn(m))]

(* What is asked for.  Each protocol has a word for it or drops it: choice  *)
(* is the tool_choice, and the name it carries may be lost.                 *)
ToolChoices == {"unset", "auto", "any", "none", "tool", "nameless"}
Extras  == {"limit", "warmth", "top_k", "stop", "tools", "hosted", "user"}

AnthropicWish(w) ==
    [choice |-> IF w.choice = "none" THEN "unset" ELSE w.choice,
     extras |-> w.extras \ {"hosted"}]

NativeWish(w) == w

(* A choice of one tool is {type, name} in the Responses protocol and       *)
(* passed on as it is; hosted tools, too.                                   *)
ResponsesWish(w) ==
    [choice |-> IF w.choice = "tool" THEN "nameless" ELSE w.choice,
     extras |-> w.extras \ {"top_k", "stop", "user"}]

WishToAnthropic(w) ==
    [choice |-> IF w.choice = "none" THEN "unset" ELSE w.choice,
     extras |-> (w.extras \ {"top_k", "user", "hosted"}) \cup {"limit"}]

(* dispatch. *)
DispatchedWish(door, provider, w) ==
    LET asked == CASE door = "messages"  -> AnthropicWish(w)
                   [] door = "responses" -> ResponsesWish(w)
                   [] OTHER -> w
    IN  IF provider # "anthropic" THEN asked
        ELSE IF door = "messages" THEN NativeWish(w)
        ELSE WishToAnthropic(asked)

-----------------------------------------------------------------------------
(* Answers that are not streamed. *)

(* _anthropic_resp_to_openai: thoughts go to the front, the last one first. *)
AnthropicAnswerToOpenAI(parts) ==
    Message("assistant", Reverse(Only(parts, {"thought"})) \o Only(parts, {"text"}),
            Only(parts, {"call"}))

OrEmpty(parts) == IF parts = <<>> THEN <<Part("text", 0)>> ELSE parts

(* openai_to_anthropic_response: of several thoughts it finds the first.    *)
OpenAIAnswerToAnthropic(m) ==
    LET thoughts == Only(m.parts, {"thought"})
    IN  OrEmpty(Unless(thoughts = <<>>, <<Head(thoughts)>>)
                  \o Only(m.parts, {"text"}) \o m.calls)

(* strip_think_tags, at the doors of OpenAI.                                *)
Stripped(m) == [m EXCEPT !.parts = Only(@, {"text"})]

OpenAIAnswerToResponses(m) == OrEmpty(m.parts \o m.calls)

-----------------------------------------------------------------------------
TranslateInit ==
    /\ talk = <<>> /\ input = <<>> /\ uttered = <<>>
    /\ wish \in [choice : ToolChoices \ {"nameless"}, extras : SUBSET Extras]

Phrasings == {<<>>, <<"text">>, <<"image", "text">>}
PartsOf(kinds, n) == [i \in DOMAIN kinds |-> Part(kinds[i], n + i)]
Written == Joined(Each(talk, LAMBDA m : m.parts))
Asked == IF talk = <<>> THEN <<>> ELSE Only(Last(talk).parts, {"call"})
AnswerTo(call) == Part("result", call.n)

(* Every call of the assistant is answered in the next message of the user, *)
(* which may say something beside.                                          *)
UserSays(kinds) ==
    /\ Len(talk) < TalkBound /\ (talk # <<>> => Last(talk).role = "assistant")
    /\ Asked = <<>> => kinds # <<>>
    /\ talk' = Append(talk, [role |-> "user",
                  parts |-> Each(Asked, AnswerTo) \o PartsOf(kinds, Len(Written))])
    /\ UNCHANGED <<input, uttered, wish>>

AssistantSays(kinds) ==
    /\ Len(talk) < TalkBound /\ talk # <<>> /\ Last(talk).role = "user"
    /\ talk' = Append(talk, [role |-> "assistant", parts |-> PartsOf(kinds, Len(Written))])
    /\ UNCHANGED <<input, uttered, wish>>

Unanswered ==
    {i \in DOMAIN input : /\ input[i].kind = "call"
                          /\ ~\E j \in DOMAIN input : input[j] = Part("result", input[i].n)}

ItemComes(item) ==
    /\ Len(input) < TalkBound
    /\ item.kind = "result" => \E i \in Unanswered : input[i].n = item.n
    /\ item.kind # "result" => item.n = Len(input) + 1
    /\ input' = Append(input, item)
    /\ UNCHANGED <<talk, uttered, wish>>

ProviderSays(kind) ==
    /\ Len(uttered) < AnswerBound
    /\ uttered' = Append(uttered, Part(kind, Len(uttered) + 1))
    /\ UNCHANGED <<talk, input, wish>>

NextTranslate ==
    \/ \E kinds \in Phrasings : UserSays(kinds)
    \/ \E kinds \in {<<"text">>, <<"call">>, <<"text", "call">>, <<"thought", "call", "call">>,
                     <<"thought">>} :
          AssistantSays(kinds)
    \/ \E kind \in {"call", "result", "system", "user", "assistant", "other"}, n \in 1 .. TalkBound :
          ItemComes(Part(kind, n))
    \/ \E kind \in {"thought", "text", "call"} : ProviderSays(kind)

TranslateSpec == TranslateInit /\ [][NextTranslate]_translateVars

-----------------------------------------------------------------------------
Flat(messages) == Joined(Each(messages, LAMBDA m : m.parts \o m.calls))
ResultsFirst(parts) == Only(parts, {"text", "image"}) \o Only(parts, {"result"})

(* What stands between a call and its result in messages of OpenAI.         *)
Between(messages, i) ==
    {messages[j].role : j \in {k \in 1 .. i - 1 :
        \A l \in k .. i - 1 : messages[l].calls = <<>>}}

Carried(turns) == Joined(Each(turns, LAMBDA m :
    IF m.role = "user" THEN ResultsFirst(m.parts) ELSE Only(m.parts, {"text", "call"})))

(* Everything that is said, called and answered arrives, once and in order, *)
(* at a provider of OpenAI, except that what a user says beside the results *)
(* of a turn comes before them; a tool message follows its call with        *)
(* nothing else between, except for that.  Thoughts are not carried.        *)
TalkArrives ==
    LET messages == AnthropicToOpenAI(talk)
    IN  /\ Flat(messages) = Carried(talk)
        /\ \A i \in DOMAIN messages : messages[i].role = "tool" =>
              /\ \E j \in 1 .. i - 1 :
                    Part("call", messages[i].parts[1].n) \in Range(messages[j].calls)
              /\ Between(messages, i) \subseteq {"tool", "user"}
              /\ "user" \in Between(messages, i) =>
                    \E k \in DOMAIN talk : /\ messages[i].parts[1] \in Range(talk[k].parts)
                                           /\ Only(talk[k].parts, {"text", "image"}) # <<>>

AsPart(item) ==
    IF item.kind \in {"system", "user", "assistant"} THEN Part("text", item.n) ELSE item
Wanted(kinds) == Each(Only(input, kinds), AsPart)

(* An input of the Responses protocol arrives in its order; carried on to   *)
(* Anthropic it still does, with what the system says in front.             *)
InputArrives ==
    LET messages == ResponsesToOpenAI(input)
        carried  == OpenAIToAnthropic(messages)
    IN  /\ Flat(messages) = Wanted({"call", "result", "system", "user", "assistant"})
        /\ carried.system = Wanted({"system"})
        /\ Joined(Each(carried.turns, LAMBDA m : m.parts)) =
              Wanted({"call", "result", "user", "assistant"})

(* Texts and calls of an answer reach the client once and in order, texts   *)
(* first; an empty answer is an empty text; one thought at most is shown,   *)
(* and none at the doors of OpenAI.                                         *)
AnswerArrives ==
    LET m == AnthropicAnswerToOpenAI(uttered)
        wanted == Only(uttered, {"text"}) \o Only(uttered, {"call"})
        shown == OpenAIAnswerToAnthropic(m)
    IN  /\ OpenAIAnswerToResponses(Stripped(m)) = OrEmpty(wanted)
        /\ Only(shown, {"thought"}) =
              Unless(Only(uttered, {"thought"}) = <<>>, <<Last(Only(uttered, {"thought"}))>>)
        /\ Only(uttered, {"thought"}) = <<>> => shown = OrEmpty(wanted)

(* What the protocols have words for. *)
SayableAt(door) ==
    CASE door = "chat" -> Extras \ {"hosted"}
      [] door = "messages" -> Extras
      [] OTHER -> {"limit", "warmth", "tools", "hosted"}
SayableTo(provider) ==
    IF provider = "openai" THEN Extras \ {"top_k", "hosted"} ELSE Extras

(* What a request asks for arrives at every provider that has a word for    *)
(* it, but for the user, hosted tools and top_k that are translated to      *)
(* Anthropic; a tool_choice arrives, but for "none" where it is translated  *)
(* and one tool named at the Responses door.  A provider of OpenAI is sent  *)
(* nothing it has no word for but top_k and hosted tools.                   *)
WishArrives ==
    \A door \in {"chat", "messages", "responses"}, provider \in {"openai", "anthropic"} :
       LET said == wish.extras \cap SayableAt(door)
           got  == DispatchedWish(door, provider, [wish EXCEPT !.extras = said])
           translated == <<door, provider>> \notin {<<"chat", "openai">>, <<"responses", "openai">>,
                                                  <<"messages", "anthropic">>}
       IN  /\ \/ got.choice = wish.choice
              \/ wish.choice = "none" /\ translated
              \/ wish.choice = "tool" /\ door = "responses"
           /\ (said \cap SayableTo(provider)) \ got.extras \subseteq
                 IF translated /\ provider = "anthropic" THEN {"user", "hosted", "top_k"} ELSE {}
           /\ provider = "openai" => got.extras \subseteq SayableTo("openai") \cup {"top_k", "hosted"}

ConversationKept == TalkArrives /\ InputArrives /\ AnswerArrives /\ WishArrives
=============================================================================

--------------------------- MODULE ResponsesStream ---------------------------
(* A streamed answer told to a client of the Responses API (router:         *)
(* services/responses_convert.py, controllers/responses.py), from an        *)
(* OpenAI-like upstream or from an Anthropic one, whose events are first    *)
(* made into chunks (services/anthropic_backend.py).                        *)
(*                                                                          *)
(* An answer is a list of items: the text, and the tool calls.  Items are   *)
(* closed when upstream gives a finish reason; response.completed waits for *)
(* the chunk with the usage, or for the end.                                *)
EXTENDS Integers, FiniteSets, Sequences, SequencesExt, FiniteSetsExt, Folds

CONSTANTS ItemIndexes,     \* index of a tool call in the chunks of upstream
          CallLists,       \* the calls of tools that one chunk may bring
          ResponsesChunks  \* bound: chunks of one answer

ReplyCalls == [at : ItemIndexes, args : BOOLEAN]

ASSUME ResponsesAssumption ==
    /\ ItemIndexes \subseteq Nat /\ ResponsesChunks \in Nat
    /\ CallLists \subseteq Seq(ReplyCalls)

VARIABLES
    made,    \* the converter, and the events it has made
    reply,   \* the generator: "streaming", "closing", or the status logged
    feed,    \* upstream: its kind, its chunks so far, its current block
    upset    \* what upstream has done that excuses the answer

responsesVars == <<made, reply, feed, upset>>

(* Item 0 is the text, item i + 1 the call with index i. *)
Text == 0
ItemOf(i) == i + 1
ItemEvent(what, item, at) == [what |-> what, item |-> item, at |-> at]

NewReply == [created |-> FALSE, text |-> FALSE, tools |-> {}, pending |-> FALSE,
             finished |-> FALSE, sent |-> <<>>]

ResponsesInit ==
    /\ made = NewReply /\ reply = "calling"
    /\ feed \in [kind : {"openai", "anthropic"}, chunks : {0}, block : {"none"}, next : {0}]
    /\ upset = {}

-----------------------------------------------------------------------------
(* The events of the converter. *)
Tell(r, e) ==
    IF e.what = "delta" /\ r.sent # <<>> /\ Last(r.sent) = e THEN r
    ELSE [r EXCEPT !.sent = Append(@, e)]

Place(r, item) ==
    LET added == {i \in DOMAIN r.sent : r.sent[i].what = "added" /\ r.sent[i].item = item}
    IN  IF added = {} THEN 0 ELSE r.sent[CHOOSE i \in added : TRUE].at

Created(r) == Tell([r EXCEPT !.created = TRUE], ItemEvent("created", Text, 0))
Completed(r) == Tell([r EXCEPT !.finished = TRUE], ItemEvent("completed", Text, 0))

TextAdded(r) == Tell([r EXCEPT !.text = TRUE], ItemEvent("added", Text, 0))
TextDone(r)  == IF r.text THEN Tell(r, ItemEvent("done", Text, 0)) ELSE r

(* A call comes after the text, if the text has begun. *)
ToolAdded(r, i) ==
    Tell([r EXCEPT !.tools = @ \cup {i}],
         ItemEvent("added", ItemOf(i), (IF r.text THEN 1 ELSE 0) + i))

ToolDone(r, i) == Tell(r, ItemEvent("done", ItemOf(i), Place(r, ItemOf(i))))

(* The text, then the calls by their index. *)
ItemsDone(r) ==
    MapThenFoldSet(LAMBDA i, ended : ToolDone(ended, i), TextDone(r),
                   LAMBDA i : i, LAMBDA tools : Max(tools), r.tools)

TextDelta(r) ==
    Tell(IF r.text THEN r ELSE TextAdded(r), ItemEvent("delta", Text, 0))

ToolDelta(r, call) ==
    LET begun == IF call.at \in r.tools THEN r ELSE ToolAdded(r, call.at)
        item  == ItemOf(call.at)
    IN  IF call.args THEN Tell(begun, ItemEvent("delta", item, Place(begun, item)))
        ELSE begun

(* A chunk without choices ends an answer that waits for it, and one that   *)
(* has had no finish reason if it has usage.                                *)
UsageOnly(r, chunk) ==
    IF r.pending THEN Completed([r EXCEPT !.pending = FALSE])
    ELSE IF chunk.usage THEN Completed(ItemsDone(r))
    ELSE r

(* Variant: a finish reason completes the answer without closing the calls. *)
FilledTextOnly(r, chunk) ==
    LET texted == IF chunk.text THEN TextDelta(r) ELSE r
        called == FoldLeft(ToolDelta, texted, chunk.calls)
    IN  IF chunk.finish THEN [TextDone(called) EXCEPT !.pending = TRUE] ELSE called

Filled(r, chunk) ==
    LET texted == IF chunk.text THEN TextDelta(r) ELSE r
        called == FoldLeft(ToolDelta, texted, chunk.calls)
    IN  IF chunk.finish THEN [ItemsDone(called) EXCEPT !.pending = TRUE] ELSE called

ConvertReply(r, chunk) ==
    LET created == IF r.created THEN r ELSE Created(r)
    IN  IF r.finished THEN r
        ELSE IF chunk.choices THEN Filled(created, chunk)
        ELSE UsageOnly(created, chunk)

-----------------------------------------------------------------------------
(* Upstream. *)
ReplyChunk(text, calls, finish, usage) ==
    [text |-> text, calls |-> calls, finish |-> finish, usage |-> usage, choices |-> TRUE]

OpenAIChunks ==
    [text: BOOLEAN, calls: CallLists, finish: BOOLEAN, usage: {FALSE}, choices: {TRUE}]
    \cup [text: {FALSE}, calls: {<<>>}, finish: {FALSE}, usage: BOOLEAN, choices: {FALSE}]

(* Events of Anthropic that make a chunk.  Blocks come one after the other; *)
(* a call has the index of its block.                                       *)
AnthropicEvents(f) ==
    {"text_delta", "tool_use", "message_delta"}
    \cup IF f.block = "tool" THEN {"input_json_delta"} ELSE {}

Begins(f, event) ==
    \/ event = "tool_use"
    \/ event = "text_delta" /\ f.block # "text"

NormalizedChunk(f, event) ==
    CASE event = "text_delta"       -> ReplyChunk(TRUE, <<>>, FALSE, FALSE)
      [] event = "tool_use"         ->
            ReplyChunk(FALSE, <<[at |-> f.next, args |-> FALSE]>>, FALSE, FALSE)
      [] event = "input_json_delta" ->
            ReplyChunk(FALSE, <<[at |-> f.next - 1, args |-> TRUE]>>, FALSE, FALSE)
      [] OTHER                      -> ReplyChunk(FALSE, <<>>, TRUE, TRUE)

-----------------------------------------------------------------------------
(* The handler. *)

(* No channel answers: the log has 502, the client a completed response.    *)
UpstreamRefuses ==
    /\ reply = "calling" /\ reply' = "502"
    /\ made' = Completed(Created(made))
    /\ upset' = upset \cup {"broken"}
    /\ UNCHANGED feed

StreamBegins ==
    /\ reply = "calling" /\ reply' = "streaming"
    /\ UNCHANGED <<made, feed, upset>>

(* Upstream goes on after its finish reason, or adds text after a call.     *)
Upsets(chunk) ==
    {u \in {"closed", "loose", "late"} :
        /\ ~made.finished
        /\ \/ u = "closed" /\ (chunk.finish \/ (~chunk.choices /\ chunk.usage))
           \/ u = "loose" /\ chunk.choices /\ made.pending
           \/ u = "late" /\ chunk.text /\ ~made.text /\ made.tools # {}}

Takes(chunk) ==
    /\ reply = "streaming"
    /\ made' = ConvertReply(made, chunk)
    /\ upset' = upset \cup Upsets(chunk)
    /\ UNCHANGED reply

OpenAIChunk(chunk) ==
    /\ feed.kind = "openai" /\ feed.chunks < ResponsesChunks
    /\ Takes(chunk)
    /\ feed' = [feed EXCEPT !.chunks = @ + 1]

AnthropicEvent(event) ==
    /\ feed.kind = "anthropic" /\ feed.chunks < ResponsesChunks
    /\ feed.block # "stopped" /\ event \in AnthropicEvents(feed)
    /\ Begins(feed, event) => feed.next \in ItemIndexes
    /\ Takes(NormalizedChunk(feed, event))
    /\ feed' = [feed EXCEPT
                  !.chunks = @ + 1,
                  !.block = CASE event = "text_delta"    -> "text"
                              [] event = "message_delta" -> "stopped"
                              [] OTHER                   -> "tool",
                  !.next = IF Begins(feed, event) THEN @ + 1 ELSE @]

(* The stream ends.  Without a finish reason the text is closed, the calls  *)
(* are not.                                                                 *)
FeedEnds ==
    /\ reply = "streaming"
    /\ feed.kind = "anthropic" => feed.block = "stopped"
    /\ reply' = "closing"
    /\ made' = IF made.finished THEN made
               ELSE Completed(IF made.pending THEN made ELSE TextDone(made))
    /\ UNCHANGED <<feed, upset>>

LogReply ==
    /\ reply = "closing" /\ reply' = "200"
    /\ UNCHANGED <<made, feed, upset>>

(* The stream breaks off; the client is told that the response is complete. *)
FeedBreaks ==
    /\ reply = "streaming" /\ reply' = "502"
    /\ made' = IF made.finished THEN made ELSE Completed(made)
    /\ upset' = upset \cup {"broken"}
    /\ UNCHANGED feed

ReaderGoes ==
    /\ reply \in {"streaming", "closing"} /\ reply' = "499"
    /\ UNCHANGED <<made, feed, upset>>

NextResponsesStream ==
    \/ UpstreamRefuses \/ StreamBegins
    \/ \E chunk \in OpenAIChunks : OpenAIChunk(chunk)
    \/ \E event \in AnthropicEvents(feed) : AnthropicEvent(event)
    \/ FeedEnds \/ LogReply \/ FeedBreaks \/ ReaderGoes

ResponsesSpec == ResponsesInit /\ [][NextResponsesStream]_responsesVars

-----------------------------------------------------------------------------
ReplyEvents ==
    [what: {"created", "added", "delta", "done", "completed"}, item: Nat, at: Nat]
Replies ==
    [created: BOOLEAN, text: BOOLEAN, tools: SUBSET ItemIndexes, pending: BOOLEAN,
     finished: BOOLEAN, sent: Seq(ReplyEvents)]

ResponsesTypeOK ==
    /\ made \in Replies
    /\ reply \in {"calling", "streaming", "closing", "200", "499", "502"}
    /\ upset \subseteq {"closed", "loose", "late", "broken"}

EventsOf(what, item) ==
    {i \in DOMAIN made.sent : made.sent[i].what = what /\ made.sent[i].item = item}
ItemsTold == {made.sent[i].item : i \in {j \in DOMAIN made.sent : made.sent[j].what = "added"}}

(* A client that gets response.completed has had every item closed once,    *)
(* after all its deltas, unless upstream broke off, or ended with a tool    *)
(* call and neither a finish reason nor usage, or went on after its finish  *)
(* reason.  Items are added once, before their deltas, and have places of   *)
(* their own unless the text begins after a tool call.  Nothing follows     *)
(* response.completed, and a call logged as 200 was completed.              *)
ItemsCompleted ==
    /\ \A i \in EventsOf("completed", Text) : i = Len(made.sent)
    /\ reply = "200" => made.finished
    /\ \A item \in ItemsTold :
          /\ Cardinality(EventsOf("added", item)) = 1
          /\ \A a \in EventsOf("added", item), d \in EventsOf("delta", item) : a < d
          /\ made.finished /\ upset \cap {"loose", "broken"} = {} =>
                /\ item = Text \/ "closed" \in upset =>
                      Cardinality(EventsOf("done", item)) = 1
                /\ \A d \in EventsOf("delta", item), e \in EventsOf("done", item) : d < e
    /\ "late" \notin upset =>
          \A x, y \in ItemsTold : Place(made, x) = Place(made, y) => x = y
=============================================================================

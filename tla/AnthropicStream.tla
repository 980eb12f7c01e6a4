--------------------------- MODULE AnthropicStream ---------------------------
(* A streamed answer of an OpenAI-like upstream, told to an Anthropic       *)
(* client (router: services/anthropic_convert.py, controllers/messages.py). *)
(*                                                                          *)
(* The converter is a state machine fed with chunks.  A text is a sequence  *)
(* of pieces: a tag, or what is between tags.  Until it has seen <think> it *)
(* holds back the last six characters, which may be the head of that tag.   *)
EXTENDS Integers, FiniteSets, Sequences, SequencesExt

CONSTANTS CallIndexes,     \* index of a tool call in the chunks of upstream
          Deltas,          \* what a chunk may bring: a text and calls of tools
          AnthropicChunks  \* bound: chunks of one answer

(* A text has whole tags only.                                              *)
TextPieces == {"blank", "word", "long", "think", "unthink"}
ToolCalls == [at : CallIndexes, args : BOOLEAN]

ASSUME AnthropicAssumption ==
    /\ CallIndexes \subseteq Nat /\ AnthropicChunks \in Nat
    /\ Deltas \subseteq Seq(TextPieces) \X Seq(ToolCalls)

VARIABLES
    told,     \* the converter, and the events it has made
    answer,   \* the generator: "streaming", "closing", or the status logged
    chunks    \* number of chunks upstream has sent

anthropicVars == <<told, answer, chunks>>

Kinds == {"text", "thinking", "tool"}
Outside == "none"
Unmapped == -1

(* Of the record only strayed is not the program's: upstream has gone back  *)
(* to an earlier call, or has called a tool in a thought.                   *)
NewConverter ==
    [started |-> FALSE, finished |-> FALSE, block |-> Outside, index |-> 0,
     toolAt |-> [i \in CallIndexes |-> Unmapped],
     think |-> "idle", held |-> "none", sent |-> <<>>, strayed |-> FALSE]

AnthropicInit ==
    /\ told = NewConverter /\ answer = "streaming"
    /\ chunks = 0

-----------------------------------------------------------------------------
(* What the converter emits: an event names a block by its index.  Deltas   *)
(* that follow each other in one block are told as one.                     *)
Event(what, kind, index) == [what |-> what, kind |-> kind, index |-> index]

Emit(c, e) ==
    IF e.what = "delta" /\ c.sent # <<>> /\ Last(c.sent) = e THEN c
    ELSE [c EXCEPT !.sent = Append(@, e)]

MessageStart(c) ==
    Emit([c EXCEPT !.started = TRUE], Event("message_start", Outside, 0))

OpenBlock(c, kind) ==
    Emit([c EXCEPT !.block = kind], Event("start", kind, c.index))

StopBlock(c) ==
    Emit([c EXCEPT !.block = Outside, !.index = @ + 1],
         Event("stop", Outside, c.index))

StopIfOpen(c) == IF c.block = Outside THEN c ELSE StopBlock(c)

PlainText(c) ==
    LET open == IF c.block = "text" THEN c ELSE OpenBlock(StopIfOpen(c), "text")
    IN  Emit(open, Event("delta", "text", open.index))

Thought(c) == Emit(c, Event("delta", "thinking", c.index))

FlushHeld(c) ==
    IF c.held # "none" /\ c.think = "idle"
    THEN [PlainText(c) EXCEPT !.held = "none"]
    ELSE c

FinishMessage(c) ==
    Emit([StopIfOpen(FlushHeld(c)) EXCEPT !.finished = TRUE],
         Event("message_stop", Outside, 0))

-----------------------------------------------------------------------------
(* A piece of text.  "blank" and "word" fit with what is held in the six    *)
(* characters, "long" does not; only a blank text before the tag is         *)
(* dropped.  A closing tag counts in a thought only.                        *)
Idle(c, piece) ==
    CASE piece = "blank" ->
            [c EXCEPT !.held = IF @ = "none" THEN "blank" ELSE @]
      [] piece = "word" -> [c EXCEPT !.held = "text"]
      [] piece = "think" ->
            LET before == IF c.held = "text" THEN PlainText(c) ELSE c
            IN  [OpenBlock(StopIfOpen(before), "thinking") EXCEPT
                    !.think = "thinking", !.held = "none"]
      [] OTHER -> [PlainText(c) EXCEPT !.held = "text"]

Thinking(c, piece) ==
    IF piece = "unthink" THEN [StopBlock(c) EXCEPT !.think = "done"]
    ELSE Thought(c)

ProcessPiece(c, piece) ==
    CASE c.think = "idle"     -> Idle(c, piece)
      [] c.think = "thinking" -> Thinking(c, piece)
      [] OTHER                -> PlainText(c)

ProcessText(c, text) == FoldLeft(ProcessPiece, c, text)

(* A call that is not the block that is open, or that begins in a thought.  *)
Strays(c, call) ==
    IF c.toolAt[call.at] = Unmapped THEN c.think = "thinking"
    ELSE c.toolAt[call.at] # c.index \/ c.block = Outside

BeginCall(c, call) ==
    [OpenBlock(c, "tool") EXCEPT !.toolAt[call.at] = c.index]

Arguments(c, call) ==
    IF call.args THEN Emit(c, Event("delta", "tool", c.toolAt[call.at])) ELSE c

(* Variant: a call leaves the block before it open. *)
ToolCallInside(c, call) ==
    LET noted == [c EXCEPT !.strayed = @ \/ Strays(c, call)]
    IN  Arguments(IF c.toolAt[call.at] = Unmapped THEN BeginCall(noted, call)
                  ELSE noted, call)

(* A call is known by its index; its arguments go to the block it began.    *)
ToolCall(c, call) ==
    LET noted == [c EXCEPT !.strayed = @ \/ Strays(c, call)]
    IN  Arguments(IF c.toolAt[call.at] = Unmapped THEN BeginCall(StopIfOpen(noted), call)
                  ELSE noted, call)

(* A chunk that has no choices ends the message if it has usage.            *)
ConvertChunk(c, chunk) ==
    LET started == IF c.started THEN c ELSE MessageStart(c)
        filled  == FoldLeft(ToolCall, ProcessText(started, chunk.text), chunk.calls)
    IN  IF c.finished THEN c
        ELSE IF (chunk.choices /\ chunk.finish) \/ (~chunk.choices /\ chunk.usage)
             THEN FinishMessage(filled)
             ELSE filled

(* What upstream may send.                                                  *)
Chunk(text, calls, finish) ==
    [text |-> text, calls |-> calls, finish |-> finish, choices |-> TRUE, usage |-> FALSE]
UsageChunks == {[Chunk(<<>>, <<>>, FALSE) EXCEPT !.choices = FALSE, !.usage = u] :
                   u \in BOOLEAN}
ChunksSent == UsageChunks \cup {Chunk(d[1], d[2], f) : d \in Deltas, f \in BOOLEAN}

-----------------------------------------------------------------------------
(* The generator _stream_anthropic_sse. *)

ChunkArrives(chunk) ==
    /\ answer = "streaming" /\ chunks < AnthropicChunks
    /\ chunks' = chunks + 1
    /\ told' = ConvertChunk(told, chunk)
    /\ UNCHANGED answer

(* Upstream ends; the message is finished if no chunk has done it.          *)
UpstreamEnds ==
    /\ answer = "streaming"
    /\ told' = IF told.finished THEN told ELSE FinishMessage(told)
    /\ answer' = "closing"
    /\ UNCHANGED chunks

LogAnswer ==
    /\ answer = "closing" /\ answer' = "200"
    /\ UNCHANGED <<told, chunks>>

(* Upstream breaks off: nothing more is told. *)
UpstreamBreaks ==
    /\ answer = "streaming" /\ answer' = "502"
    /\ UNCHANGED <<told, chunks>>

(* The client goes: at a yield, or while upstream is waited for.            *)
ClientGoes ==
    /\ answer \in {"streaming", "closing"} /\ answer' = "499"
    /\ UNCHANGED <<told, chunks>>

NextAnthropicStream ==
    \/ \E chunk \in ChunksSent : ChunkArrives(chunk)
    \/ UpstreamEnds \/ LogAnswer \/ UpstreamBreaks \/ ClientGoes

-----------------------------------------------------------------------------
AnthropicSpec == AnthropicInit /\ [][NextAnthropicStream]_anthropicVars

StreamEvents ==
    [what: {"message_start", "start", "delta", "stop", "message_stop"},
     kind: Kinds \cup {Outside}, index: Nat]
Converters ==
    [started: BOOLEAN, finished: BOOLEAN, block: Kinds \cup {Outside}, index: Nat,
     toolAt: [CallIndexes -> Nat \cup {Unmapped}], think: {"idle", "thinking", "done"},
     held: {"none", "blank", "text"}, sent: Seq(StreamEvents), strayed: BOOLEAN]

AnthropicTypeOK ==
    /\ told \in Converters /\ chunks \in 0..AnthropicChunks
    /\ answer \in {"streaming", "closing", "200", "499", "502"}

At(what) == {i \in DOMAIN told.sent : told.sent[i].what = what}
KindOf(index) ==
    {told.sent[i].kind : i \in {j \in At("start") : told.sent[j].index = index}}

(* The block that is open when event i is made: begun before, not stopped.  *)
OpenAt(i) ==
    {told.sent[j].index : j \in {k \in At("start") : k < i}}
    \ {told.sent[j].index : j \in {k \in At("stop") : k < i}}

(* A client can read the events: the message is started first, if upstream  *)
(* has sent anything; blocks begin one after the other, numbered from 0,    *)
(* and each is stopped before the next one begins and before the message    *)
(* is; nothing comes after that, and no text is left with the converter.    *)
(* Every delta is for the block that is open and of its kind, unless        *)
(* upstream goes back to an earlier call or calls a tool in a thought; and  *)
(* a call logged as 200 had its message stopped.                            *)
AnthropicFramed ==
    /\ chunks > 0 /\ told.sent # <<>> => At("message_start") = {1}
    /\ \A i \in At("start") : OpenAt(i) = {} /\ told.sent[i].index =
                                 Cardinality({j \in At("start") : j < i})
    /\ \A i \in At("stop") : OpenAt(i) = {told.sent[i].index}
    /\ \A i \in At("message_stop") : OpenAt(i) = {} /\ i = Len(told.sent)
    /\ \A i \in At("delta") :
          told.strayed \/ /\ OpenAt(i) = {told.sent[i].index}
                          /\ KindOf(told.sent[i].index) = {told.sent[i].kind}
    /\ told.finished => told.held = "none" \/ told.think # "idle"
    /\ answer = "200" => At("message_stop") # {}
=============================================================================

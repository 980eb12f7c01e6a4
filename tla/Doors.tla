-------------------------------- MODULE Doors --------------------------------
(* One call at one of the three doors of the router (controllers/chat.py,   *)
(* messages.py and responses.py), from the row it opens in the call log to  *)
(* the row it leaves behind, and what its client is told meanwhile.  The    *)
(* text itself is left out: the doors that translate a stream have modules  *)
(* of their own, and the way of the row is that of CallLogBuffer.           *)
EXTENDS Integers

CONSTANTS
    Pieces,    \* pieces of text an answer may have
    Counts,    \* what a provider may have counted
    Price,     \* of one token; Unit of them make a micro-yuan
    Unit,      \* 1_000_000 in the code
    Refusals   \* status codes of RoutingError

(* fresh: prompt tokens that were not cached. *)
Tokens == [fresh : Nat, cached : Nat, output : Nat]

ASSUME DoorsAssumption ==
    /\ Counts \subseteq Tokens /\ Price \in Tokens
    /\ {Pieces, Unit} \subseteq Nat \ {0} /\ Refusals \subseteq {400, 428, 502, 503}

VARIABLES
    handled,  \* the call, and what its client was told
    logged,   \* its row
    spoken    \* what the provider has counted and how much of it reported

doorVars == <<handled, logged, spoken>>

NoSight == [prompt |-> 0, cached |-> 0, completion |-> 0]

DoorsInit ==
    /\ handled = [door |-> "none", stream |-> FALSE, stage |-> "new", provider |-> "none",
                  moved |-> FALSE, said |-> 0, ended |-> FALSE, left |-> FALSE, code |-> 0,
                  blamed |-> "nobody"]
    /\ logged = [kept |-> FALSE, status |-> 0, provider |-> "none", scored |-> FALSE,
                 shown |-> FALSE, seen |-> NoSight, cost |-> 0]
    /\ spoken = [count |-> NoSight, reported |-> "none"]

Stage(s) == handled.stage = s
Through(door) == handled.door = door
Streamed == handled.stream /\ handled.stage \in {"speaking", "ending"}

(* update_call_log, when there was a create_call_log. *)
Log(row) == logged' = IF logged.kept THEN row ELSE logged

(* The call ends with an error, whose type blames the client or the server. *)
Over(code, blamed) == [handled EXCEPT !.stage = "over", !.code = code, !.blamed = blamed]
Blames(code, client) == IF code \in client THEN "client" ELSE "server"

(* The exception handlers go by the path, _openai_error by its own table.   *)
PathBlames(door, code) ==
    Blames(code, IF door = "messages" THEN {400, 401, 403, 404, 422, 429}
                                      ELSE {401, 403, 422, 429})
DoorBlames(code) ==
    IF Through("messages") THEN "client" ELSE Blames(code, {401, 402, 403, 429})

-----------------------------------------------------------------------------
(* compute_cost. *)

CeilDiv(a, b) == (a + b - 1) \div b
NonCached(seen) == IF seen.prompt > seen.cached THEN seen.prompt - seen.cached ELSE 0

Cost(seen) ==
    CeilDiv(NonCached(seen) * Price.fresh + seen.cached * Price.cached
              + seen.completion * Price.output, Unit)

(* What the handler sees of the count of the provider.  OpenAI counts the   *)
(* cached tokens into the prompt, Anthropic does not; _normalize_stream     *)
(* drops them.                                                              *)
OpenAISees(c) == [prompt |-> c.fresh + c.cached, cached |-> c.cached, completion |-> c.output]
AnthropicSees(c) == [prompt |-> c.fresh, cached |-> c.cached, completion |-> c.output]
NormalizedSees(c) == [prompt |-> c.fresh, cached |-> 0, completion |-> c.output]

Native == Through("messages") /\ handled.provider = "anthropic"

Sees(c) ==
    IF handled.provider # "anthropic" THEN OpenAISees(c)
    ELSE IF handled.stream /\ ~Native THEN NormalizedSees(c) ELSE AnthropicSees(c)

(* What a row is given of an answer that ended well.                        *)
Billed(row, seen) == [row EXCEPT !.status = 200, !.seen = seen, !.cost = Cost(seen)]

-----------------------------------------------------------------------------
(* What a dependency refuses with: the key, or what user-service says of it *)
(* (410 when it has expired), the body, the rate, or user-service is away.  *)
GateCodes == {401, 403, 410, 422, 429, 502, 503}

TurnedAway(door, code) ==
    /\ Stage("new")
    /\ handled' = [Over(code, PathBlames(door, code)) EXCEPT !.door = door]
    /\ UNCHANGED <<logged, spoken>>

(* Without a buffer nothing is logged; without funds the row is closed at   *)
(* once.                                                                    *)
Enter(door, stream, buffered, funds) ==
    /\ Stage("new")
    /\ handled' = [(IF funds THEN [handled EXCEPT !.stage = "routing"] ELSE Over(402, "client"))
                     EXCEPT !.door = door, !.stream = stream]
    /\ logged' = [logged EXCEPT !.kept = buffered,
                    !.status = IF buffered /\ ~funds THEN 402 ELSE 0]
    /\ UNCHANGED spoken

RoutingRefuses(code) ==
    /\ Stage("routing")
    /\ handled' = Over(code, DoorBlames(code)) /\ Log([logged EXCEPT !.status = code])
    /\ UNCHANGED spoken

(* ChannelRateLimited. *)
AllLimited ==
    /\ Stage("routing")
    /\ handled' = Over(429, "client") /\ Log([logged EXCEPT !.status = 429])
    /\ UNCHANGED spoken

Scored == {"chat", "messages"}

(* The row names the channel that was chosen first. *)
Routes(provider) ==
    /\ Stage("routing")
    /\ handled' = [handled EXCEPT !.stage = "calling", !.provider = provider]
    /\ Log([logged EXCEPT !.provider = provider, !.scored = handled.door \in Scored])
    /\ UNCHANGED spoken

(* An exception nothing catches: the answer is 500, the row stays open. *)
Unexpected ==
    /\ handled.stage \in {"routing", "calling"}
    /\ handled' = Over(500, PathBlames(handled.door, 500)) /\ UNCHANGED <<logged, spoken>>

ChatFails == Through("chat") /\ handled' = Over(502, "server")
                        /\ Log([logged EXCEPT !.status = 502, !.shown = TRUE])
MessagesFails == Through("messages") /\ handled' = Over(502, "server")
                                /\ Log([logged EXCEPT !.status = 502])

(* A stream of the Responses protocol is created and completed, with 200.   *)
ResponsesFails ==
    /\ Through("responses")
    /\ handled' = IF handled.stream THEN [Over(200, "nobody") EXCEPT !.ended = TRUE]
                  ELSE Over(502, "server")
    /\ Log([logged EXCEPT !.status = 502])

UpstreamFails ==
    /\ Stage("calling") /\ (ChatFails \/ MessagesFails \/ ResponsesFails)
    /\ UNCHANGED spoken

(* A retry may have gone to a channel of another provider. *)
UpstreamAnswers(provider, moved, count) ==
    /\ Stage("calling") /\ (~moved => provider = handled.provider)
    /\ handled' = [handled EXCEPT !.provider = provider, !.moved = moved,
                     !.stage = IF handled.stream THEN "speaking" ELSE "answered",
                     !.code = 200]
    /\ spoken' = [spoken EXCEPT !.count = count]
    /\ UNCHANGED logged

-----------------------------------------------------------------------------
(* The answer in one piece.  A usage that is missing counts as no tokens.   *)

ChatAnswers(counted) ==
    /\ Through("chat")
    /\ Log([Billed(logged, IF counted THEN Sees(spoken.count) ELSE NoSight)
              EXCEPT !.shown = TRUE])

NativeAnswers(counted) ==
    /\ Native
    /\ Log([Billed(logged, IF counted THEN AnthropicSees(spoken.count) ELSE NoSight)
              EXCEPT !.shown = TRUE])

MessagesAnswers(counted) ==
    /\ Through("messages") /\ ~Native
    /\ Log([Billed(logged, IF counted THEN Sees(spoken.count) ELSE NoSight)
              EXCEPT !.shown = TRUE])

ResponsesAnswers(counted) ==
    /\ Through("responses")
    /\ Log(Billed(logged, IF counted THEN Sees(spoken.count) ELSE NoSight))

Answers(counted) ==
    /\ Stage("answered")
    /\ \/ ChatAnswers(counted) \/ NativeAnswers(counted)
       \/ MessagesAnswers(counted) \/ ResponsesAnswers(counted)
    /\ handled' = [handled EXCEPT !.stage = "over", !.ended = TRUE]
    /\ spoken' = [spoken EXCEPT !.reported = IF counted THEN "all" ELSE "none"]

-----------------------------------------------------------------------------
(* The answer as a stream. *)

SaysPiece ==
    /\ Streamed /\ Stage("speaking") /\ handled.said < Pieces
    /\ handled' = [handled EXCEPT !.said = @ + 1]
    /\ UNCHANGED <<logged, spoken>>

(* message_start has the tokens of the prompt, message_delta those of the   *)
(* answer.                                                                  *)
NativeCounts ==
    /\ Streamed /\ Native /\ spoken.reported # "all"
    /\ spoken' = [spoken EXCEPT !.reported = IF @ = "none" THEN "start" ELSE "all"]
    /\ UNCHANGED <<handled, logged>>

ChunkCounts ==
    /\ Streamed /\ ~Native /\ spoken.reported = "none"
    /\ spoken' = [spoken EXCEPT !.reported = "all"]
    /\ UNCHANGED <<handled, logged>>

(* The last event, or [DONE], is with the client; the generator waits to be *)
(* asked for more.                                                          *)
SaysEnd ==
    /\ Streamed /\ Stage("speaking")
    /\ handled' = [handled EXCEPT !.stage = "ending", !.ended = TRUE]
    /\ UNCHANGED <<logged, spoken>>

SeenSoFar ==
    CASE spoken.reported = "none"  -> NoSight
      [] spoken.reported = "start" -> [AnthropicSees(spoken.count) EXCEPT !.completion = 0]
      [] OTHER                     -> Sees(spoken.count)

(* What the finally block writes at each door, status 200, 499 or 502.      *)
ChatFinally(status) ==
    Through("chat") => Log([(IF status = 200 /\ spoken.reported = "all"
                        THEN Billed(logged, SeenSoFar)
                        ELSE [logged EXCEPT !.status = status]) EXCEPT !.shown = TRUE])

(* Variant: what was counted is billed however the stream ended. *)
NativeFinallyBilled(status) ==
    Native => Log([Billed(logged, SeenSoFar) EXCEPT !.status = status, !.shown = TRUE])

NativeFinally(status) ==
    Native => Log([(IF status = 200 THEN Billed(logged, SeenSoFar)
                    ELSE [logged EXCEPT !.status = status]) EXCEPT !.shown = TRUE])

MessagesFinally(status) ==
    Through("messages") /\ ~Native =>
        Log([(IF status = 200 /\ spoken.reported = "all" THEN Billed(logged, SeenSoFar)
              ELSE [logged EXCEPT !.status = status]) EXCEPT !.shown = TRUE])

ResponsesFinally(status) ==
    Through("responses") => Log(IF status = 200 /\ spoken.reported = "all"
                           THEN Billed(logged, SeenSoFar)
                           ELSE [logged EXCEPT !.status = status])

Finally(status) ==
    /\ ChatFinally(status) /\ NativeFinally(status)
    /\ MessagesFinally(status) /\ ResponsesFinally(status)

StreamEnds ==
    /\ Streamed /\ Stage("ending")
    /\ Finally(200) /\ handled' = [handled EXCEPT !.stage = "over"]
    /\ UNCHANGED spoken

(* The provider breaks off.  A translated stream may have been ended by     *)
(* then; one of the Responses protocol is completed now, if it was not.     *)
StreamBreaks ==
    /\ Streamed /\ (Stage("ending") => ~Through("chat"))
    /\ Finally(502)
    /\ handled' = [handled EXCEPT !.stage = "over", !.ended = @ \/ Through("responses")]
    /\ UNCHANGED spoken

(* The client goes: the generator is cancelled, or closed later, and its    *)
(* finally block runs as a task of its own.                                 *)
ClientLeaves ==
    /\ Streamed
    /\ handled' = [handled EXCEPT !.stage = "leaving", !.left = TRUE]
    /\ UNCHANGED <<logged, spoken>>

AbortReported ==
    /\ Stage("leaving")
    /\ Finally(499) /\ handled' = [handled EXCEPT !.stage = "over"]
    /\ UNCHANGED spoken

NextDoors ==
    \/ \E door \in {"chat", "messages", "responses"}, stream, buffered, funds \in BOOLEAN :
          Enter(door, stream, buffered, funds)
    \/ \E door \in {"chat", "messages", "responses"}, code \in GateCodes : TurnedAway(door, code)
    \/ \E code \in Refusals : RoutingRefuses(code)
    \/ AllLimited
    \/ \E provider \in {"openai", "anthropic"} :
          \/ Routes(provider)
          \/ \E moved \in BOOLEAN, count \in Counts : UpstreamAnswers(provider, moved, count)
    \/ UpstreamFails \/ Unexpected
    \/ \E counted \in BOOLEAN : Answers(counted)
    \/ SaysPiece \/ NativeCounts \/ ChunkCounts \/ SaysEnd
    \/ StreamEnds \/ StreamBreaks \/ ClientLeaves \/ AbortReported

DoorsSpec == DoorsInit /\ [][NextDoors]_doorVars

-----------------------------------------------------------------------------
(* What the tokens are worth, whoever counted them.                         *)
Worth(c) == CeilDiv(c.fresh * Price.fresh + c.cached * Price.cached
                      + c.output * Price.output, Unit)

(* Who is blamed for an error fits its status, except that the doors of     *)
(* OpenAI call an expired key, a model that is not offered and one without  *)
(* a price errors of the server, as the door of Anthropic does an expired   *)
(* key, while it blames the client for whatever the routing refuses.        *)
BlameFits ==
    /\ handled.blamed = "client" =>
         \/ handled.code \in 400 .. 499
         \/ Through("messages") /\ handled.code \in Refusals
    /\ handled.blamed = "server" =>
         \/ handled.code >= 500
         \/ handled.code = 410
         \/ ~Through("messages") /\ handled.code \in {400, 428}

(* The row a call leaves tells what became of it.  It is open only if the   *)
(* handler raised; 200 means that the client was given the end, 499 that it *)
(* left, 502 that the provider failed, of which only a client of the        *)
(* Responses protocol, or one that had the end already, is not told.  Only  *)
(* a call that ended well is charged, and for all that was counted, except  *)
(* that cached tokens of Anthropic are not added to its prompt.  The row    *)
(* names another provider than the one that answered only after a retry,    *)
(* and shows the text of an answer if it has the scores of its routing.     *)
RowTellsOutcome ==
    /\ BlameFits
    /\ Stage("over") /\ logged.kept =>
       /\ logged.status = 0 <=> handled.code = 500
       /\ ~handled.stream /\ logged.status # 0 => logged.status = handled.code
       /\ logged.status = 200 => handled.ended /\ ~handled.left
       /\ logged.status = 499 <=> handled.left
       /\ logged.status = 502 /\ handled.ended => handled.stream /\ ~Through("chat")
       /\ logged.cost > 0 => logged.status = 200
       /\ logged.status = 200 =>
            /\ spoken.reported = "all" =>
                 IF handled.provider = "anthropic" /\ spoken.count.cached > 0
                 THEN logged.cost <= Worth(spoken.count)
                 ELSE logged.cost = Worth(spoken.count)
            /\ ~handled.moved => logged.provider = handled.provider
            /\ logged.shown = logged.scored
=============================================================================

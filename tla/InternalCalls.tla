---------------------------- MODULE InternalCalls ----------------------------
(* The calls of the router to user-service (common/internal.py): the        *)
(* validation of a key for a client that waits, and the periodic flush of   *)
(* the call-log buffer.  A call is signed with the time of the caller and a *)
(* shared secret.  Both kinds go through one circuit breaker, found by the  *)
(* name and address of the target, with settings of their own: a validation *)
(* tries again and opens the breaker, a flush does neither, but is refused  *)
(* while it is open, and the buffer takes a refusal for a failed flush.     *)
(*                                                                          *)
(* The unit of time is the interval of the flush.  What the flush sends is  *)
(* modelled in CallLogBuffer and CallLogPipeline; here a row is sent or     *)
(* lost.                                                                    *)
EXTENDS Integers, FiniteSets

CONSTANTS
    Validations,    \* requests that validate a key at a time
    LogRows,        \* rows of the call log
    AskAttempts,    \* INTERNAL_HTTP_MAX_RETRIES + 1
    OpenThreshold,  \* INTERNAL_HTTP_CIRCUIT_BREAKER_THRESHOLD
    CoolDown,       \* its cool-down, in intervals
    AskLimit,       \* intervals that may pass while one attempt waits
    FlushLimit,     \* intervals that may pass while a flush waits
    LogRetries,     \* CALLLOG_MAX_RETRIES
    Ttl,            \* request_ttl_seconds, in units of the skew
    MaxSkew         \* bound: difference of the clocks

ASSUME InternalAssumption ==
    /\ {AskAttempts, OpenThreshold, CoolDown} \subseteq Nat \ {0}
    /\ {AskLimit, FlushLimit, LogRetries, Ttl, MaxSkew} \subseteq Nat

VARIABLES
    ask,      \* ask[v]: a validation, and whether all was well since it was sent
    flush,    \* the task that flushes: "sleeping", "due" or "waiting"
    row,      \* row[x]: where the row is, its failed flushes
    breaker,  \* failures in a row, up to the threshold, and for how long it is open
    link,     \* user-service is up, and what it knows of the secret and the time
    quiet     \* history: intervals for which all has been well, up to a bound

internalVars == <<ask, flush, row, breaker, link, quiet>>

Bound == CoolDown + AskLimit + FlushLimit + 1
Resting == [stage |-> "idle", attempt |-> 1, age |-> 0, clean |-> TRUE]
Sleeping == [stage |-> "sleeping", age |-> 0, clean |-> TRUE]
NoRow == [place |-> "none", tries |-> 0, stored |-> FALSE]

InternalInit ==
    /\ ask = [v \in Validations |-> Resting]
    /\ flush = Sleeping
    /\ row = [x \in LogRows |-> NoRow]
    /\ breaker = [fails |-> 0, open |-> 0]
    /\ link = [up |-> TRUE, sameSecret |-> TRUE, skew |-> 0]
    /\ quiet = Bound

-----------------------------------------------------------------------------
(* What the caller signs, and what the receiver computes: the same caller,  *)
(* method, path, time and canonical body, each with its own secret.  The    *)
(* receiver also compares the time with its own.                            *)
Signature(secret, time) == <<secret, time>>
Accepts(l) ==
    /\ l.skew <= Ttl
    /\ Signature("caller's", 0) = Signature(IF l.sameSecret THEN "caller's" ELSE "another", 0)
Well(l) == l.up /\ Accepts(l)

(* How a call of the client can end: a 2xx, a 4xx of the service, a 403 of  *)
(* the check above, a transport error or a 5xx, a 2xx that is no JSON.  If  *)
(* all was well from its sending on, it is one of the first two.            *)
Endings(clean) == {"done", "refused"} \cup IF clean THEN {} ELSE {"denied", "failed", "garbled"}
Succeeds(ending) == ending \in {"done", "refused", "denied"}

(* Variant: the count that survives the cool-down keeps it open. *)
OpenByCount == breaker.fails >= OpenThreshold

Open == breaker.open > 0

RecordFailed(threshold, fails) ==
    LET count == IF fails + 1 < OpenThreshold THEN fails + 1 ELSE OpenThreshold IN
    breaker' = [fails |-> count,
                open |-> IF threshold > 0 /\ count >= threshold THEN CoolDown ELSE breaker.open]
RecordSucceeded == breaker' = [fails |-> 0, open |-> 0]

(* _record_success, _record_failure; what is no JSON is first the one and   *)
(* then the other.                                                          *)
Record(ending, threshold) ==
    CASE Succeeds(ending) -> RecordSucceeded
      [] ending = "failed" -> RecordFailed(threshold, breaker.fails)
      [] ending = "garbled" ->
            breaker' = [fails |-> 1, open |-> IF threshold = 1 THEN CoolDown ELSE 0]

-----------------------------------------------------------------------------
(* The client of the router is told 503 at once, or waits.                  *)
MayAsk == ~Open
BeginAsk(v) ==
    /\ ask[v] = Resting /\ MayAsk
    /\ ask' = [ask EXCEPT ![v] = [Resting EXCEPT !.stage = "waiting", !.clean = Well(link)]]
    /\ UNCHANGED <<flush, row, breaker, link, quiet>>

(* The last attempt, or an answer that is not tried again.                  *)
EndAsk(v, ending) ==
    /\ ask[v].stage = "waiting" /\ ending \in Endings(ask[v].clean)
    /\ ending = "failed" => ask[v].attempt = AskAttempts
    /\ ask' = [ask EXCEPT ![v] = Resting]
    /\ Record(ending, OpenThreshold)
    /\ UNCHANGED <<flush, row, link, quiet>>

AskAgain(v) ==
    /\ ask[v].stage = "waiting" /\ ~ask[v].clean /\ ask[v].attempt < AskAttempts
    /\ ask' = [ask EXCEPT ![v] = [stage |-> "waiting", attempt |-> ask[v].attempt + 1,
                                  age |-> 0, clean |-> Well(link)]]
    /\ UNCHANGED <<flush, row, breaker, link, quiet>>

-----------------------------------------------------------------------------
RecordRow(x) ==
    /\ row[x] = NoRow
    /\ row' = [row EXCEPT ![x].place = "buffer"]
    /\ UNCHANGED <<ask, flush, breaker, link, quiet>>

Batch(place) == {x \in LogRows : row[x].place = place}

(* A flush that was not answered with a 2xx and JSON, or not sent.  Its     *)
(* rows go back until they have been tried LogRetries + 1 times.            *)
Returned(batch, stored) ==
    row' = [x \in LogRows |->
              IF x \notin batch THEN row[x]
              ELSE [place |-> IF row[x].tries < LogRetries THEN "buffer" ELSE "lost",
                    tries |-> row[x].tries + 1, stored |-> row[x].stored \/ stored]]

FlushNothing ==
    /\ flush.stage = "due" /\ Batch("buffer") = {}
    /\ flush' = Sleeping
    /\ UNCHANGED <<ask, row, breaker, link, quiet>>

FlushRefused ==
    /\ flush.stage = "due" /\ Batch("buffer") # {} /\ Open
    /\ Returned(Batch("buffer"), FALSE)
    /\ flush' = Sleeping
    /\ UNCHANGED <<ask, breaker, link, quiet>>

FlushSent ==
    /\ flush.stage = "due" /\ Batch("buffer") # {} /\ ~Open
    /\ row' = [x \in LogRows |->
                 IF x \in Batch("buffer") THEN [row[x] EXCEPT !.place = "sent"] ELSE row[x]]
    /\ flush' = [stage |-> "waiting", age |-> 0, clean |-> Well(link)]
    /\ UNCHANGED <<ask, breaker, link, quiet>>

(* user-service accepts every well-formed batch, so a flush that is well is *)
(* done; one that is not may have been carried out all the same.            *)
FlushEnds(ending) ==
    /\ flush.stage = "waiting" /\ ending \in Endings(flush.clean) \ {"refused"}
    /\ IF ending = "done"
       THEN row' = [x \in LogRows |-> IF x \in Batch("sent")
                                      THEN [row[x] EXCEPT !.place = "acknowledged", !.stored = TRUE]
                                      ELSE row[x]]
       ELSE \E stored \in BOOLEAN :
              /\ (ending = "denied" => ~stored) /\ (ending = "garbled" => stored)
              /\ Returned(Batch("sent"), stored)
    /\ flush' = Sleeping
    /\ Record(ending, 0)
    /\ UNCHANGED <<ask, link, quiet>>

-----------------------------------------------------------------------------
(* user-service goes down or comes back, a clock drifts or is set, one of   *)
(* the two gets another secret.  What is under way then is not clean.       *)
LinkTurns(l) ==
    /\ l # link
    /\ link' = l
    /\ ask' = [v \in Validations |-> [ask[v] EXCEPT !.clean =
                 IF ask[v].stage = "waiting" THEN @ /\ Well(l) ELSE @]]
    /\ flush' = [flush EXCEPT !.clean = IF flush.stage = "waiting" THEN @ /\ Well(l) ELSE @]
    /\ quiet' = IF Well(l) THEN quiet ELSE 0
    /\ UNCHANGED <<row, breaker>>

(* An interval ends.  What is due is begun and what has timed out is over.  *)
IntervalEnds ==
    /\ flush.stage # "due" /\ flush.age < FlushLimit
    /\ \A v \in Validations : ask[v].age < AskLimit
    /\ flush' = IF flush.stage = "sleeping" THEN [flush EXCEPT !.stage = "due"]
                ELSE [flush EXCEPT !.age = @ + 1]
    /\ ask' = [v \in Validations |-> [ask[v] EXCEPT !.age =
                 IF ask[v].stage = "waiting" THEN @ + 1 ELSE @]]
    /\ breaker' = [breaker EXCEPT !.open = IF @ > 0 THEN @ - 1 ELSE 0]
    /\ quiet' = IF ~Well(link) THEN 0 ELSE IF quiet < Bound THEN quiet + 1 ELSE Bound
    /\ UNCHANGED <<row, link>>

NextInternal ==
    \/ \E v \in Validations :
          \/ BeginAsk(v) \/ AskAgain(v)
          \/ \E ending \in Endings(FALSE) : EndAsk(v, ending)
    \/ \E x \in LogRows : RecordRow(x)
    \/ FlushNothing \/ FlushRefused \/ FlushSent
    \/ \E ending \in Endings(FALSE) : FlushEnds(ending)
    \/ \E up, same \in BOOLEAN, skew \in 0 .. MaxSkew :
          LinkTurns([up |-> up, sameSecret |-> same, skew |-> skew])
    \/ IntervalEnds

InternalSpec == InternalInit /\ [][NextInternal]_internalVars

-----------------------------------------------------------------------------
Ask == [stage : {"idle", "waiting"}, attempt : 1..AskAttempts, age : 0..AskLimit,
        clean : BOOLEAN]
FlushTask == [stage : {"sleeping", "due", "waiting"}, age : 0..FlushLimit, clean : BOOLEAN]
LogRow == [place : {"none", "buffer", "sent", "acknowledged", "lost"},
           tries : 0..LogRetries + 1, stored : BOOLEAN]

InternalTypeOK ==
    /\ ask \in [Validations -> Ask] /\ flush \in FlushTask /\ row \in [LogRows -> LogRow]
    /\ breaker \in [fails : 0..OpenThreshold, open : 0..CoolDown]
    /\ link \in [up : BOOLEAN, sameSecret : BOOLEAN, skew : 0..MaxSkew]
    /\ quiet \in 0..Bound

(* A row that user-service does not have is given up after LogRetries + 1   *)
(* flushes, as intended, but not only in an outage that long: while the     *)
(* breaker is open a flush is refused in the router, so rows are lost while *)
(* user-service is well again.  How long again is bounded: the breaker is   *)
(* closed after CoolDown intervals from the last failure, of an attempt     *)
(* that was sent, or waited, when not all was well.                         *)
LosesNearOutage ==
    \A x \in LogRows :
       row'[x].place = "lost" /\ row[x].place # "lost" =>
           /\ row'[x].tries = LogRetries + 1
           /\ row'[x].stored
              \/ quiet <= (IF Open THEN CoolDown - breaker.open + AskLimit
                                   ELSE FlushLimit)

LostOnlyNearOutage == [][LosesNearOutage]_internalVars
=============================================================================

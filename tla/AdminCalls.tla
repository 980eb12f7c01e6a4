----------------------------- MODULE AdminCalls -----------------------------
(* How admin-service manages users and vouchers (controllers/               *)
(* user_management.py, controllers/vouchers.py): it calls user-service over *)
(* the internal HTTP client and then writes an audit row.                   *)
(*                                                                          *)
(* The client (common/internal.py) tries again after an error of the        *)
(* transport and after a 5xx, and keeps a circuit breaker per target that   *)
(* it looks at before the first attempt only.  An attempt that is given up  *)
(* may still be carried out, later, and user-service does not know a second *)
(* copy from a second call.                                                 *)
EXTENDS Integers, FiniteSets

CONSTANTS
    Calls,             \* requests being served at a time
    CallAttempts,      \* INTERNAL_HTTP_MAX_RETRIES + 1
    CircuitThreshold   \* INTERNAL_HTTP_CIRCUIT_BREAKER_THRESHOLD

ASSUME CallsAssumption == CallAttempts \in Nat \ {0} /\ CircuitThreshold \in Nat \ {0}

VARIABLES
    call,      \* call[c]: the request c and the attempts it has made
    circuit,   \* failures in a row, capped, and whether it is open
    serving    \* user-service answers, in time, readably and without a 5xx

callVars == <<call, circuit, serving>>

Attempts == 1..CallAttempts
NewCall(stage) ==
    [stage |-> stage, attempt |-> 1,
     copies |-> {},     \* attempts that user-service has yet to carry out
     reply |-> "none",  \* to the attempt that is awaited
     effects |-> 0,     \* history: how often it was carried out
     givenUp |-> 0,     \* history: attempts without a usable answer
     told |-> "no"]     \* what the administrator and the audit log say

AdminCallsInit ==
    /\ call = [c \in Calls |-> NewCall("idle")]
    /\ circuit = [fails |-> 0, state |-> "closed"]
    /\ serving = TRUE

InStage(c, stage) == call[c].stage = stage
Latest(c) == call[c].attempt

-----------------------------------------------------------------------------
RecordSuccess == circuit' = [fails |-> 0, state |-> "closed"]

(* Counting past the threshold changes nothing, so the count stops there.   *)
RecordFailure ==
    LET fails == IF circuit.fails < CircuitThreshold THEN circuit.fails + 1
                                                     ELSE CircuitThreshold
    IN  circuit' = [fails |-> fails,
                    state |-> IF fails >= CircuitThreshold THEN "open"
                                                           ELSE circuit.state]

(* Variant: a circuit that has had its failures stays open. *)
CheckCircuitByCount ==
    /\ circuit.fails < CircuitThreshold
    /\ UNCHANGED circuit

(* _check_circuit_open: the end of the cool-down closes the circuit, and    *)
(* keeps the count.                                                         *)
CheckCircuit ==
    /\ circuit.state # "open"
    /\ circuit' = [circuit EXCEPT !.state = "closed"]

(* A slot is used again when nothing of its call is left.                   *)
BeginCall(c) ==
    /\ InStage(c, "idle") /\ call[c].copies = {}
    /\ CheckCircuit
    /\ call' = [call EXCEPT ![c] = NewCall("sending")]
    /\ UNCHANGED serving

SendAttempt(c) ==
    /\ InStage(c, "sending")
    /\ call' = [call EXCEPT ![c].stage = "waiting", ![c].reply = "none",
                            ![c].copies = @ \cup {Latest(c)}]
    /\ UNCHANGED <<circuit, serving>>

(* user-service carries an attempt out, refuses it (a 4xx), or fails (a     *)
(* 5xx, or it never arrives); what it answers reaches the caller if that is *)
(* the attempt it waits for.                                                *)
Process(c, i, reply) ==
    /\ i \in call[c].copies
    /\ reply = "failed" => ~serving
    /\ call' = [call EXCEPT
          ![c].copies = @ \ {i},
          ![c].effects = IF reply = "done" THEN @ + 1 ELSE @,
          ![c].reply = IF InStage(c, "waiting") /\ i = Latest(c) THEN reply ELSE @]
    /\ UNCHANGED <<circuit, serving>>

(* Variant: an answer that cannot be read as JSON is asked for again. *)
ReceiveDoneAgain(c) ==
    /\ InStage(c, "waiting") /\ call[c].reply = "done"
    /\ \/ call' = [call EXCEPT ![c].stage = "auditing"] /\ RecordSuccess
       \/ /\ Latest(c) < CallAttempts
          /\ call' = [call EXCEPT ![c].stage = "sending", ![c].attempt = @ + 1]
          /\ UNCHANGED circuit
    /\ UNCHANGED serving

ReceiveDone(c) ==
    /\ InStage(c, "waiting") /\ call[c].reply = "done"
    /\ call' = [call EXCEPT ![c].stage = "auditing"]
    /\ RecordSuccess
    /\ UNCHANGED serving

(* Done, but what came back is no JSON: a success and then a failure for    *)
(* the circuit, and no further attempt.                                     *)
ReceiveGarbled(c) ==
    /\ InStage(c, "waiting") /\ call[c].reply = "done" /\ ~serving
    /\ call' = [call EXCEPT ![c].stage = "idle", ![c].told = "unavailable",
                            ![c].givenUp = @ + 1]
    /\ circuit' = [fails |-> 1, state |-> IF CircuitThreshold = 1 THEN "open"
                                                                  ELSE "closed"]
    /\ UNCHANGED serving

ReceiveRefusal(c) ==
    /\ InStage(c, "waiting") /\ call[c].reply = "refused"
    /\ call' = [call EXCEPT ![c].stage = "idle", ![c].told = "refused"]
    /\ RecordSuccess
    /\ UNCHANGED serving

(* The next attempt, or the end of the call.                                *)
AfterFailure(c, gaveUp) ==
    LET last == Latest(c) = CallAttempts
    IN  /\ call' = [call EXCEPT
              ![c].stage = IF last THEN "idle" ELSE "sending",
              ![c].attempt = IF last THEN @ ELSE @ + 1,
              ![c].reply = "none",
              ![c].givenUp = @ + gaveUp,
              ![c].told = IF last THEN "unavailable" ELSE @]
        /\ IF last THEN RecordFailure ELSE UNCHANGED circuit

ReceiveFailure(c) ==
    /\ InStage(c, "waiting") /\ call[c].reply = "failed"
    /\ AfterFailure(c, 0)
    /\ UNCHANGED serving

(* A timeout or a broken connection, whatever became of the attempt.        *)
LoseAnswer(c) ==
    /\ InStage(c, "waiting") /\ ~serving
    /\ AfterFailure(c, 1)
    /\ UNCHANGED serving

(* safe_audit_commit: a failure is logged, and the administrator is told    *)
(* all the same that the operation was done.                                *)
Audit(c) ==
    /\ InStage(c, "auditing")
    /\ \E told \in {"audited", "unaudited"} :
          call' = [call EXCEPT ![c].stage = "idle", ![c].told = told]
    /\ UNCHANGED <<circuit, serving>>

CoolDownEnds ==
    /\ circuit.state = "open"
    /\ circuit' = [circuit EXCEPT !.state = "cooled"]
    /\ UNCHANGED <<call, serving>>

ServiceTurns ==
    /\ serving' = ~serving
    /\ UNCHANGED <<call, circuit>>

Receive(c) == ReceiveDone(c) \/ ReceiveRefusal(c) \/ ReceiveFailure(c)

Works(c) ==
    \E i \in Attempts, reply \in {"done", "refused", "failed"} : Process(c, i, reply)

NextAdminCalls ==
    \/ \E c \in Calls : \/ BeginCall(c) \/ SendAttempt(c) \/ Works(c) \/ Receive(c)
                        \/ ReceiveGarbled(c) \/ LoseAnswer(c) \/ Audit(c)
    \/ CoolDownEnds \/ ServiceTurns

(* The client and user-service go on, a cool-down ends, and administrators  *)
(* try again.                                                               *)
CallFairness ==
    /\ \A c \in Calls : /\ WF_callVars(BeginCall(c)) /\ WF_callVars(SendAttempt(c))
                        /\ WF_callVars(Works(c)) /\ WF_callVars(Receive(c))
                        /\ WF_callVars(Audit(c))
    /\ WF_callVars(CoolDownEnds)

AdminCallsSpec == AdminCallsInit /\ [][NextAdminCalls]_callVars

-----------------------------------------------------------------------------
CallRow == [stage : {"idle", "sending", "waiting", "auditing"},
            attempt : Attempts, copies : SUBSET Attempts,
            reply : {"none", "done", "refused", "failed"},
            effects : Nat, givenUp : Nat,
            told : {"no", "refused", "unavailable", "audited", "unaudited"}]

AdminCallsTypeOK ==
    /\ call \in [Calls -> CallRow]
    /\ circuit \in [fails : 0..CircuitThreshold, state : {"closed", "open", "cooled"}]
    /\ serving \in BOOLEAN

Reported(c) == InStage(c, "auditing") \/ call[c].told \in {"audited", "unaudited"}
Heard(c) == InStage(c, "waiting") /\ call[c].reply = "done"

(* A top-up has no idempotency key and is retried, so it can take effect    *)
(* more than once, and after the administrator was told that it failed; but *)
(* every effect is the one that was reported or that of an attempt given    *)
(* up, and what is in the audit log did take effect.                        *)
EffectsBounded ==
    \A c \in Calls :
        /\ call[c].effects
              <= call[c].givenUp + (IF Reported(c) \/ Heard(c) THEN 1 ELSE 0)
        /\ Reported(c) => call[c].effects >= 1

(* A failure after the cool-down opens the circuit again at once, because   *)
(* the count survives.  Still the breaker recovers by itself when           *)
(* user-service does: once that serves for good, calls go through again and *)
(* in the end no failure is counted.                                        *)
RecoversAlone ==
    <>[]serving => <>[](circuit = [fails |-> 0, state |-> "closed"])
=============================================================================

------------------------------ MODULE EmailCodes ------------------------------
(***************************************************************************)
(* Verification codes of user-service (services/email_service.py) for one  *)
(* address and one purpose: sending a code, and the requests that present  *)
(* one (register, login-with-code, verify-email, reset-password).          *)
(*                                                                         *)
(* A request that presents a code holds the row of the newest unused code  *)
(* FOR UPDATE until it commits or rolls back: over the verification of the *)
(* hash, and then over everything its handler goes on to do.  Sending      *)
(* reads without locks, and mails the code after it has committed.         *)
(***************************************************************************)
EXTENDS Integers, FiniteSets

CONSTANTS CodeRequests,  \* requests served at a time
          MaxCodes,      \* bound: codes that are ever stored, 1..MaxCodes
          MaxErrors,     \* MAX_CODE_ERRORS
          DailyLimit,    \* CODE_DAILY_SEND_LIMIT
          CodeTicks,     \* EMAIL_CODE_EXPIRE_MINUTES
          CodeLockTicks, \* CODE_ERROR_LOCK_HOURS
          CodeHorizon    \* bound: the last tick, within one day

ASSUME EmailCodesAssumption ==
    /\ MaxCodes \in Nat \ {0} /\ MaxErrors \in Nat \ {0}
    /\ DailyLimit \in Nat \ {0} /\ CodeHorizon \in Nat \ {0}
    /\ CodeTicks \in Nat \ {0}
    /\ CodeLockTicks \in Nat /\ CodeLockTicks > CodeTicks

VARIABLES
    code,      \* email_verification_codes rows, numbered as they are stored
    codeReq,   \* what each request is doing
    codeTime,
    accepted,  \* ghost: requests that completed with the code
    wrong      \* ghost: wrong guesses verified against the code

codeVars == <<code, codeReq, codeTime, accepted, wrong>>

Codes == 1..MaxCodes

-----------------------------------------------------------------------------
(* locked is 0 for NULL. *)
CodeRow == [state : {"none", "unused", "used", "deleted"}, errors : Nat,
            locked : Nat, expires : Nat]

NoCode == [state |-> "none", errors |-> 0, locked |-> 0, expires |-> 0]

In(states) == {c \in Codes : code[c].state \in states}
Newest(S) == CHOOSE c \in S : \A d \in S : d <= c

CodeIdle == [stage |-> "idle"]
CodeRequest == [stage : {"idle"}]
               \cup [stage : {"hashing"}, old : SUBSET Codes]
               \cup [stage : {"mailing"}, c : Codes]
               \cup [stage : {"held", "using"}, c : Codes, loaded : CodeRow]
Stage(q, stage) == codeReq[q].stage = stage
Holds(q, c) == codeReq[q].stage \in {"held", "using"} /\ codeReq[q].c = c
Locked(c) == \E q \in CodeRequests : Holds(q, c)

Goto(q, request) == codeReq' = [codeReq EXCEPT ![q] = request]

EmailCodesInit ==
    /\ code = [c \in Codes |-> NoCode]
    /\ codeReq = [q \in CodeRequests |-> CodeIdle]
    /\ codeTime = 1
    /\ accepted = [c \in Codes |-> 0]
    /\ wrong = [c \in Codes |-> 0]

-----------------------------------------------------------------------------
(* POST /auth/send-email-code.  The rows of the day are counted, those     *)
(* that were deleted are not; nothing is sent while the newest is locked.  *)
BeginSend(q) ==
    LET stored == In({"unused", "used"})
    IN  /\ Stage(q, "idle")
        /\ Cardinality(stored) < DailyLimit
        /\ stored # {} => code[Newest(stored)].locked <= codeTime
        /\ Goto(q, [stage |-> "hashing", old |-> In({"unused"})])
        /\ UNCHANGED <<code, codeTime, accepted, wrong>>

(* The commit of a send deletes the unused codes it read, waiting for      *)
(* their locks, and stores the new one.                                    *)
StoreCode(q) ==
    /\ Stage(q, "hashing") /\ In({"none"}) # {}
    /\ \A c \in codeReq[q].old : ~Locked(c)
    /\ LET new == CHOOSE c \in In({"none"}) : \A d \in In({"none"}) : c <= d
       IN  /\ code' = [c \in Codes |->
                 IF c = new THEN [NoCode EXCEPT !.state = "unused",
                                     !.expires = codeTime + CodeTicks]
                 ELSE IF c \in codeReq[q].old
                 THEN [code[c] EXCEPT !.state = "deleted"] ELSE code[c]]
           /\ Goto(q, [stage |-> "mailing", c |-> new])
    /\ UNCHANGED <<codeTime, accepted, wrong>>

(* The mail goes out, or SMTP fails and the code is deleted again.         *)
Mailed(q) ==
    /\ Stage(q, "mailing")
    /\ Goto(q, CodeIdle)
    /\ UNCHANGED <<code, codeTime, accepted, wrong>>

MailFails(q) ==
    /\ Stage(q, "mailing") /\ ~Locked(codeReq[q].c)
    /\ code' = [code EXCEPT ![codeReq[q].c].state = "deleted"]
    /\ Goto(q, CodeIdle)
    /\ UNCHANGED <<codeTime, accepted, wrong>>

-----------------------------------------------------------------------------
(* get_valid_code_or_raise: lock the newest unused code; refuse when it is *)
(* locked against guessing or has expired.                                 *)
Present(q) ==
    /\ Stage(q, "idle") /\ In({"unused"}) # {}
    /\ LET c == Newest(In({"unused"})) IN
       /\ ~Locked(c)
       /\ code[c].locked <= codeTime /\ codeTime <= code[c].expires
       /\ Goto(q, [stage |-> "held", c |-> c, loaded |-> code[c]])
    /\ UNCHANGED <<code, codeTime, accepted, wrong>>

(* Variant: the code is locked after one error more. *)
RejectCodeLate(q) ==
    /\ Stage(q, "held")
    /\ LET c == codeReq[q].c
           errors == codeReq[q].loaded.errors + 1
       IN  /\ code' = [code EXCEPT ![c].errors = errors,
                          ![c].locked = IF errors > MaxErrors
                                        THEN codeTime + CodeLockTicks ELSE @]
           /\ wrong' = [wrong EXCEPT ![c] = @ + 1]
    /\ Goto(q, CodeIdle)
    /\ UNCHANGED <<codeTime, accepted>>

(* The code is wrong: one more error is committed, the last one locks.     *)
RejectCode(q) ==
    /\ Stage(q, "held")
    /\ LET c == codeReq[q].c
           errors == codeReq[q].loaded.errors + 1
       IN  /\ code' = [code EXCEPT ![c].errors = errors,
                          ![c].locked = IF errors >= MaxErrors
                                        THEN codeTime + CodeLockTicks ELSE @]
           /\ wrong' = [wrong EXCEPT ![c] = @ + 1]
    /\ Goto(q, CodeIdle)
    /\ UNCHANGED <<codeTime, accepted>>

(* The code is right: the handler goes on with its row held. *)
AcceptCode(q) ==
    /\ Stage(q, "held")
    /\ Goto(q, [codeReq[q] EXCEPT !.stage = "using"])
    /\ UNCHANGED <<code, codeTime, accepted, wrong>>

(* mark_code_used and the commit of the handler, or a refusal further on   *)
(* (disabled account, weak password), which leaves the code as it was.     *)
UseCode(q) ==
    /\ Stage(q, "using")
    /\ LET c == codeReq[q].c IN
       /\ code' = [code EXCEPT ![c].state = "used", ![c].errors = 0]
       /\ accepted' = [accepted EXCEPT ![c] = @ + 1]
    /\ Goto(q, CodeIdle)
    /\ UNCHANGED <<codeTime, wrong>>

AbandonCode(q) ==
    /\ Stage(q, "using")
    /\ Goto(q, CodeIdle)
    /\ UNCHANGED <<code, codeTime, accepted, wrong>>

CodeTick ==
    /\ codeTime < CodeHorizon /\ codeTime' = codeTime + 1
    /\ UNCHANGED <<code, codeReq, accepted, wrong>>

NextEmailCodes ==
    \/ \E q \in CodeRequests :
          \/ BeginSend(q) \/ StoreCode(q) \/ Mailed(q) \/ MailFails(q)
          \/ Present(q) \/ RejectCode(q) \/ AcceptCode(q) \/ UseCode(q)
          \/ AbandonCode(q)
    \/ CodeTick

EmailCodesSpec == EmailCodesInit /\ [][NextEmailCodes]_codeVars

-----------------------------------------------------------------------------
EmailCodesTypeOK ==
    /\ code \in [Codes -> CodeRow]
    /\ codeReq \in [CodeRequests -> CodeRequest]
    /\ codeTime \in 1..CodeHorizon
    /\ accepted \in [Codes -> Nat] /\ wrong \in [Codes -> Nat]

(* One code serves one request: of the handlers that present it at a time, *)
(* or after one that was refused or failed, at most one commits with it.    *)
(* And it faces at most MAX_CODE_ERRORS wrong guesses in its life, however  *)
(* many are made at once: none is lost, and the lock outlives the code.     *)
OneUseFewGuesses == \A c \in Codes : accepted[c] <= 1 /\ wrong[c] <= MaxErrors
=============================================================================

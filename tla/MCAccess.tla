------------------------------- MODULE MCAccess -------------------------------
(* The components that decide who may call, as one instance for TLC.  They  *)
(* share no variable, so nothing is lost by following one of them at a time *)
(* in each behaviour, and the state spaces add up instead of multiplying.   *)
EXTENDS ApiKeys, Sessions, EmailCodes, RateLimit, InternalCalls, TLC

CONSTANT u1

VARIABLE part

MCOwner == [k \in Keys |-> u1]

AccessSymmetry == Permutations(Keys) \cup Permutations(KeyRequests)

accessVars == <<part, keyVars, signVars, codeVars, rateVars, internalVars>>

AccessInit ==
    /\ part \in {"keys", "sessions", "codes", "rate", "calls"}
    /\ KeysInit /\ (part # "keys" => key = [k \in Keys |-> NoKey])
    /\ SessionsInit
    /\ EmailCodesInit
    /\ RateInit
    /\ InternalInit

AccessNext ==
    /\ UNCHANGED part
    /\ \/ /\ part = "keys" /\ NextKeys
          /\ UNCHANGED <<signVars, codeVars, rateVars, internalVars>>
       \/ /\ part = "sessions" /\ NextSessions
          /\ UNCHANGED <<keyVars, codeVars, rateVars, internalVars>>
       \/ /\ part = "codes" /\ NextEmailCodes
          /\ UNCHANGED <<keyVars, signVars, rateVars, internalVars>>
       \/ /\ part = "rate" /\ NextRate
          /\ UNCHANGED <<keyVars, signVars, codeVars, internalVars>>
       \/ /\ part = "calls" /\ NextInternal
          /\ UNCHANGED <<keyVars, signVars, codeVars, rateVars>>

Spec == AccessInit /\ [][AccessNext]_accessVars
=============================================================================

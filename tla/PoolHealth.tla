----------------------------- MODULE PoolHealth -----------------------------
(* Provider pools and the health of their accounts (admin-service:          *)
(* services/pool_service.py, services/health_check_service.py).             *)
(*                                                                          *)
(* A check, the periodic job or an administrator's, loads accounts once,    *)
(* calls the provider for each of them for minutes, and commits at the end  *)
(* the statuses that differ from what it loaded.  An administrator's edit   *)
(* also writes only what differs from what it read, and reads and writes    *)
(* nothing else, so it takes effect as if at its commit: one step.          *)
EXTENDS Integers, FiniteSets

CONSTANTS
    Pools, Accounts,
    PoolOf,          \* PoolOf[a]: the pool of account a
    Job, Checks      \* the periodic job, and it with the administrators'

ASSUME PoolAssumption == PoolOf \in [Accounts -> Pools] /\ Job \in Checks

VARIABLES
    poolOn,    \* the enabled pools
    account,   \* account[a]: the committed status
    check,     \* check[c]: whether it runs, and per account the status it
               \* has loaded and the one it will write
    intended,  \* history: accounts whose last edit disabled them
    raced      \* history: those that were being checked at that moment

poolVars == <<poolOn, account, check, intended, raced>>

Statuses == {"active", "disabled", "exhausted", "error"}
Absent == "absent"
Unloaded == [a \in Accounts |-> Absent]
NoCheck == [runs |-> FALSE, read |-> Unloaded, write |-> Unloaded]
Loads(c, a) == check[c].read[a] # Absent

PoolHealthInit ==
    /\ poolOn = Pools
    /\ account = [a \in Accounts |-> Absent]
    /\ check = [c \in Checks |-> NoCheck]
    /\ intended = {} /\ raced = {}

-----------------------------------------------------------------------------
(* update_pool and disable_pool.                                            *)
SwitchPool(p) ==
    /\ \E on \in SUBSET {p} : poolOn' = (poolOn \ {p}) \cup on
    /\ UNCHANGED <<account, check, intended, raced>>

AddAccount(a) ==
    /\ account[a] = Absent
    /\ account' = [account EXCEPT ![a] = "active"]
    /\ UNCHANGED <<poolOn, check, intended, raced>>

(* disable_pool_account, and update_pool_account with a status.             *)
SetAccountStatus(a, status) ==
    /\ account[a] \in Statuses \ {status}
    /\ account' = [account EXCEPT ![a] = status]
    /\ IF status = "disabled"
       THEN /\ intended' = intended \cup {a}
            /\ raced' = IF \E c \in Checks : Loads(c, a) THEN raced \cup {a}
                                                         ELSE raced \ {a}
       ELSE intended' = intended \ {a} /\ UNCHANGED raced
    /\ UNCHANGED <<poolOn, check>>

-----------------------------------------------------------------------------
(* Variant: the accounts are not selected by their status. *)
CheckableAnyStatus(a) == account[a] # Absent

Checkable(a) == account[a] \in {"active", "error"}

(* The job takes the enabled pools, check_balances the one it was asked for.*)
StartCheck(c, p) ==
    /\ ~check[c].runs
    /\ LET mine == {a \in Accounts : /\ Checkable(a)
                                     /\ IF c = Job THEN PoolOf[a] \in poolOn
                                                   ELSE PoolOf[a] = p}
           loaded == [a \in Accounts |-> IF a \in mine THEN account[a] ELSE Absent]
       IN  check' = [check EXCEPT ![c] =
                        [runs |-> TRUE, read |-> loaded, write |-> loaded]]
    /\ UNCHANGED <<poolOn, account, intended, raced>>

(* The balance of an account, or a probe of one of its models: a success    *)
(* ends an error, a failure makes one.  An account has several of them.     *)
FindHealth(c, a) ==
    /\ Loads(c, a)
    /\ \E status \in {"active", "error"} :
          /\ status = "active" => check[c].write[a] = "error"
          /\ check' = [check EXCEPT ![c].write[a] = status]
    /\ UNCHANGED <<poolOn, account, intended, raced>>

CommitCheck(c) ==
    /\ check[c].runs
    /\ account' = [a \in Accounts |->
                      IF check[c].write[a] # check[c].read[a]
                      THEN check[c].write[a] ELSE account[a]]
    /\ check' = [check EXCEPT ![c] = NoCheck]
    /\ UNCHANGED <<poolOn, intended, raced>>

(* The job's timeout, or an error outside the checks of single accounts.    *)
AbortCheck(c) ==
    /\ check[c].runs
    /\ check' = [check EXCEPT ![c] = NoCheck]
    /\ UNCHANGED <<poolOn, account, intended, raced>>

NextPoolHealth ==
    \/ \E p \in Pools : SwitchPool(p)
    \/ \E a \in Accounts :
          \/ AddAccount(a)
          \/ \E status \in Statuses : SetAccountStatus(a, status)
    \/ \E c \in Checks :
          \/ \E p \in Pools : StartCheck(c, p)
          \/ \E a \in Accounts : FindHealth(c, a)
          \/ CommitCheck(c) \/ AbortCheck(c)

PoolHealthSpec == PoolHealthInit /\ [][NextPoolHealth]_poolVars

-----------------------------------------------------------------------------
Verdicts == [Accounts -> {"active", "error", Absent}]

PoolHealthTypeOK ==
    /\ poolOn \subseteq Pools
    /\ account \in [Accounts -> Statuses \cup {Absent}]
    /\ check \in [Checks -> [runs : BOOLEAN, read : Verdicts, write : Verdicts]]
    /\ intended \subseteq Accounts /\ raced \subseteq Accounts

(* An account an administrator has disabled leaves that status without      *)
(* another edit only if a check had loaded it when it was disabled: that    *)
(* check may write its own verdict over it, and later checks then treat the *)
(* account as one of theirs; no check started afterwards does it by itself. *)
DisabledComesBack ==
    \A a \in intended : account[a] # "disabled" => a \in raced
=============================================================================

---------------------------- MODULE AdminAccounts ----------------------------
(* The administrators (admin-service: services/management_service.py,       *)
(* services/bootstrap_service.py, core/policies.py), one row per e-mail     *)
(* address, which is unique.                                                *)
(*                                                                          *)
(* A request reads the actor and the target in one snapshot, awaits a hash  *)
(* or a flush, and then writes the columns that differ from what it read.   *)
(* At the start of a process the first super admin is created under a       *)
(* named lock of the database; the lock is given back before the commit,    *)
(* and the second count below the lock sees the snapshot of the first.      *)
EXTENDS Integers, FiniteSets

CONSTANTS
    AdminEmails, RootEmail,  \* RootEmail: BOOTSTRAP_SUPERADMIN_EMAIL
    ChangeRequests,          \* requests being served at a time
    Starters,                \* processes of admin-service
    ResetOnStart,            \* BOOTSTRAP_SUPERADMIN_RESET_PASSWORD_IF_EXISTS
    ChangeBudget             \* bound: requests ever begun

ASSUME AccountsAssumption ==
    /\ RootEmail \in AdminEmails /\ ChangeBudget \in Nat
    /\ ResetOnStart \in BOOLEAN

VARIABLES
    admins,     \* admins[e]: the committed row of e
    changeReq,  \* changeReq[q]: what q has read and is about to write
    starter,    \* starter[s]: how far process s is, and its snapshot
    changes     \* requests begun so far

accountVars == <<admins, changeReq, starter, changes>>

NoAdmin == [exists |-> FALSE, role |-> "admin", root |-> FALSE,
            active |-> FALSE, password |-> 0]
NewAdmin(role, root, password) ==
    [exists |-> TRUE, role |-> role, root |-> root, active |-> TRUE,
     password |-> password]
Configured == 0         \* BOOTSTRAP_SUPERADMIN_PASSWORD
NewPassword == changes + 1
NoChange == [op |-> "none"]
Down == [stage |-> "down"]

SuperAdmins == {e \in AdminEmails : admins[e].exists /\ admins[e].active
                                    /\ admins[e].role = "super"}

AdminAccountsInit ==
    /\ admins = [e \in AdminEmails |-> NoAdmin]
    /\ changeReq = [q \in ChangeRequests |-> NoChange]
    /\ starter = [s \in Starters |-> Down]
    /\ changes = 0

-----------------------------------------------------------------------------
(* Variant: the endpoint spares the root only. *)
MutableUnlessRoot(actor, target) ==
    /\ admins[target].exists /\ target # actor /\ ~admins[target].root

(* Variant: the endpoint spares nobody but the actor. *)
MutableUnlessSelf(actor, target) == admins[target].exists /\ target # actor

(* _get_mutable_target *)
Mutable(actor, target) ==
    /\ admins[target].exists /\ target # actor
    /\ admins[target].role # "super"

Regradable(actor, target) ==
    /\ admins[actor].root
    /\ admins[target].exists /\ target # actor /\ ~admins[target].root

(* Some process serves, and the actor is an active super admin, or an       *)
(* active one who changes its own password.                                 *)
Authorized(actor, target) ==
    /\ \E s \in Starters : starter[s].stage = "up"
    /\ \/ actor \in SuperAdmins
       \/ actor = target /\ admins[actor].active

(* What the request will write, from what it has read.                      *)
AskChange(q, actor, op, target, row) ==
    /\ changeReq[q].op = "none" /\ changes < ChangeBudget
    /\ Authorized(actor, target)
    /\ changes' = changes + 1
    /\ changeReq' = [changeReq EXCEPT ![q] =
          [op |-> op, actor |-> actor, target |-> target,
           read |-> admins[target], write |-> row]]
    /\ UNCHANGED <<admins, starter>>

BeginCreateAdmin(q, actor, e) ==
    /\ ~admins[e].exists
    /\ \E role \in {"admin", "super"} :
          AskChange(q, actor, "create", e, NewAdmin(role, FALSE, NewPassword))

BeginSetAdminStatus(q, actor, e) ==
    /\ Mutable(actor, e)
    /\ \E active \in BOOLEAN :
          AskChange(q, actor, "update", e, [admins[e] EXCEPT !.active = active])

BeginResetPassword(q, actor, e) ==
    /\ Mutable(actor, e)
    /\ AskChange(q, actor, "update", e, [admins[e] EXCEPT !.password = NewPassword])

(* change_password of the administrator's own account, super or not.        *)
BeginOwnPassword(q, actor) ==
    AskChange(q, actor, "update", actor,
              [admins[actor] EXCEPT !.password = NewPassword])

BeginSetRole(q, actor, e) ==
    /\ Regradable(actor, e)
    /\ \E role \in {"admin", "super"} :
          AskChange(q, actor, "update", e, [admins[e] EXCEPT !.role = role])

Merged(row, read, write) ==
    [c \in DOMAIN row |-> IF write[c] # read[c] THEN write[c] ELSE row[c]]

(* An insert waits for one of the same e-mail that is not committed, and    *)
(* fails when there is one that is.                                         *)
Inserting(s) == starter[s].stage = "inserted"

ChangeCommits(q) ==
    LET e == changeReq[q].target
    IN  /\ \/ changeReq[q].op = "update"
           \/ /\ changeReq[q].op = "create" /\ ~admins[e].exists
              /\ e = RootEmail => \A s \in Starters : ~Inserting(s)
        /\ admins' = [admins EXCEPT
                        ![e] = Merged(@, changeReq[q].read, changeReq[q].write)]
        /\ changeReq' = [changeReq EXCEPT ![q] = NoChange]
        /\ UNCHANGED <<starter, changes>>

(* A duplicate, a weak password, or any other exception: a rollback.        *)
ChangeFails(q) ==
    /\ changeReq[q].op # "none"
    /\ changeReq' = [changeReq EXCEPT ![q] = NoChange]
    /\ UNCHANGED <<admins, starter, changes>>

-----------------------------------------------------------------------------
StarterGoes(s, stage) == starter' = [starter EXCEPT ![s].stage = stage]

(* The first count opens the snapshot; with a super admin there is nothing  *)
(* to do but, if so configured, to reset the password of the one with       *)
(* RootEmail.                                                               *)
StarterReads(s) ==
    /\ starter[s] = Down
    /\ starter' = [starter EXCEPT ![s] =
          IF SuperAdmins = {}
          THEN [stage |-> "waiting", read |-> admins[RootEmail]]
          ELSE IF ResetOnStart /\ RootEmail \in SuperAdmins
          THEN [stage |-> "updating"]
          ELSE [stage |-> "up"]]
    /\ UNCHANGED <<admins, changeReq, changes>>

StarterUpdates(s) ==
    /\ starter[s].stage = "updating"
    /\ admins' = [admins EXCEPT ![RootEmail].password = Configured]
    /\ starter' = [starter EXCEPT ![s] = [stage |-> "up"]]
    /\ UNCHANGED <<changeReq, changes>>

(* GET_LOCK; what the second count sees is the snapshot of the first.       *)
StarterLocks(s) ==
    /\ starter[s].stage = "waiting"
    /\ \A t \in Starters : starter[t].stage # "locked"
    /\ StarterGoes(s, "locked")
    /\ UNCHANGED <<admins, changeReq, changes>>

(* _upsert_bootstrap_super_admin flushes the insert, which the unique key   *)
(* may refuse, and the lock is released.                                    *)
StarterInserts(s) ==
    /\ starter[s].stage = "locked" /\ ~starter[s].read.exists
    /\ ~admins[RootEmail].exists
    /\ \A t \in Starters : ~Inserting(t)
    /\ StarterGoes(s, "inserted")
    /\ UNCHANGED <<admins, changeReq, changes>>

StarterCommits(s) ==
    /\ Inserting(s)
    /\ admins' = [admins EXCEPT ![RootEmail] = NewAdmin("super", TRUE, Configured)]
    /\ starter' = [starter EXCEPT ![s] = [stage |-> "up"]]
    /\ UNCHANGED <<changeReq, changes>>

(* The wait for the lock runs out, the insert is refused, or the process    *)
(* dies: nothing of it is committed, and its connection drops the lock.     *)
StarterDies(s) ==
    /\ starter[s] # Down
    /\ starter' = [starter EXCEPT ![s] = Down]
    /\ UNCHANGED <<admins, changeReq, changes>>

NextAdminAccounts ==
    \/ \E q \in ChangeRequests :
          \/ \E actor, e \in AdminEmails :
                \/ BeginCreateAdmin(q, actor, e) \/ BeginSetAdminStatus(q, actor, e)
                \/ BeginResetPassword(q, actor, e) \/ BeginSetRole(q, actor, e)
          \/ \E actor \in AdminEmails : BeginOwnPassword(q, actor)
          \/ ChangeCommits(q) \/ ChangeFails(q)
    \/ \E s \in Starters :
          \/ StarterReads(s) \/ StarterUpdates(s) \/ StarterLocks(s)
          \/ StarterInserts(s) \/ StarterCommits(s) \/ StarterDies(s)

AdminAccountsSpec == AdminAccountsInit /\ [][NextAdminAccounts]_accountVars

-----------------------------------------------------------------------------
AccountRow == [exists : BOOLEAN, role : {"admin", "super"}, root : BOOLEAN,
               active : BOOLEAN, password : 0..ChangeBudget]

ChangeRow == [op : {"create", "update"}, actor : AdminEmails,
              target : AdminEmails, read : AccountRow, write : AccountRow]

StarterRow == [stage : {"down", "updating", "up"}]
              \cup [stage : {"waiting", "locked", "inserted"}, read : AccountRow]

AdminAccountsTypeOK ==
    /\ admins \in [AdminEmails -> AccountRow]
    /\ changeReq \in [ChangeRequests -> ChangeRow \cup {NoChange}]
    /\ starter \in [Starters -> StarterRow]
    /\ changes \in 0..ChangeBudget

(* Once a process serves there is a root, and it stays what it was made:    *)
(* one active super admin, with the configured address, whatever requests   *)
(* and starting processes race (the second count of ensure_super_admin      *)
(* cannot see a root created in between; the unique address stands in).     *)
RootStays ==
    /\ \A e \in AdminEmails : admins[e].root => e = RootEmail /\ e \in SuperAdmins
    /\ (\E s \in Starters : starter[s].stage = "up") => admins[RootEmail].root

SparesSuper ==
    \A e \in AdminEmails :
        (/\ admins[e].exists /\ admins[e].role = "super"
         /\ \/ admins'[e].active # admins[e].active
            \/ admins'[e].password # admins[e].password)
        => \/ \E q \in ChangeRequests : /\ changeReq[q].op = "update"
                                        /\ changeReq[q].target = e
                                        /\ \/ changeReq[q].read.role = "admin"
                                           \/ changeReq[q].actor = e
           \/ e = RootEmail /\ admins'[e].password = Configured

(* _get_mutable_target spares super admins, on the strength of what it has  *)
(* read: one is disabled or gets another password only by a request that    *)
(* read the row before the promotion, by its own request, or, the root, by  *)
(* the configuration at a start.                                            *)
SuperSpared == [][SparesSuper]_accountVars
=============================================================================

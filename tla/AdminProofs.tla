----------------------------- MODULE AdminProofs -----------------------------
(***************************************************************************)
(* Theorems about admin-service for any number of administrators, requests *)
(* and processes: that the first super admin stays, whom requests spare,   *)
(* how often a refresh token is spent, what health checks and settings may *)
(* undo, how often a call to user-service takes effect, and what the card  *)
(* of a model shows after edits that overlapped.                           *)
(***************************************************************************)
EXTENDS AdminTokens, AdminAccounts, RoutingSettings, AdminCalls, ModelCatalog, NumberFacts

-----------------------------------------------------------------------------
(* The administrators. *)

(* The rows that requests and starting processes compute. *)
ActiveRow(row, active) == [row EXCEPT !.active = active]
PasswordRow(row, password) == [row EXCEPT !.password = password]
RoleRow(row, role) == [row EXCEPT !.role = role]

LEMMA ComputedRows ==
    ASSUME NEW row \in AccountRow
    PROVE  /\ \A active \in BOOLEAN :
                 /\ ActiveRow(row, active) \in AccountRow
                 /\ ActiveRow(row, active).exists = row.exists
                 /\ ActiveRow(row, active).root = row.root
           /\ \A password \in 0..ChangeBudget :
                 /\ PasswordRow(row, password) \in AccountRow
                 /\ PasswordRow(row, password).exists = row.exists
                 /\ PasswordRow(row, password).root = row.root
                 /\ PasswordRow(row, password).role = row.role
                 /\ PasswordRow(row, password).active = row.active
                 /\ PasswordRow(row, password).password = password
           /\ \A role \in {"admin", "super"} :
                 /\ RoleRow(row, role) \in AccountRow
                 /\ RoleRow(row, role).exists = row.exists
                 /\ RoleRow(row, role).root = row.root
                 /\ RoleRow(row, role).active = row.active
                 /\ RoleRow(row, role).password = row.password
  BY DEF AccountRow, ActiveRow, PasswordRow, RoleRow

LEMMA NewAdmins ==
    ASSUME NEW role \in {"admin", "super"}, NEW password \in 0..ChangeBudget
    PROVE  /\ NewAdmin(role, FALSE, password) \in AccountRow
           /\ ~NewAdmin(role, FALSE, password).root
  BY DEF AccountRow, NewAdmin

LEMMA FirstAdmin ==
    ASSUME NEW password \in 0..ChangeBudget
    PROVE  /\ NewAdmin("super", TRUE, password) \in AccountRow
           /\ NewAdmin("super", TRUE, password).exists
           /\ NewAdmin("super", TRUE, password).active
           /\ NewAdmin("super", TRUE, password).role = "super"
           /\ NewAdmin("super", TRUE, password).root
           /\ NewAdmin("super", TRUE, password).password = password
  BY DEF AccountRow, NewAdmin

LEMMA MergedRows ==
    ASSUME NEW row \in AccountRow, NEW read \in AccountRow,
           NEW write \in AccountRow
    PROVE  /\ Merged(row, read, write) \in AccountRow
           /\ write.exists = read.exists =>
                 Merged(row, read, write).exists = row.exists
           /\ write.root = read.root =>
                 Merged(row, read, write).root = row.root
           /\ write.role = read.role =>
                 Merged(row, read, write).role = row.role
           /\ write.active = read.active =>
                 Merged(row, read, write).active = row.active
           /\ write.password = read.password =>
                 Merged(row, read, write).password = row.password
  BY DEF AccountRow, Merged

(* Once there is any administrator there is the root, intact. *)
RootIntact ==
    /\ \A e \in AdminEmails :
          /\ admins[e].root => /\ e = RootEmail /\ admins[e].exists
                               /\ admins[e].active /\ admins[e].role = "super"
          /\ admins[e].exists => admins[RootEmail].root
    /\ \A s \in Starters :
          starter[s].stage \in {"up", "updating"} => admins[RootEmail].root

(* Only a root authorizes requests, and none computes a new value of what  *)
(* makes the root the root, or takes a super admin for an admin.           *)
Harmless(c) ==
    /\ admins[RootEmail].root
    /\ c.write.root = c.read.root
    /\ c.op = "update" =>
          /\ c.write.exists = c.read.exists
          /\ c.target = RootEmail => /\ c.write.role = c.read.role
                                     /\ c.write.active = c.read.active
          /\ \/ c.read.role = "admin" \/ c.actor = c.target
             \/ /\ c.write.active = c.read.active
                /\ c.write.password = c.read.password

ChangesHarmless ==
    \A q \in ChangeRequests :
        changeReq[q].op # "none" => Harmless(changeReq[q])

AccountsInv == AdminAccountsTypeOK /\ RootIntact /\ ChangesHarmless

LEMMA AccountsInitially ==
    AccountsAssumption /\ AdminAccountsInit => AccountsInv
  BY DEF AccountsAssumption, AdminAccountsInit, AccountsInv, RootIntact,
         ChangesHarmless, AdminAccountsTypeOK, AccountRow, StarterRow, NoAdmin,
         Down, NoChange

(* A request begins. *)
LEMMA AskKeeps ==
    ASSUME AccountsAssumption, AccountsInv, NEW q \in ChangeRequests,
           NEW actor \in AdminEmails, NEW op \in {"create", "update"},
           NEW target \in AdminEmails, NEW row \in AccountRow,
           AskChange(q, actor, op, target, row),
           admins[RootEmail].root =>
              Harmless([op |-> op, actor |-> actor, target |-> target,
                        read |-> admins[target], write |-> row])
    PROVE  AccountsInv'
  <1> DEFINE new == [op |-> op, actor |-> actor, target |-> target,
                     read |-> admins[target], write |-> row]
  <1>1. /\ changeReq' = [changeReq EXCEPT ![q] = new]
        /\ changes < ChangeBudget /\ changes' = changes + 1
        /\ UNCHANGED <<admins, starter>>
    BY DEF AskChange
  <1>2. admins[RootEmail].root
    BY DEF AskChange, Authorized, SuperAdmins, AccountsInv, RootIntact
  <1>3. new \in ChangeRow /\ Harmless(new)
    BY <1>2 DEF ChangeRow, AccountsInv, AdminAccountsTypeOK
  <1> HIDE DEF new
  <1>4. /\ changeReq'[q] = new
        /\ \A r \in ChangeRequests : r # q => changeReq'[r] = changeReq[r]
        /\ changeReq' \in [ChangeRequests -> ChangeRow \cup {NoChange}]
    BY <1>1, <1>3 DEF AccountsInv, AdminAccountsTypeOK
  <1>5. AdminAccountsTypeOK'
    BY <1>1, <1>4 DEF AccountsInv, AdminAccountsTypeOK, AccountsAssumption
  <1>6. RootIntact'
    BY <1>1 DEF AccountsInv, RootIntact
  <1>7. ChangesHarmless'
    BY <1>1, <1>3, <1>4 DEF AccountsInv, ChangesHarmless, Harmless
  <1>8. QED
    BY <1>5, <1>6, <1>7 DEF AccountsInv

LEMMA AsksKeep ==
    ASSUME AccountsAssumption, AccountsInv, NEW q \in ChangeRequests,
           NEW actor \in AdminEmails, NEW e \in AdminEmails,
           \/ BeginCreateAdmin(q, actor, e) \/ BeginSetAdminStatus(q, actor, e)
           \/ BeginResetPassword(q, actor, e) \/ BeginSetRole(q, actor, e)
           \/ BeginOwnPassword(q, actor)
    PROVE  AccountsInv'
  <1>1. /\ admins[e] \in AccountRow /\ admins[actor] \in AccountRow
        /\ \A p \in AdminEmails : admins[p].root =>
              /\ p = RootEmail /\ admins[p].exists /\ admins[p].role = "super"
    BY DEF AccountsInv, AdminAccountsTypeOK, RootIntact
  <1>2. admins[e].role \in {"admin", "super"}
    BY <1>1 DEF AccountRow
  <1>3. ASSUME NEW op, NEW p, NEW row, AskChange(q, actor, op, p, row)
        PROVE  NewPassword \in 0..ChangeBudget
    <2>1. changes < ChangeBudget
      BY <1>3 DEF AskChange
    <2>2. QED
      BY <2>1 DEF NewPassword, AccountsInv, AdminAccountsTypeOK,
                  AccountsAssumption
  <1>4. CASE BeginCreateAdmin(q, actor, e)
    <2>1. PICK role \in {"admin", "super"} :
             AskChange(q, actor, "create", e, NewAdmin(role, FALSE, NewPassword))
      BY <1>4 DEF BeginCreateAdmin
    <2> DEFINE row == NewAdmin(role, FALSE, NewPassword)
    <2>6. NewPassword \in 0..ChangeBudget
      BY <1>3, <2>1
    <2>2. row \in AccountRow /\ ~row.root
      BY <2>6, NewAdmins
    <2>3. ~admins[e].root /\ admins[e].root \in BOOLEAN
      BY <1>1, <1>4 DEF BeginCreateAdmin, AccountRow
    <2>7. row.root = admins[e].root
      BY <2>2, <2>3 DEF AccountRow
    <2> HIDE DEF row
    <2>4. admins[RootEmail].root =>
             Harmless([op |-> "create", actor |-> actor, target |-> e,
                       read |-> admins[e], write |-> row])
      BY <2>7 DEF Harmless
    <2>5. QED
      BY <2>1, <2>2, <2>4, AskKeeps DEF row
  <1>5. CASE BeginSetAdminStatus(q, actor, e)
    <2>1. PICK active \in BOOLEAN :
             AskChange(q, actor, "update", e, ActiveRow(admins[e], active))
      BY <1>5 DEF BeginSetAdminStatus, ActiveRow
    <2>2. admins[e].role = "admin"
      BY <1>2, <1>5 DEF BeginSetAdminStatus, Mutable
    <2>3. admins[RootEmail].root =>
             Harmless([op |-> "update", actor |-> actor, target |-> e,
                       read |-> admins[e], write |-> ActiveRow(admins[e], active)])
      BY <1>1, <2>2, ComputedRows, ZenonT(40) DEF Harmless
    <2>4. QED
      BY <1>1, <2>1, <2>3, ComputedRows, AskKeeps
  <1>6. CASE BeginResetPassword(q, actor, e)
    <2>1. AskChange(q, actor, "update", e, PasswordRow(admins[e], NewPassword))
      BY <1>6 DEF BeginResetPassword, PasswordRow
    <2>2. admins[e].role = "admin"
      BY <1>2, <1>6 DEF BeginResetPassword, Mutable
    <2>3. NewPassword \in 0..ChangeBudget
      BY <1>3, <2>1
    <2>4. admins[RootEmail].root =>
             Harmless([op |-> "update", actor |-> actor, target |-> e,
                       read |-> admins[e],
                       write |-> PasswordRow(admins[e], NewPassword)])
      BY <1>1, <2>2, <2>3, ComputedRows, ZenonT(40) DEF Harmless
    <2>5. QED
      BY <1>1, <2>1, <2>3, <2>4, ComputedRows, AskKeeps
  <1>7. CASE BeginSetRole(q, actor, e)
    <2>1. PICK role \in {"admin", "super"} :
             AskChange(q, actor, "update", e, RoleRow(admins[e], role))
      BY <1>7 DEF BeginSetRole, RoleRow
    <2>2. ~admins[e].root
      BY <1>7 DEF BeginSetRole, Regradable
    <2>3. admins[RootEmail].root =>
             Harmless([op |-> "update", actor |-> actor, target |-> e,
                       read |-> admins[e], write |-> RoleRow(admins[e], role)])
      BY <1>1, <2>2, ComputedRows, ZenonT(40) DEF Harmless
    <2>4. QED
      BY <1>1, <2>1, <2>3, ComputedRows, AskKeeps
  <1>8. CASE BeginOwnPassword(q, actor)
    <2>1. AskChange(q, actor, "update", actor,
                    PasswordRow(admins[actor], NewPassword))
      BY <1>8 DEF BeginOwnPassword, PasswordRow
    <2>2. NewPassword \in 0..ChangeBudget
      BY <1>3, <2>1
    <2>3. admins[RootEmail].root =>
             Harmless([op |-> "update", actor |-> actor, target |-> actor,
                       read |-> admins[actor],
                       write |-> PasswordRow(admins[actor], NewPassword)])
      BY <1>1, <2>2, ComputedRows, ZenonT(40) DEF Harmless
    <2>4. QED
      BY <1>1, <2>1, <2>2, <2>3, ComputedRows, AskKeeps
  <1>9. QED
    BY <1>4, <1>5, <1>6, <1>7, <1>8

(* What a commit makes of the row it is about. *)
LEMMA ChangeCommitEffect ==
    ASSUME AccountsAssumption, AccountsInv, NEW q \in ChangeRequests,
           ChangeCommits(q)
    PROVE  LET e == changeReq[q].target
               c == changeReq[q]
           IN  /\ e \in AdminEmails /\ c.op # "none" /\ Harmless(c)
               /\ admins' \in [AdminEmails -> AccountRow]
               /\ \A p \in AdminEmails : p # e => admins'[p] = admins[p]
               /\ admins'[e].root = admins[e].root
               /\ e = RootEmail =>
                     /\ admins'[e].exists = admins[e].exists
                     /\ admins'[e].role = admins[e].role
                     /\ admins'[e].active = admins[e].active
               /\ c.op = "create" => ~admins[e].exists
               /\ c.write.active = c.read.active =>
                     admins'[e].active = admins[e].active
               /\ c.write.password = c.read.password =>
                     admins'[e].password = admins[e].password
  <1> DEFINE e == changeReq[q].target
             c == changeReq[q]
             row == Merged(admins[e], c.read, c.write)
  <1>1. /\ c.op \in {"create", "update"}
        /\ c.op = "create" => ~admins[e].exists
        /\ admins' = [admins EXCEPT ![e] = row]
    BY DEF ChangeCommits
  <1>2. c \in ChangeRow /\ Harmless(c)
    BY <1>1 DEF AccountsInv, AdminAccountsTypeOK, ChangesHarmless, NoChange
  <1>3. /\ e \in AdminEmails /\ c.read \in AccountRow /\ c.write \in AccountRow
        /\ admins[e] \in AccountRow
    BY <1>2 DEF ChangeRow, AccountsInv, AdminAccountsTypeOK
  <1>4. e = RootEmail => admins[e].exists
    BY <1>2, <1>3 DEF Harmless, AccountsInv, RootIntact
  <1>5. /\ c.write.root = c.read.root
        /\ e = RootEmail => /\ c.write.exists = c.read.exists
                            /\ c.write.role = c.read.role
                            /\ c.write.active = c.read.active
    BY <1>1, <1>2, <1>4 DEF Harmless
  <1>6. /\ row \in AccountRow /\ row.root = admins[e].root
        /\ e = RootEmail => /\ row.exists = admins[e].exists
                            /\ row.role = admins[e].role
                            /\ row.active = admins[e].active
        /\ c.write.active = c.read.active => row.active = admins[e].active
        /\ c.write.password = c.read.password =>
              row.password = admins[e].password
    BY <1>3, <1>5, MergedRows
  <1> HIDE DEF row
  <1>7. /\ admins'[e] = row
        /\ admins' \in [AdminEmails -> AccountRow]
        /\ \A p \in AdminEmails : p # e => admins'[p] = admins[p]
    BY <1>1, <1>3, <1>6 DEF AccountsInv, AdminAccountsTypeOK
  <1>8. QED
    BY <1>1, <1>2, <1>3, <1>6, <1>7

LEMMA ChangeCommitKeeps ==
    ASSUME AccountsAssumption, AccountsInv, NEW q \in ChangeRequests,
           ChangeCommits(q)
    PROVE  AccountsInv'
  <1> DEFINE e == changeReq[q].target
  <1>1. /\ changeReq' = [changeReq EXCEPT ![q] = NoChange]
        /\ UNCHANGED <<starter, changes>>
    BY DEF ChangeCommits
  <1>2. admins'[RootEmail].root /\ admins[RootEmail].root
    BY ChangeCommitEffect DEF Harmless, AccountsAssumption
  <1>3. AdminAccountsTypeOK'
    BY <1>1, ChangeCommitEffect DEF AccountsInv, AdminAccountsTypeOK
  <1>4. RootIntact'
    BY <1>1, <1>2, ChangeCommitEffect DEF AccountsInv, RootIntact
  <1>5. ChangesHarmless'
    BY <1>1, <1>2 DEF AccountsInv, AdminAccountsTypeOK, ChangesHarmless,
                      Harmless, NoChange
  <1>6. QED
    BY <1>3, <1>4, <1>5 DEF AccountsInv

LEMMA ChangeFailKeeps ==
    ASSUME AccountsInv, NEW q \in ChangeRequests, ChangeFails(q)
    PROVE  AccountsInv'
  BY DEF ChangeFails, AccountsInv, AdminAccountsTypeOK, RootIntact,
         ChangesHarmless, Harmless, NoChange

(* A process goes on, and the rows stay. *)
LEMMA StarterKeeps ==
    ASSUME AccountsInv, NEW s \in Starters, NEW row \in StarterRow,
           starter' = [starter EXCEPT ![s] = row],
           UNCHANGED <<admins, changeReq, changes>>,
           row.stage \in {"up", "updating"} => admins[RootEmail].root
    PROVE  AccountsInv'
  BY DEF AccountsInv, AdminAccountsTypeOK, RootIntact, ChangesHarmless, Harmless

StagedRow(row, stage) == [row EXCEPT !.stage = stage]

LEMMA StagedRows ==
    ASSUME NEW row \in StarterRow, NEW stage \in {"locked", "inserted"},
           row.stage \in {"waiting", "locked"}
    PROVE  StagedRow(row, stage) \in StarterRow
           /\ StagedRow(row, stage).stage = stage
  BY DEF StarterRow, StagedRow

LEMMA StartersKeep ==
    ASSUME AccountsAssumption, AccountsInv, NEW s \in Starters,
           \/ StarterReads(s) \/ StarterUpdates(s) \/ StarterLocks(s)
           \/ StarterInserts(s) \/ StarterCommits(s) \/ StarterDies(s)
    PROVE  AccountsInv'
  <1>1. starter[s] \in StarterRow /\ admins[RootEmail] \in AccountRow
    BY DEF AccountsInv, AdminAccountsTypeOK, AccountsAssumption
  <1>2. Down \in StarterRow /\ Down.stage = "down"
    BY DEF Down, StarterRow
  <1>3. CASE StarterReads(s)
    <2> DEFINE row == IF SuperAdmins = {}
                      THEN [stage |-> "waiting", read |-> admins[RootEmail]]
                      ELSE IF ResetOnStart /\ RootEmail \in SuperAdmins
                      THEN [stage |-> "updating"]
                      ELSE [stage |-> "up"]
    <2>1. /\ starter' = [starter EXCEPT ![s] = row]
          /\ UNCHANGED <<admins, changeReq, changes>>
      BY <1>3 DEF StarterReads
    <2>2. row \in StarterRow
      BY <1>1 DEF StarterRow
    <2>3. SuperAdmins # {} => admins[RootEmail].root
      BY DEF SuperAdmins, AccountsInv, RootIntact
    <2>4. row.stage \in {"up", "updating"} => SuperAdmins # {}
      OBVIOUS
    <2> HIDE DEF row
    <2>5. QED
      BY <2>1, <2>2, <2>3, <2>4, StarterKeeps
  <1>4. CASE StarterUpdates(s)
    <2> DEFINE row == PasswordRow(admins[RootEmail], Configured)
    <2>1. /\ admins' = [admins EXCEPT ![RootEmail] = row]
          /\ starter' = [starter EXCEPT ![s] = [stage |-> "up"]]
          /\ UNCHANGED <<changeReq, changes>> /\ starter[s].stage = "updating"
      BY <1>4 DEF StarterUpdates, PasswordRow
    <2>2. Configured \in 0..ChangeBudget
      BY DEF Configured, AccountsAssumption
    <2>3. /\ row \in AccountRow /\ row.root = admins[RootEmail].root
          /\ row.exists = admins[RootEmail].exists
          /\ row.role = admins[RootEmail].role
          /\ row.active = admins[RootEmail].active
      BY <1>1, <2>2, ComputedRows
    <2>4. admins[RootEmail].root
      BY <2>1 DEF AccountsInv, RootIntact
    <2> HIDE DEF row
    <2>5. /\ admins'[RootEmail] = row /\ admins' \in [AdminEmails -> AccountRow]
          /\ \A e \in AdminEmails : e # RootEmail => admins'[e] = admins[e]
      BY <2>1, <2>3 DEF AccountsInv, AdminAccountsTypeOK, AccountsAssumption
    <2>6. starter' \in [Starters -> StarterRow]
      BY <2>1 DEF AccountsInv, AdminAccountsTypeOK, StarterRow
    <2>7. QED
      BY <2>1, <2>3, <2>4, <2>5, <2>6
      DEF AccountsInv, AdminAccountsTypeOK, RootIntact, ChangesHarmless, Harmless
  <1>5. CASE StarterLocks(s)
    <2>1. /\ starter' = [starter EXCEPT ![s] = StagedRow(starter[s], "locked")]
          /\ starter[s].stage = "waiting" /\ UNCHANGED <<admins, changeReq, changes>>
      BY <1>5 DEF StarterLocks, StarterGoes, StagedRow
    <2>2. QED
      BY <1>1, <2>1, StagedRows, StarterKeeps
  <1>6. CASE StarterInserts(s)
    <2>1. /\ starter' = [starter EXCEPT ![s] = StagedRow(starter[s], "inserted")]
          /\ starter[s].stage = "locked" /\ UNCHANGED <<admins, changeReq, changes>>
      BY <1>6 DEF StarterInserts, StarterGoes, StagedRow
    <2>2. QED
      BY <1>1, <2>1, StagedRows, StarterKeeps
  <1>7. CASE StarterCommits(s)
    <2> DEFINE row == NewAdmin("super", TRUE, Configured)
    <2>1. /\ admins' = [admins EXCEPT ![RootEmail] = row]
          /\ starter' = [starter EXCEPT ![s] = [stage |-> "up"]]
          /\ UNCHANGED <<changeReq, changes>>
      BY <1>7 DEF StarterCommits
    <2>2. Configured \in 0..ChangeBudget
      BY DEF Configured, AccountsAssumption
    <2>3. /\ row \in AccountRow /\ row.root /\ row.exists
          /\ row.role = "super" /\ row.active
      BY <2>2, FirstAdmin
    <2> HIDE DEF row
    <2>4. /\ admins'[RootEmail] = row /\ admins' \in [AdminEmails -> AccountRow]
          /\ \A e \in AdminEmails : e # RootEmail => admins'[e] = admins[e]
      BY <2>1, <2>3 DEF AccountsInv, AdminAccountsTypeOK, AccountsAssumption
    <2>5. starter' \in [Starters -> StarterRow]
      BY <2>1 DEF AccountsInv, AdminAccountsTypeOK, StarterRow
    <2>6. QED
      BY <2>1, <2>3, <2>4, <2>5
      DEF AccountsInv, AdminAccountsTypeOK, RootIntact, ChangesHarmless, Harmless
  <1>8. CASE StarterDies(s)
    BY <1>2, <1>8, StarterKeeps DEF StarterDies
  <1>9. QED
    BY <1>3, <1>4, <1>5, <1>6, <1>7, <1>8

LEMMA AccountsStep ==
    ASSUME AccountsAssumption, AccountsInv, [NextAdminAccounts]_accountVars
    PROVE  AccountsInv'
  <1>1. ASSUME UNCHANGED accountVars
        PROVE  AccountsInv'
    BY <1>1 DEF accountVars, AccountsInv, AdminAccountsTypeOK, RootIntact,
                ChangesHarmless, Harmless
  <1>2. QED
    BY <1>1, AsksKeep, ChangeCommitKeeps, ChangeFailKeeps, StartersKeep
    DEF NextAdminAccounts

(* For any number of administrators, requests and starting processes: the  *)
(* first super admin, once it is made, stays an active super admin with    *)
(* the configured address, and a process that serves has one.  The         *)
(* invariant adds that any administrator at all implies the root, because  *)
(* nobody else may create one, and that no request in flight computes a    *)
(* new value of what makes the root.                                       *)
THEOREM RootIsKept ==
    AdminAccountsSpec => [](AdminAccountsTypeOK /\ RootStays)
  <1>1. AccountsInv => AdminAccountsTypeOK /\ RootStays
    BY DEF AccountsInv, RootIntact, RootStays, SuperAdmins
  <1>2. QED
    BY <1>1, AccountsInitially, AccountsStep, AccountsAssumption, PTL
    DEF AdminAccountsSpec

LEMMA SparingStep ==
    ASSUME AccountsAssumption, AccountsInv, NextAdminAccounts
    PROVE  SparesSuper
  <1> SUFFICES ASSUME NEW e \in AdminEmails,
                      admins[e].exists, admins[e].role = "super",
                      \/ admins'[e].active # admins[e].active
                      \/ admins'[e].password # admins[e].password
               PROVE  \/ \E q \in ChangeRequests :
                            /\ changeReq[q].op = "update"
                            /\ changeReq[q].target = e
                            /\ \/ changeReq[q].read.role = "admin"
                               \/ changeReq[q].actor = e
                      \/ e = RootEmail /\ admins'[e].password = Configured
    BY DEF SparesSuper
  <1>1. ASSUME NEW q \in ChangeRequests, ChangeCommits(q)
        PROVE  /\ changeReq[q].op = "update" /\ changeReq[q].target = e
               /\ \/ changeReq[q].read.role = "admin"
                  \/ changeReq[q].actor = e
    <2>1. changeReq[q].target = e
      BY <1>1, ChangeCommitEffect
    <2>2. changeReq[q].op = "update"
      BY <1>1, <2>1 DEF ChangeCommits
    <2>3. ~(/\ changeReq[q].write.active = changeReq[q].read.active
            /\ changeReq[q].write.password = changeReq[q].read.password)
      BY <1>1, <2>1, ChangeCommitEffect
    <2>4. Harmless(changeReq[q])
      BY <1>1, ChangeCommitEffect
    <2>5. QED
      BY <2>1, <2>2, <2>3, <2>4 DEF Harmless
  <1>2. ASSUME NEW s \in Starters, StarterUpdates(s) \/ StarterCommits(s)
        PROVE  e = RootEmail /\ admins'[e].password = Configured
    <2>1. Configured \in 0..ChangeBudget /\ admins[RootEmail] \in AccountRow
      BY DEF Configured, AccountsAssumption, AccountsInv, AdminAccountsTypeOK
    <2> DEFINE updated == PasswordRow(admins[RootEmail], Configured)
               inserted == NewAdmin("super", TRUE, Configured)
    <2>2. /\ updated.password = Configured /\ inserted.password = Configured
          /\ \/ admins' = [admins EXCEPT ![RootEmail] = updated]
             \/ admins' = [admins EXCEPT ![RootEmail] = inserted]
      <3>1. updated.password = Configured
        BY <2>1, ComputedRows
      <3>5. inserted.password = Configured
        BY <2>1, FirstAdmin
      <3>2. StarterUpdates(s) => admins' = [admins EXCEPT ![RootEmail] = updated]
        BY DEF StarterUpdates, PasswordRow
      <3>3. StarterCommits(s) => admins' = [admins EXCEPT ![RootEmail] = inserted]
        BY DEF StarterCommits
      <3>4. QED
        BY <1>2, <3>1, <3>2, <3>3, <3>5
    <2> HIDE DEF updated, inserted
    <2>3. QED
      BY <2>2 DEF AccountsInv, AdminAccountsTypeOK, AccountsAssumption
  <1>3. UNCHANGED admins \/ (\E q \in ChangeRequests : ChangeCommits(q))
        \/ (\E s \in Starters : StarterUpdates(s) \/ StarterCommits(s))
    <2>1. ASSUME NEW q \in ChangeRequests, NEW actor, NEW f,
                 \/ BeginCreateAdmin(q, actor, f) \/ BeginSetAdminStatus(q, actor, f)
                 \/ BeginResetPassword(q, actor, f) \/ BeginSetRole(q, actor, f)
                 \/ BeginOwnPassword(q, actor)
          PROVE  UNCHANGED admins
      BY <2>1 DEF BeginCreateAdmin, BeginSetAdminStatus, BeginResetPassword,
                  BeginSetRole, BeginOwnPassword, AskChange
    <2>2. ASSUME NEW q \in ChangeRequests, ChangeFails(q)
          PROVE  UNCHANGED admins
      BY <2>2 DEF ChangeFails
    <2>3. ASSUME NEW s \in Starters, \/ StarterReads(s) \/ StarterLocks(s)
                                     \/ StarterInserts(s) \/ StarterDies(s)
          PROVE  UNCHANGED admins
      BY <2>3 DEF StarterReads, StarterLocks, StarterInserts, StarterDies
    <2>4. QED
      BY <2>1, <2>2, <2>3 DEF NextAdminAccounts
  <1>4. QED
    BY <1>1, <1>2, <1>3

(* For any number of them: a super admin is disabled or given a password   *)
(* only by a request that read it as a mere admin, by itself, or, the      *)
(* root, by the configuration, since a request that took it for a super    *)
(* admin computed neither column.                                          *)
THEOREM SuperAdminsSpared == AdminAccountsSpec => SuperSpared
  <1>1. AccountsInv /\ AccountsAssumption /\ [NextAdminAccounts]_accountVars
           => [SparesSuper]_accountVars
    BY SparingStep DEF accountVars
  <1>2. QED
    BY <1>1, AccountsInitially, AccountsStep, AccountsAssumption, PTL
    DEF AdminAccountsSpec, SuperSpared
-----------------------------------------------------------------------------
(* The tokens of an administrator. *)

(* Refreshes in service that present the refresh token of pair p.           *)
Refreshing(p) ==
    {q \in TokenRequests : InService(q) /\ tokenReq[q].op = "refresh"
                                        /\ tokenReq[q].pair = p}

(* A count of failures that was read, and one more, are not more than the   *)
(* requests begun.  A pair presented for a refresh was minted.              *)
TokensCounted ==
    /\ adminRow.fails <= begun
    /\ \A q \in TokenRequests : InService(q) =>
          /\ tokenReq[q].op = "login" => tokenReq[q].row.fails < begun
          /\ tokenReq[q].op # "login" => pair[tokenReq[q].pair].minted

(* While Redis answers, a refresh token that is not revoked was not spent,  *)
(* and those that spend it yet have their place beside those that did.      *)
SpentOnceEach ==
    ~everDown =>
        /\ redisUp
        /\ \A p \in Pairs :
              /\ pair[p].refresh = "live" => Children(p) = {}
              /\ Cardinality(Children(p)) + Cardinality(Refreshing(p))
                    <= Cardinality(TokenRequests)

TokensInv == AdminTokensTypeOK /\ TokensCounted /\ SpentOnceEach

LEMMA TokenCountsFinite ==
    ASSUME TokensAssumption, NEW p
    PROVE  /\ IsFiniteSet(Children(p)) /\ Cardinality(Children(p)) \in Nat
           /\ IsFiniteSet(Refreshing(p)) /\ Cardinality(Refreshing(p)) \in Nat
           /\ Cardinality(Refreshing(p)) <= Cardinality(TokenRequests)
           /\ Cardinality(TokenRequests) \in Nat
  <1>1. IsFiniteSet(Pairs)
    BY FS_Interval DEF Pairs, TokensAssumption
  <1>2. Children(p) \subseteq Pairs /\ Refreshing(p) \subseteq TokenRequests
    BY DEF Children, Refreshing
  <1>3. QED
    BY <1>1, <1>2, FS_Subset, FS_CardinalityType DEF TokensAssumption

LEMMA TokensInitially == TokensAssumption /\ AdminTokensInit => TokensInv
  <1> SUFFICES ASSUME TokensAssumption, AdminTokensInit PROVE TokensInv
    OBVIOUS
  <1>1. AdminTokensTypeOK /\ TokensCounted
    <2>1. Unminted \in PairRow
      BY DEF Unminted, PairRow, TokensAssumption
    <2>2. adminRow \in AdminRow /\ adminRow.fails = 0
      BY DEF AdminTokensInit, AdminRow, TokensAssumption
    <2>3. \A q \in TokenRequests : tokenReq[q] = TokenIdle /\ ~InService(q)
      BY DEF AdminTokensInit, TokenIdle, InService
    <2>4. /\ pair \in [Pairs -> PairRow] /\ begun = 0
          /\ tokenReq \in [TokenRequests -> TokenRequest \cup {TokenIdle}]
          /\ redisUp \in BOOLEAN /\ everDown \in BOOLEAN
      BY <2>1 DEF AdminTokensInit
    <2>5. QED
      BY <2>2, <2>3, <2>4
      DEF AdminTokensTypeOK, TokensCounted, TokensAssumption
  <1>2. \A p \in Pairs : Children(p) = {} /\ Refreshing(p) = {}
    BY DEF AdminTokensInit, Children, Refreshing, Unminted, TokenIdle, InService
  <1>3. Cardinality({}) = 0 /\ Cardinality(TokenRequests) \in Nat
    BY FS_EmptySet, FS_CardinalityType DEF TokensAssumption
  <1>4. SpentOnceEach
    BY <1>2, <1>3 DEF SpentOnceEach, AdminTokensInit
  <1>5. QED
    BY <1>1, <1>4 DEF TokensInv

(* What a request carries. *)
LEMMA TokenCarries ==
    ASSUME AdminTokensTypeOK, NEW q \in TokenRequests, InService(q)
    PROVE  /\ tokenReq[q] \in TokenRequest
           /\ tokenReq[q].op = "login" => tokenReq[q].row \in AdminRow
           /\ tokenReq[q].op # "login" => tokenReq[q].pair \in Pairs
  <1>1. tokenReq[q] \in TokenRequest
    BY DEF AdminTokensTypeOK, InService, TokenIdle
  <1>2. tokenReq[q].op = "login" => tokenReq[q].row \in AdminRow
    BY <1>1 DEF TokenRequest
  <1>3. tokenReq[q].op # "login" => tokenReq[q].pair \in Pairs
    BY <1>1 DEF TokenRequest
  <1>4. QED
    BY <1>1, <1>2, <1>3

(* Steps that mint nothing from p and begin no refresh of it. *)
LEMMA SpendingKept ==
    ASSUME TokensAssumption, TokensInv, NEW p \in Pairs,
           Children(p)' \subseteq Children(p),
           Refreshing(p)' \subseteq Refreshing(p),
           pair'[p].refresh = "live" => pair[p].refresh = "live", ~everDown
    PROVE  /\ pair'[p].refresh = "live" => Children(p)' = {}
           /\ Cardinality(Children(p)') + Cardinality(Refreshing(p)')
                 <= Cardinality(TokenRequests)
  <1>1. /\ Cardinality(Children(p)') <= Cardinality(Children(p))
        /\ Cardinality(Refreshing(p)') <= Cardinality(Refreshing(p))
        /\ Cardinality(Children(p)') \in Nat
        /\ Cardinality(Refreshing(p)') \in Nat
    BY TokenCountsFinite, FS_Subset, FS_CardinalityType
  <1>2. QED
    BY <1>1, TokenCountsFinite DEF TokensInv, SpentOnceEach

(* A step that leaves the pairs and Redis, and begins no refresh. *)
LEMMA PairsStaySpent ==
    ASSUME TokensAssumption, TokensInv, UNCHANGED <<pair, redisUp, everDown>>,
           \A p \in Pairs : Refreshing(p)' \subseteq Refreshing(p)
    PROVE  SpentOnceEach'
  <1>1. \A p \in Pairs : Children(p)' = Children(p)
    BY DEF Children
  <1>2. QED
    BY <1>1, SpendingKept DEF SpentOnceEach, TokensInv

(* A step that mints nothing, and revives no refresh token. *)
LEMMA PairsStaySpentToo ==
    ASSUME TokensAssumption, TokensInv, UNCHANGED <<redisUp, everDown>>,
           \A p \in Pairs :
              /\ Refreshing(p)' \subseteq Refreshing(p)
              /\ pair'[p].minted = pair[p].minted /\ pair'[p].from = pair[p].from
              /\ pair'[p].refresh = "live" => pair[p].refresh = "live"
    PROVE  SpentOnceEach'
  <1>1. \A p \in Pairs : Children(p)' = Children(p)
    BY DEF Children
  <1>2. QED
    BY <1>1, SpendingKept DEF SpentOnceEach, TokensInv

(* A request goes on or ends. *)
LEMMA TokenGoesOn ==
    ASSUME AdminTokensTypeOK, NEW q \in TokenRequests, InService(q),
           \/ Answer(q)
           \/ \E stage \in {"checked", "minted", "access", "refresh"} :
                 /\ Continue(q, stage)
                 /\ tokenReq[q].op = IF stage \in {"checked", "minted"}
                                     THEN "refresh" ELSE "out"
    PROVE  /\ tokenReq' \in [TokenRequests -> TokenRequest \cup {TokenIdle}]
           /\ \A r \in TokenRequests : InService(r)' =>
                 /\ InService(r) /\ tokenReq'[r].op = tokenReq[r].op
                 /\ tokenReq[r].op = "login" => tokenReq'[r] = tokenReq[r]
                 /\ tokenReq[r].op # "login" =>
                       tokenReq'[r].pair = tokenReq[r].pair
           /\ \A p : Refreshing(p)' \subseteq Refreshing(p)
  <1>1. PICK to \in TokenRequest \cup {TokenIdle} :
           /\ tokenReq' = [tokenReq EXCEPT ![q] = to]
           /\ to # TokenIdle => /\ to.op = tokenReq[q].op
                                /\ tokenReq[q].op # "login"
                                /\ to.pair = tokenReq[q].pair
    <2>1. CASE Answer(q)
      BY <2>1 DEF Answer
    <2>2. ASSUME NEW stage \in {"checked", "minted", "access", "refresh"},
                 Continue(q, stage),
                 tokenReq[q].op = IF stage \in {"checked", "minted"}
                                  THEN "refresh" ELSE "out"
          PROVE  \E to \in TokenRequest \cup {TokenIdle} :
                    /\ tokenReq' = [tokenReq EXCEPT ![q] = to]
                    /\ to # TokenIdle => /\ to.op = tokenReq[q].op
                                         /\ tokenReq[q].op # "login"
                                         /\ to.pair = tokenReq[q].pair
      <3> DEFINE to == [tokenReq[q] EXCEPT !.stage = stage]
      <3>1. tokenReq' = [tokenReq EXCEPT ![q] = to]
        BY <2>2 DEF Continue
      <3>2. tokenReq[q] \in TokenRequest
        BY TokenCarries
      <3>3. /\ to \in TokenRequest /\ to.op = tokenReq[q].op
            /\ to.pair = tokenReq[q].pair
        BY <2>2, <3>2 DEF TokenRequest
      <3> HIDE DEF to
      <3>4. tokenReq[q].op # "login"
        BY <2>2
      <3>5. QED
        BY <3>1, <3>3, <3>4
    <2>3. QED
      BY <2>1, <2>2
  <1>2. /\ tokenReq'[q] = to
        /\ \A r \in TokenRequests : r # q => tokenReq'[r] = tokenReq[r]
        /\ tokenReq' \in [TokenRequests -> TokenRequest \cup {TokenIdle}]
    BY <1>1 DEF AdminTokensTypeOK
  <1>3. \A r \in TokenRequests : InService(r)' =>
           /\ InService(r) /\ tokenReq'[r].op = tokenReq[r].op
           /\ tokenReq[r].op = "login" => tokenReq'[r] = tokenReq[r]
           /\ tokenReq[r].op # "login" => tokenReq'[r].pair = tokenReq[r].pair
    BY <1>1, <1>2 DEF InService, TokenIdle
  <1>4. \A p : Refreshing(p)' \subseteq Refreshing(p)
    BY <1>3 DEF Refreshing
  <1>5. QED
    BY <1>2, <1>3, <1>4

(* What a step of a request leaves to show. *)
LEMMA TokenStepKeeps ==
    ASSUME TokensAssumption, TokensInv, NEW q \in TokenRequests, InService(q),
           \/ Answer(q)
           \/ \E stage \in {"checked", "minted", "access", "refresh"} :
                 /\ Continue(q, stage)
                 /\ tokenReq[q].op = IF stage \in {"checked", "minted"}
                                     THEN "refresh" ELSE "out",
           UNCHANGED <<redisUp, everDown, begun>>,
           adminRow' \in AdminRow, adminRow'.fails <= begun,
           pair' \in [Pairs -> PairRow],
           \A p \in Pairs : pair[p].minted => pair'[p].minted,
           SpentOnceEach'
    PROVE  TokensInv'
  <1>1. AdminTokensTypeOK'
    BY TokenGoesOn DEF AdminTokensTypeOK, TokensInv
  <1>2. \A r \in TokenRequests : InService(r) /\ tokenReq[r].op # "login" =>
           tokenReq[r].pair \in Pairs
    BY TokenCarries DEF TokensInv
  <1>3. TokensCounted'
    BY <1>2, TokenGoesOn DEF TokensCounted, TokensInv
  <1>4. QED
    BY <1>1, <1>3 DEF TokensInv

(* What a commit makes of the row. *)
LEMMA SavedAdmin ==
    ASSUME AdminTokensTypeOK, NEW q \in TokenRequests, InService(q),
           tokenReq[q].op = "login", NEW computed \in AdminRow,
           SaveAdmin(q, computed)
    PROVE  /\ adminRow' \in AdminRow
           /\ adminRow'.fails \in {computed.fails, adminRow.fails}
  <1>1. tokenReq[q].row \in AdminRow /\ adminRow \in AdminRow
    BY TokenCarries DEF AdminTokensTypeOK
  <1>2. QED
    BY <1>1 DEF SaveAdmin, AdminRow

FailedRow(row, fails, locked) == [row EXCEPT !.fails = fails, !.locked = locked]

LEMMA FailedRows ==
    ASSUME NEW row \in AdminRow, NEW fails \in 0..TokenBudget,
           NEW locked \in {"no", "on", "over"}
    PROVE  /\ FailedRow(row, fails, locked) \in AdminRow
           /\ FailedRow(row, fails, locked).fails = fails
  BY DEF AdminRow, FailedRow

LEMMA LoginFailKeeps ==
    ASSUME TokensAssumption, TokensInv, NEW q \in TokenRequests,
           AdminLoginFails(q)
    PROVE  TokensInv'
  <1> DEFINE row == tokenReq[q].row
             fails == row.fails + 1
             locked == IF fails >= AdminMaxFailures THEN "on" ELSE row.locked
             computed == FailedRow(row, fails, locked)
  <1>1. /\ InService(q) /\ tokenReq[q].op = "login" /\ Answer(q)
        /\ SaveAdmin(q, computed) /\ UNCHANGED <<pair, redisUp, everDown, begun>>
    BY DEF AdminLoginFails, At, InService, FailedRow
  <1>2. row \in AdminRow /\ row.fails < begun /\ begun \in 0..TokenBudget
    BY <1>1, TokenCarries DEF TokensInv, TokensCounted, AdminTokensTypeOK
  <1>3. /\ fails \in 0..TokenBudget /\ fails <= begun
        /\ locked \in {"no", "on", "over"}
    BY <1>2 DEF AdminRow, TokensAssumption
  <1> HIDE DEF row, fails, locked
  <1>4. computed \in AdminRow /\ computed.fails <= begun
    BY <1>2, <1>3, FailedRows
  <1> HIDE DEF computed
  <1>5. adminRow' \in AdminRow /\ adminRow'.fails <= begun
    BY <1>1, <1>4, SavedAdmin DEF TokensInv, TokensCounted
  <1>6. SpentOnceEach'
    BY <1>1, TokenGoesOn, PairsStaySpent DEF TokensInv
  <1>7. QED
    BY <1>1, <1>5, <1>6, TokenStepKeeps DEF TokensInv, AdminTokensTypeOK

MintedRow(row, from) == [row EXCEPT !.minted = TRUE, !.from = from]
DeadRow(row) == [row EXCEPT !.refresh = "dead"]

LEMMA PairRows ==
    ASSUME NEW row \in PairRow, NEW from \in 0..MaxPairs
    PROVE  /\ MintedRow(row, from) \in PairRow
           /\ MintedRow(row, from).minted /\ MintedRow(row, from).from = from
           /\ MintedRow(row, from).refresh = row.refresh
           /\ DeadRow(row) \in PairRow /\ DeadRow(row).minted = row.minted
           /\ DeadRow(row).from = row.from /\ DeadRow(row).refresh = "dead"
  BY DEF PairRow, MintedRow, DeadRow

LEMMA LoginSuccessKeeps ==
    ASSUME TokensAssumption, TokensInv, NEW q \in TokenRequests,
           AdminLoginSucceeds(q)
    PROVE  TokensInv'
  <1> DEFINE row == tokenReq[q].row
             computed == FailedRow(row, 0, "no")
  <1>1. /\ InService(q) /\ tokenReq[q].op = "login" /\ Answer(q)
        /\ UNCHANGED <<redisUp, everDown, begun>>
        /\ \/ SaveAdmin(q, computed) /\ Mint(0)
           \/ UNCHANGED <<adminRow, pair>>
    BY DEF AdminLoginSucceeds, At, InService, FailedRow
  <1>2. row \in AdminRow /\ begun \in 0..TokenBudget
    BY <1>1, TokenCarries DEF TokensInv, AdminTokensTypeOK
  <1> HIDE DEF row
  <1>3. computed \in AdminRow /\ computed.fails = 0
    <2>1. 0 \in 0..TokenBudget
      BY DEF TokensAssumption
    <2>2. QED
      BY <1>2, <2>1, FailedRows
  <1> HIDE DEF computed
  <1>4. adminRow' \in AdminRow /\ adminRow'.fails <= begun
    <2>1. adminRow \in AdminRow /\ adminRow.fails <= begun
      BY DEF TokensInv, TokensCounted, AdminTokensTypeOK
    <2>2. QED
      BY <1>1, <1>2, <1>3, <2>1, SavedAdmin DEF TokensInv, AdminTokensTypeOK
  <1>5. \A p \in Pairs : Refreshing(p)' \subseteq Refreshing(p)
    BY <1>1, TokenGoesOn DEF TokensInv
  <1>6. CASE UNCHANGED <<adminRow, pair>>
    <2>1. SpentOnceEach'
      BY <1>1, <1>5, <1>6, PairsStaySpent
    <2>2. QED
      BY <1>1, <1>4, <1>6, <2>1, TokenStepKeeps DEF TokensInv, AdminTokensTypeOK
  <1>7. CASE Mint(0)
    <2>1. PICK p \in Pairs : /\ ~pair[p].minted
                             /\ pair' = [pair EXCEPT ![p] = MintedRow(pair[p], 0)]
      BY <1>7 DEF Mint, MintedRow, TokensInv, AdminTokensTypeOK
    <2>2. /\ pair[p] \in PairRow /\ MintedRow(pair[p], 0) \in PairRow
          /\ MintedRow(pair[p], 0).from = 0 /\ MintedRow(pair[p], 0).minted
          /\ MintedRow(pair[p], 0).refresh = pair[p].refresh
      BY PairRows DEF TokensInv, AdminTokensTypeOK, TokensAssumption
    <2>3. /\ pair'[p] = MintedRow(pair[p], 0)
          /\ \A r \in Pairs : r # p => pair'[r] = pair[r]
          /\ pair' \in [Pairs -> PairRow]
      BY <2>1, <2>2 DEF TokensInv, AdminTokensTypeOK
    <2>4. \A r \in Pairs : r # 0
      BY DEF Pairs, TokensAssumption
    <2>5. \A r \in Pairs : Children(r)' \subseteq Children(r)
      BY <2>2, <2>3, <2>4 DEF Children
    <2>6. \A r \in Pairs : pair'[r].refresh = "live" => pair[r].refresh = "live"
      BY <2>2, <2>3
    <2>7. SpentOnceEach'
      BY <1>1, <1>5, <2>5, <2>6, SpendingKept DEF SpentOnceEach, TokensInv
    <2>8. \A r \in Pairs : pair[r].minted => pair'[r].minted
      BY <2>1, <2>3
    <2>9. QED
      BY <1>1, <1>4, <2>3, <2>7, <2>8, TokenStepKeeps
  <1>8. QED
    BY <1>1, <1>6, <1>7

(* A refresh that succeeds turns its own place into the child's.            *)
LEMMA RefreshEndKeeps ==
    ASSUME TokensAssumption, TokensInv, NEW q \in TokenRequests,
           RefreshEnds(q)
    PROVE  TokensInv'
  <1>1. /\ InService(q) /\ tokenReq[q].op = "refresh" /\ Answer(q)
        /\ UNCHANGED <<adminRow, redisUp, everDown, begun>>
    BY DEF RefreshEnds, At, InService
  <1>2. PICK old \in Pairs : old = tokenReq[q].pair
    BY <1>1, TokenCarries DEF TokensInv
  <1>7. /\ old \in Pairs /\ pair[old].minted
        /\ adminRow \in AdminRow /\ adminRow.fails <= begun
        /\ pair \in [Pairs -> PairRow]
    BY <1>1, <1>2 DEF TokensInv, TokensCounted, AdminTokensTypeOK
  <1>3. \A p \in Pairs : Refreshing(p)' \subseteq Refreshing(p)
    BY <1>1, TokenGoesOn DEF TokensInv
  <1>4. CASE UNCHANGED pair
    <2>1. SpentOnceEach'
      BY <1>1, <1>3, <1>4, PairsStaySpent
    <2>2. QED
      BY <1>1, <1>7, <1>4, <2>1, TokenStepKeeps
  <1>5. CASE \E p \in Pairs :
                /\ ~pair[p].minted
                /\ pair' = [pair EXCEPT ![p].minted = TRUE, ![p].from = old,
                                        ![old].refresh = "dead"]
    <2>1. PICK p \in Pairs :
             /\ ~pair[p].minted
             /\ pair' = [pair EXCEPT ![p].minted = TRUE, ![p].from = old,
                                     ![old].refresh = "dead"]
      BY <1>5
    <2>2. p # old
      BY <1>7, <2>1
    <2>3. /\ pair'[p] = MintedRow(pair[p], old)
          /\ pair'[old] = DeadRow(pair[old])
          /\ \A r \in Pairs : r # p /\ r # old => pair'[r] = pair[r]
          /\ DOMAIN pair' = Pairs /\ pair' = [r \in Pairs |-> pair'[r]]
      BY <1>7, <2>1, <2>2 DEF MintedRow, DeadRow
    <2>4. old \in 0..MaxPairs
      BY <1>7 DEF Pairs, TokensAssumption
    <2>5. /\ pair[p] \in PairRow /\ MintedRow(pair[p], old) \in PairRow
          /\ MintedRow(pair[p], old).from = old /\ MintedRow(pair[p], old).minted
          /\ MintedRow(pair[p], old).refresh = pair[p].refresh
      BY <1>7, <2>4, PairRows
    <2>6. /\ DeadRow(pair[old]) \in PairRow /\ DeadRow(pair[old]).minted
          /\ DeadRow(pair[old]).from = pair[old].from
          /\ DeadRow(pair[old]).refresh = "dead"
      BY <1>7, <2>4, PairRows
    <2>7. pair' \in [Pairs -> PairRow]
      <3>1. \A r \in Pairs : pair'[r] \in PairRow
        BY <1>7, <2>3, <2>5, <2>6
      <3>2. QED
        BY <2>3, <3>1
    <2>8. \A r \in Pairs : pair[r].minted => pair'[r].minted
      BY <2>1, <2>3, <2>6
    <2>12. \A c \in Pairs : c # p => /\ pair'[c].from = pair[c].from
                                     /\ pair'[c].minted => pair[c].minted
      BY <1>7, <2>3, <2>6
    <2>9. ASSUME NEW r \in Pairs, ~everDown
          PROVE  /\ pair'[r].refresh = "live" => Children(r)' = {}
                 /\ Cardinality(Children(r)') + Cardinality(Refreshing(r)')
                       <= Cardinality(TokenRequests)
      <3>1. CASE r # old
        <4>1. Children(r)' \subseteq Children(r)
          BY <2>3, <2>5, <2>12, <3>1 DEF Children
        <4>2. pair'[r].refresh = "live" => pair[r].refresh = "live"
          BY <2>3, <2>5, <3>1
        <4>3. QED
          BY <1>3, <2>9, <4>1, <4>2, SpendingKept
      <3>2. CASE r = old
        <4>1. Children(old)' \subseteq Children(old) \cup {p}
          BY <2>12 DEF Children
        <4>2. /\ IsFiniteSet(Children(old) \cup {p})
              /\ Cardinality(Children(old) \cup {p}) \in Nat
              /\ Cardinality(Children(old) \cup {p})
                    <= Cardinality(Children(old)) + 1
          BY TokenCountsFinite, OneMore
        <4>3. /\ Cardinality(Children(old)') <= Cardinality(Children(old) \cup {p})
              /\ Cardinality(Children(old)') \in Nat
          BY <4>1, <4>2, FS_Subset, FS_CardinalityType
        <4>4. q \in Refreshing(old)
          BY <1>1, <1>2 DEF Refreshing
        <4>5. Refreshing(old)' \subseteq Refreshing(old) \ {q}
          <5>1. ~InService(q)'
            BY <1>1 DEF Answer, InService, TokenIdle, TokensInv, AdminTokensTypeOK
          <5>2. q \notin Refreshing(old)'
            BY <5>1 DEF Refreshing
          <5>3. QED
            BY <1>7, <1>3, <5>2
        <4>6. /\ Cardinality(Refreshing(old) \ {q}) = Cardinality(Refreshing(old)) - 1
              /\ IsFiniteSet(Refreshing(old) \ {q})
          BY <4>4, TokenCountsFinite, FS_RemoveElement
        <4>7. /\ Cardinality(Refreshing(old)') <= Cardinality(Refreshing(old)) - 1
              /\ Cardinality(Refreshing(old)') \in Nat
          BY <4>5, <4>6, FS_Subset, FS_CardinalityType
        <4>8. Cardinality(Children(old)) + Cardinality(Refreshing(old))
                 <= Cardinality(TokenRequests)
          BY <1>7, <2>9 DEF TokensInv, SpentOnceEach
        <4>9. Cardinality(Children(old)') + Cardinality(Refreshing(old)')
                 <= Cardinality(TokenRequests)
          BY <4>2, <4>3, <4>7, <4>8, TokenCountsFinite
        <4>10. pair'[old].refresh # "live"
          BY <2>3, <2>6
        <4>11. QED
          BY <3>2, <4>9, <4>10
      <3>3. QED
        BY <3>1, <3>2
    <2>10. SpentOnceEach'
      BY <1>1, <2>9 DEF SpentOnceEach, TokensInv
    <2>11. QED
      BY <1>1, <1>7, <2>7, <2>8, <2>10, TokenStepKeeps
  <1>6. QED
    BY <1>2, <1>4, <1>5 DEF RefreshEnds

(* A token revoked or expired: the row keeps what is of its origin. *)
AccessRow(row, state) == [row EXCEPT !.access = state]
RefreshRow(row, state) == [row EXCEPT !.refresh = state]

LEMMA StateRows ==
    ASSUME NEW row \in PairRow, NEW state \in {"live", "dead", "expired"}
    PROVE  /\ AccessRow(row, state) \in PairRow
           /\ AccessRow(row, state).minted = row.minted
           /\ AccessRow(row, state).from = row.from
           /\ AccessRow(row, state).refresh = row.refresh
           /\ AccessRow(row, state).access = state
           /\ RefreshRow(row, state) \in PairRow
           /\ RefreshRow(row, state).minted = row.minted
           /\ RefreshRow(row, state).from = row.from
           /\ RefreshRow(row, state).refresh = state
  BY DEF PairRow, AccessRow, RefreshRow

(* Of one pair a token changes its state, not back to live. *)
LEMMA PairStateKept ==
    ASSUME TokensAssumption, TokensInv, NEW p \in Pairs, NEW row \in PairRow,
           pair' = [pair EXCEPT ![p] = row],
           row.minted = pair[p].minted, row.from = pair[p].from,
           row.refresh = "live" => pair[p].refresh = "live",
           \A r \in Pairs : Refreshing(r)' \subseteq Refreshing(r),
           UNCHANGED <<redisUp, everDown>>
    PROVE  /\ pair' \in [Pairs -> PairRow] /\ SpentOnceEach'
           /\ \A r \in Pairs : pair[r].minted => pair'[r].minted
  <1>1. /\ pair'[p] = row /\ \A r \in Pairs : r # p => pair'[r] = pair[r]
        /\ pair' \in [Pairs -> PairRow]
    BY DEF TokensInv, AdminTokensTypeOK
  <1>2. SpentOnceEach'
    BY <1>1, PairsStaySpentToo
  <1>3. QED
    BY <1>1, <1>2

LEMMA SignOutKeeps ==
    ASSUME TokensAssumption, TokensInv, NEW q \in TokenRequests,
           SignOutAccess(q) \/ SignOutRefresh(q)
    PROVE  TokensInv'
  <1>1. /\ InService(q) /\ tokenReq[q].op = "out"
        /\ UNCHANGED <<adminRow, redisUp, everDown, begun>>
        /\ Answer(q) \/ Continue(q, "refresh")
    BY DEF SignOutAccess, SignOutRefresh, At, InService
  <1>2. PICK p \in Pairs : p = tokenReq[q].pair
    BY <1>1, TokenCarries DEF TokensInv
  <1>3. /\ pair[p] \in PairRow /\ adminRow \in AdminRow
        /\ adminRow.fails <= begun
    BY DEF TokensInv, TokensCounted, AdminTokensTypeOK
  <1>4. \A r \in Pairs : Refreshing(r)' \subseteq Refreshing(r)
    BY <1>1, TokenGoesOn DEF TokensInv
  <1> DEFINE access == Revoked(pair[p].access)
             refresh == Revoked(pair[p].refresh)
  <1>5. /\ access \in {"live", "dead", "expired"}
        /\ refresh \in {"live", "dead", "expired"}
        /\ refresh = "live" => pair[p].refresh = "live"
    BY <1>3 DEF Revoked, PairRow
  <1>6. \/ pair' = [pair EXCEPT ![p] = AccessRow(pair[p], access)]
        \/ pair' = [pair EXCEPT ![p] = RefreshRow(pair[p], refresh)]
    BY <1>2 DEF SignOutAccess, SignOutRefresh, AccessRow, RefreshRow
  <1> HIDE DEF access, refresh
  <1>7. /\ pair' \in [Pairs -> PairRow] /\ SpentOnceEach'
        /\ \A r \in Pairs : pair[r].minted => pair'[r].minted
    BY <1>1, <1>3, <1>4, <1>5, <1>6, StateRows, PairStateKept
  <1>8. QED
    BY <1>1, <1>3, <1>7, TokenStepKeeps

LEMMA RefreshReadKeeps ==
    ASSUME TokensAssumption, TokensInv, NEW q \in TokenRequests,
           RefreshReads(q)
    PROVE  TokensInv'
  <1>1. /\ InService(q) /\ tokenReq[q].op = "refresh"
        /\ UNCHANGED <<adminRow, pair, redisUp, everDown, begun>>
        /\ Answer(q) \/ Continue(q, "minted")
    BY DEF RefreshReads, At, InService
  <1>2. /\ pair \in [Pairs -> PairRow] /\ adminRow \in AdminRow
        /\ adminRow.fails <= begun
    BY DEF TokensInv, TokensCounted, AdminTokensTypeOK
  <1>3. SpentOnceEach'
    BY <1>1, TokenGoesOn, PairsStaySpent DEF TokensInv
  <1>4. QED
    BY <1>1, <1>2, <1>3, TokenStepKeeps

(* A request begins. *)
LEMMA TokenBeginKeeps ==
    ASSUME TokensAssumption, TokensInv, NEW q \in TokenRequests,
           NEW request \in TokenRequest, TokenBegins(q, request),
           request.op = "login" => request.row.fails <= begun,
           request.op # "login" => pair[request.pair].minted,
           request.op = "refresh" => Passes(pair[request.pair].refresh)
    PROVE  TokensInv'
  <1>1. /\ ~InService(q) /\ begun < TokenBudget /\ begun' = begun + 1
        /\ tokenReq' = [tokenReq EXCEPT ![q] = request]
        /\ UNCHANGED <<adminRow, pair, redisUp, everDown>>
    BY DEF TokenBegins
  <1>2. /\ tokenReq'[q] = request
        /\ \A r \in TokenRequests : r # q => tokenReq'[r] = tokenReq[r]
        /\ tokenReq' \in [TokenRequests -> TokenRequest \cup {TokenIdle}]
    BY <1>1 DEF TokensInv, AdminTokensTypeOK
  <1>3. begun \in 0..TokenBudget /\ begun' \in 0..TokenBudget
    BY <1>1 DEF TokensInv, AdminTokensTypeOK, TokensAssumption
  <1>4. AdminTokensTypeOK'
    BY <1>1, <1>2, <1>3 DEF TokensInv, AdminTokensTypeOK
  <1>5. TokensCounted'
    <2>1. adminRow'.fails <= begun'
      <3>1. adminRow.fails \in Int /\ adminRow.fails <= begun
        BY DEF TokensInv, TokensCounted, AdminTokensTypeOK, AdminRow
      <3>2. QED
        BY <1>1, <1>3, <3>1
    <2>2. ASSUME NEW r \in TokenRequests, InService(r)'
          PROVE  /\ tokenReq'[r].op = "login" => tokenReq'[r].row.fails < begun'
                 /\ tokenReq'[r].op # "login" => pair'[tokenReq'[r].pair].minted
      <3>1. CASE r = q
        <4>1. request.op = "login" => request.row.fails \in Int
          BY DEF TokenRequest, AdminRow
        <4>2. QED
          BY <1>1, <1>2, <1>3, <3>1, <4>1
      <3>2. CASE r # q
        <4>1. tokenReq'[r] = tokenReq[r] /\ InService(r)
          BY <1>2, <2>2, <3>2 DEF InService
        <4>2. tokenReq[r].op = "login" => tokenReq[r].row.fails \in Int
          BY <4>1, TokenCarries DEF TokensInv, AdminRow
        <4>3. QED
          BY <1>1, <1>3, <4>1, <4>2 DEF TokensInv, TokensCounted
      <3>3. QED
        BY <3>1, <3>2
    <2>3. QED
      BY <2>1, <2>2 DEF TokensCounted
  <1>6. SpentOnceEach'
    <2> SUFFICES ASSUME ~everDown, NEW p \in Pairs
                 PROVE  /\ redisUp
                        /\ pair[p].refresh = "live" => Children(p)' = {}
                        /\ Cardinality(Children(p)') + Cardinality(Refreshing(p)')
                              <= Cardinality(TokenRequests)
      BY <1>1 DEF SpentOnceEach, TokensInv
    <2>1. Children(p)' = Children(p) /\ redisUp
      BY <1>1 DEF Children, TokensInv, SpentOnceEach
    <2>2. CASE request.op = "refresh" /\ request.pair = p
      <3>1. pair[p].refresh = "live"
        BY <2>1, <2>2 DEF Passes, TokensInv, AdminTokensTypeOK, PairRow
      <3>2. Children(p)' = {}
        BY <2>1, <3>1 DEF TokensInv, SpentOnceEach
      <3>3. Refreshing(p)' \subseteq TokenRequests
        BY DEF Refreshing
      <3>4. /\ Cardinality(Refreshing(p)') <= Cardinality(TokenRequests)
            /\ Cardinality(Refreshing(p)') \in Nat /\ Cardinality({}) = 0
        BY <3>3, FS_Subset, FS_CardinalityType, FS_EmptySet DEF TokensAssumption
      <3>5. QED
        BY <2>1, <3>2, <3>4
    <2>3. CASE ~(request.op = "refresh" /\ request.pair = p)
      <3>1. Refreshing(p)' \subseteq Refreshing(p)
        BY <1>2, <2>3 DEF Refreshing, InService
      <3>2. QED
        BY <1>1, <2>1, <3>1, SpendingKept
    <2>4. QED
      BY <2>2, <2>3
  <1>7. QED
    BY <1>4, <1>5, <1>6 DEF TokensInv

LEMMA TokenBeginsKeep ==
    ASSUME TokensAssumption, TokensInv, NEW q \in TokenRequests,
           \/ BeginAdminLogin(q)
           \/ \E p \in Pairs : BeginAdminRefresh(q, p) \/ BeginSignOut(q, p)
    PROVE  TokensInv'
  <1>1. CASE BeginAdminLogin(q)
    <2> DEFINE request == [op |-> "login", stage |-> "read", row |-> adminRow]
    <2>1. TokenBegins(q, request)
      BY <1>1 DEF BeginAdminLogin
    <2>2. request \in TokenRequest /\ adminRow.fails <= begun
      BY DEF TokenRequest, TokensInv, AdminTokensTypeOK, TokensCounted
    <2>3. QED
      BY <2>1, <2>2, TokenBeginKeeps
  <1>2. ASSUME NEW p \in Pairs, BeginAdminRefresh(q, p)
        PROVE  TokensInv'
    <2> DEFINE request == [op |-> "refresh", stage |-> "checked", pair |-> p]
    <2>1. TokenBegins(q, request) /\ pair[p].minted /\ Passes(pair[p].refresh)
      BY <1>2 DEF BeginAdminRefresh
    <2>2. request \in TokenRequest
      BY DEF TokenRequest
    <2>3. QED
      BY <2>1, <2>2, TokenBeginKeeps
  <1>3. ASSUME NEW p \in Pairs, BeginSignOut(q, p)
        PROVE  TokensInv'
    <2> DEFINE request == [op |-> "out", stage |-> "access", pair |-> p]
    <2>1. TokenBegins(q, request) /\ pair[p].minted
      BY <1>3 DEF BeginSignOut
    <2>2. request \in TokenRequest
      BY DEF TokenRequest
    <2>3. QED
      BY <2>1, <2>2, TokenBeginKeeps
  <1>4. QED
    BY <1>1, <1>2, <1>3

SwitchedRow(row) == [row EXCEPT !.active = ~@]
UnlockedRow(row) == [row EXCEPT !.locked = "over"]

LEMMA SwitchedRows ==
    ASSUME NEW row \in AdminRow
    PROVE  /\ SwitchedRow(row) \in AdminRow
           /\ SwitchedRow(row).fails = row.fails
           /\ UnlockedRow(row) \in AdminRow
           /\ UnlockedRow(row).fails = row.fails
  BY DEF AdminRow, SwitchedRow, UnlockedRow

LEMMA TokenTimeKeeps ==
    ASSUME TokensAssumption, TokensInv,
           \/ \E p \in Pairs : Expires(p)
           \/ LockRunsOut \/ RedisSwitches \/ AdminSwitched
    PROVE  TokensInv'
  <1>1. UNCHANGED <<tokenReq, begun>>
    BY DEF Expires, LockRunsOut, RedisSwitches, AdminSwitched
  <1>2. \A p \in Pairs : Refreshing(p)' = Refreshing(p)
    BY <1>1 DEF Refreshing, InService
  <1>3. ASSUME NEW p \in Pairs, Expires(p)
        PROVE  TokensInv'
    <2> DEFINE last == IF pair[p].access = "expired" THEN "expired"
                       ELSE pair[p].refresh
               row == RefreshRow(AccessRow(pair[p], "expired"), last)
    <2>1. pair' = [pair EXCEPT ![p] = row] /\ UNCHANGED <<adminRow, redisUp, everDown>>
      BY <1>3 DEF Expires, AccessRow, RefreshRow, TokensInv, AdminTokensTypeOK,
                  PairRow
    <2>2. pair[p] \in PairRow
      BY DEF TokensInv, AdminTokensTypeOK
    <2>3. /\ last \in {"live", "dead", "expired"}
          /\ last = "live" => pair[p].refresh = "live"
      BY <2>2 DEF PairRow
    <2> HIDE DEF last
    <2>4. /\ row \in PairRow /\ row.minted = pair[p].minted
          /\ row.from = pair[p].from /\ row.refresh = last
      BY <2>2, <2>3, StateRows
    <2> HIDE DEF row
    <2>5. /\ pair' \in [Pairs -> PairRow] /\ SpentOnceEach'
          /\ \A r \in Pairs : pair[r].minted => pair'[r].minted
      BY <1>2, <2>1, <2>3, <2>4, PairStateKept
    <2>6. \A r \in TokenRequests : InService(r) /\ tokenReq[r].op # "login" =>
             tokenReq[r].pair \in Pairs
      BY TokenCarries DEF TokensInv
    <2>7. QED
      BY <1>1, <2>1, <2>5, <2>6
      DEF TokensInv, AdminTokensTypeOK, TokensCounted, InService
  <1>4. ASSUME LockRunsOut \/ AdminSwitched
        PROVE  TokensInv'
    <2>1. /\ UNCHANGED <<pair, redisUp, everDown>>
          /\ adminRow' = SwitchedRow(adminRow) \/ adminRow' = UnlockedRow(adminRow)
      BY <1>4 DEF LockRunsOut, AdminSwitched, SwitchedRow, UnlockedRow
    <2>2. adminRow' \in AdminRow /\ adminRow'.fails = adminRow.fails
      BY <2>1, SwitchedRows DEF TokensInv, AdminTokensTypeOK
    <2>3. SpentOnceEach'
      BY <1>2, <2>1, PairsStaySpent
    <2>4. QED
      BY <1>1, <2>1, <2>2, <2>3
      DEF TokensInv, AdminTokensTypeOK, TokensCounted, InService
  <1>5. ASSUME RedisSwitches
        PROVE  TokensInv'
    BY <1>1, <1>5 DEF RedisSwitches, TokensInv, AdminTokensTypeOK, TokensCounted,
                      InService, SpentOnceEach
  <1>6. QED
    BY <1>3, <1>4, <1>5

LEMMA TokensStep ==
    ASSUME TokensAssumption, TokensInv, [NextAdminTokens]_tokenVars
    PROVE  TokensInv'
  <1>1. ASSUME UNCHANGED tokenVars
        PROVE  TokensInv'
    BY <1>1 DEF tokenVars, TokensInv, AdminTokensTypeOK, TokensCounted, InService,
                SpentOnceEach, Children, Refreshing
  <1>2. QED
    BY <1>1, TokenBeginsKeep, LoginFailKeeps, LoginSuccessKeeps, RefreshReadKeeps,
       RefreshEndKeeps, SignOutKeeps, TokenTimeKeeps
    DEF NextAdminTokens

(* For any number of requests and of tokens: while Redis answers, a refresh *)
(* token yields no more pairs than requests are served at a time.  A pair   *)
(* and a request that may yet make one are counted together, and nobody     *)
(* joins them once one of them has revoked the token.                       *)
THEOREM RefreshesAreBounded ==
    AdminTokensSpec => [](AdminTokensTypeOK /\ ForksBounded)
  <1>1. TokensInv /\ TokensAssumption => AdminTokensTypeOK /\ ForksBounded
    BY TokenCountsFinite DEF TokensInv, SpentOnceEach, ForksBounded
  <1>2. QED
    BY <1>1, TokensInitially, TokensStep, TokensAssumption, PTL
    DEF AdminTokensSpec

-----------------------------------------------------------------------------
(* Health checks. *)

(* A check writes no verdict on an account it has not loaded.  An account   *)
(* disabled while no check had it loaded is still disabled, so none has.    *)
HealthSound ==
    /\ \A c \in Checks, a \in Accounts :
          ~Loads(c, a) => check[c].write[a] = Absent
    /\ \A a \in intended \ raced :
          account[a] = "disabled" /\ \A c \in Checks : ~Loads(c, a)

HealthInv == PoolHealthTypeOK /\ HealthSound

CheckRow == [runs : BOOLEAN, read : Verdicts, write : Verdicts]

LEMMA NoCheckType ==
    /\ NoCheck \in CheckRow
    /\ \A a \in Accounts : NoCheck.read[a] = Absent /\ NoCheck.write[a] = Absent
  BY DEF NoCheck, CheckRow, Unloaded, Verdicts

LEMMA HealthInitially == PoolHealthInit => HealthInv
  <1> SUFFICES ASSUME PoolHealthInit PROVE HealthInv
    OBVIOUS
  <1>1. check = [c \in Checks |-> NoCheck]
    BY DEF PoolHealthInit
  <1>2. PoolHealthTypeOK
    BY <1>1, NoCheckType DEF PoolHealthInit, PoolHealthTypeOK, CheckRow
  <1>3. HealthSound
    BY <1>1, NoCheckType DEF PoolHealthInit, HealthSound
  <1>4. QED
    BY <1>2, <1>3 DEF HealthInv

(* A check goes on: what it loads anew was not disabled. *)
LEMMA CheckKeeps ==
    ASSUME HealthInv, NEW c \in Checks, NEW row \in CheckRow,
           check' = [check EXCEPT ![c] = row],
           UNCHANGED <<poolOn, account, intended, raced>>,
           \A a \in Accounts :
              /\ row.read[a] = Absent => row.write[a] = Absent
              /\ row.read[a] # Absent => Loads(c, a) \/ account[a] # "disabled"
    PROVE  HealthInv'
  <1>1. /\ check'[c] = row
        /\ \A d \in Checks : d # c => check'[d] = check[d]
        /\ check' \in [Checks -> CheckRow]
    BY DEF HealthInv, PoolHealthTypeOK, CheckRow
  <1>2. PoolHealthTypeOK'
    BY <1>1 DEF HealthInv, PoolHealthTypeOK, CheckRow
  <1>3. intended \subseteq Accounts
    BY DEF HealthInv, PoolHealthTypeOK
  <1>4. HealthSound'
    BY <1>1, <1>3 DEF HealthInv, HealthSound, Loads
  <1>5. QED
    BY <1>2, <1>4 DEF HealthInv

LEMMA StartCheckKeeps ==
    ASSUME HealthInv, NEW c \in Checks, NEW p \in Pools, StartCheck(c, p)
    PROVE  HealthInv'
  <1> DEFINE mine == {a \in Accounts : /\ Checkable(a)
                                       /\ IF c = Job THEN PoolOf[a] \in poolOn
                                                     ELSE PoolOf[a] = p}
             loaded == [a \in Accounts |-> IF a \in mine THEN account[a] ELSE Absent]
             row == [runs |-> TRUE, read |-> loaded, write |-> loaded]
  <1>1. /\ check' = [check EXCEPT ![c] = row]
        /\ UNCHANGED <<poolOn, account, intended, raced>>
    BY DEF StartCheck
  <1>2. \A a \in mine : account[a] \in {"active", "error"}
    BY DEF Checkable
  <1> HIDE DEF mine
  <1>3. loaded \in Verdicts
    BY <1>2 DEF Verdicts
  <1>4. /\ row \in CheckRow
        /\ \A a \in Accounts : row.read[a] = loaded[a] /\ row.write[a] = loaded[a]
    BY <1>3 DEF CheckRow
  <1>5. \A a \in Accounts : loaded[a] # Absent => account[a] # "disabled"
    BY <1>2
  <1> HIDE DEF loaded, row
  <1>6. QED
    BY <1>1, <1>4, <1>5, CheckKeeps

FoundRow(row, a, status) == [row EXCEPT !.write[a] = status]

LEMMA FoundRows ==
    ASSUME NEW row \in CheckRow, NEW a \in Accounts,
           NEW status \in {"active", "error"}
    PROVE  /\ FoundRow(row, a, status) \in CheckRow
           /\ FoundRow(row, a, status).read = row.read
           /\ \A b \in Accounts : b # a =>
                 FoundRow(row, a, status).write[b] = row.write[b]
  BY DEF CheckRow, Verdicts, FoundRow

LEMMA FindHealthKeeps ==
    ASSUME HealthInv, NEW c \in Checks, NEW a \in Accounts, FindHealth(c, a)
    PROVE  HealthInv'
  <1>1. PICK status \in {"active", "error"} :
           check' = [check EXCEPT ![c] = FoundRow(check[c], a, status)]
    BY DEF FindHealth, FoundRow, HealthInv, PoolHealthTypeOK
  <1>2. check[c] \in CheckRow /\ check[c].read[a] # Absent
    BY DEF FindHealth, Loads, HealthInv, PoolHealthTypeOK, CheckRow
  <1>3. \A b \in Accounts :
           check[c].read[b] = Absent => check[c].write[b] = Absent
    BY DEF HealthInv, HealthSound, Loads
  <1>4. UNCHANGED <<poolOn, account, intended, raced>>
    BY DEF FindHealth
  <1> DEFINE row == FoundRow(check[c], a, status)
  <1>5. /\ row \in CheckRow /\ row.read = check[c].read
        /\ \A b \in Accounts : b # a => row.write[b] = check[c].write[b]
    BY <1>2, FoundRows
  <1> HIDE DEF row
  <1>6. \A b \in Accounts :
           /\ row.read[b] = Absent => row.write[b] = Absent
           /\ row.read[b] # Absent => Loads(c, b)
    BY <1>2, <1>3, <1>5 DEF Loads
  <1>7. QED
    BY <1>1, <1>4, <1>5, <1>6, CheckKeeps DEF row

(* A check commits: it changes only what it has loaded. *)
LEMMA CommitCheckKeeps ==
    ASSUME HealthInv, NEW c \in Checks, CommitCheck(c)
    PROVE  HealthInv'
  <1>1. /\ account' = [a \in Accounts |->
                          IF check[c].write[a] # check[c].read[a]
                          THEN check[c].write[a] ELSE account[a]]
        /\ check' = [check EXCEPT ![c] = NoCheck]
        /\ UNCHANGED <<poolOn, intended, raced>>
    BY DEF CommitCheck
  <1>2. /\ check'[c] = NoCheck
        /\ \A d \in Checks : d # c => check'[d] = check[d]
        /\ check' \in [Checks -> CheckRow]
    BY <1>1, NoCheckType DEF HealthInv, PoolHealthTypeOK, CheckRow
  <1>3. \A a \in Accounts :
           /\ check[c].write[a] \in {"active", "error", Absent}
           /\ account[a] \in Statuses \cup {Absent}
           /\ ~Loads(c, a) => check[c].write[a] = check[c].read[a]
    BY DEF HealthInv, HealthSound, PoolHealthTypeOK, Verdicts, Loads
  <1>4. account' \in [Accounts -> Statuses \cup {Absent}]
    BY <1>1, <1>3 DEF Statuses
  <1>5. PoolHealthTypeOK'
    BY <1>1, <1>2, <1>4 DEF HealthInv, PoolHealthTypeOK, CheckRow
  <1>6. \A a \in Accounts : ~Loads(c, a) => account'[a] = account[a]
    BY <1>1, <1>3
  <1>7. intended \subseteq Accounts
    BY DEF HealthInv, PoolHealthTypeOK
  <1>8. \A d \in Checks, a \in Accounts : Loads(d, a)' => Loads(d, a)
    BY <1>2, NoCheckType DEF Loads
  <1>9. \A d \in Checks, a \in Accounts :
           ~Loads(d, a)' => check'[d].write[a] = Absent
    BY <1>2, NoCheckType DEF HealthInv, HealthSound, Loads
  <1>10. HealthSound'
    BY <1>1, <1>6, <1>7, <1>8, <1>9 DEF HealthInv, HealthSound
  <1>11. QED
    BY <1>5, <1>10 DEF HealthInv

LEMMA AbortCheckKeeps ==
    ASSUME HealthInv, NEW c \in Checks, AbortCheck(c)
    PROVE  HealthInv'
  BY NoCheckType, CheckKeeps DEF AbortCheck

LEMMA SetStatusKeeps ==
    ASSUME HealthInv, NEW a \in Accounts, NEW status \in Statuses,
           SetAccountStatus(a, status)
    PROVE  HealthInv'
  <1>1. /\ account' = [account EXCEPT ![a] = status]
        /\ UNCHANGED <<poolOn, check>>
        /\ \/ /\ status = "disabled" /\ intended' = intended \cup {a}
              /\ raced' = IF \E c \in Checks : Loads(c, a) THEN raced \cup {a}
                                                           ELSE raced \ {a}
           \/ /\ status # "disabled" /\ intended' = intended \ {a}
              /\ UNCHANGED raced
    BY DEF SetAccountStatus
  <1>2. /\ account' \in [Accounts -> Statuses \cup {Absent}]
        /\ account'[a] = status
        /\ \A b \in Accounts : b # a => account'[b] = account[b]
        /\ intended \subseteq Accounts
    BY <1>1 DEF HealthInv, PoolHealthTypeOK
  <1>3. PoolHealthTypeOK'
    BY <1>1, <1>2 DEF HealthInv, PoolHealthTypeOK
  <1>4. \A c \in Checks, b \in Accounts : Loads(c, b)' = Loads(c, b)
    BY <1>1 DEF Loads
  <1>5. HealthSound'
    BY <1>1, <1>2, <1>4 DEF HealthInv, HealthSound
  <1>6. QED
    BY <1>3, <1>5 DEF HealthInv

LEMMA AddAccountKeeps ==
    ASSUME HealthInv, NEW a \in Accounts, AddAccount(a)
    PROVE  HealthInv'
  <1>1. /\ account[a] = Absent /\ account' = [account EXCEPT ![a] = "active"]
        /\ UNCHANGED <<poolOn, check, intended, raced>>
    BY DEF AddAccount
  <1>2. /\ account' \in [Accounts -> Statuses \cup {Absent}]
        /\ \A b \in Accounts : b # a => account'[b] = account[b]
        /\ intended \subseteq Accounts /\ Absent # "disabled"
    BY <1>1 DEF HealthInv, PoolHealthTypeOK, Statuses, Absent
  <1>3. PoolHealthTypeOK'
    BY <1>1, <1>2 DEF HealthInv, PoolHealthTypeOK
  <1>4. HealthSound'
    BY <1>1, <1>2 DEF HealthInv, HealthSound, Loads
  <1>5. QED
    BY <1>3, <1>4 DEF HealthInv

LEMMA HealthStep ==
    ASSUME HealthInv, [NextPoolHealth]_poolVars
    PROVE  HealthInv'
  <1>1. ASSUME NEW p \in Pools, SwitchPool(p)
        PROVE  HealthInv'
    <2>1. /\ poolOn' \subseteq Pools
          /\ UNCHANGED <<account, check, intended, raced>>
      BY <1>1 DEF SwitchPool, HealthInv, PoolHealthTypeOK
    <2>2. QED
      BY <2>1 DEF HealthInv, PoolHealthTypeOK, HealthSound, Loads
  <1>2. ASSUME UNCHANGED poolVars
        PROVE  HealthInv'
    BY <1>2 DEF poolVars, HealthInv, PoolHealthTypeOK, HealthSound, Loads
  <1>3. QED
    BY <1>1, <1>2, AddAccountKeeps, SetStatusKeeps, StartCheckKeeps,
       FindHealthKeeps, CommitCheckKeeps, AbortCheckKeeps DEF NextPoolHealth

(* For any number of accounts and overlapping checks: an account that an    *)
(* administrator has disabled leaves that status on its own only if a check *)
(* had loaded it at that moment.  The invariant adds that otherwise no      *)
(* check has it loaded since, for a check loads nothing that is disabled.   *)
THEOREM DisabledAccountsStay ==
    PoolHealthSpec => [](PoolHealthTypeOK /\ DisabledComesBack)
  <1>1. HealthInv => PoolHealthTypeOK /\ DisabledComesBack
    BY DEF HealthInv, HealthSound, DisabledComesBack
  <1>2. QED
    BY <1>1, HealthInitially, HealthStep, PTL DEF PoolHealthSpec

-----------------------------------------------------------------------------
(* Settings. *)

Offered(m) == \E p \in Pools : poolModel[p][m] # "none"

(* What a request has found, and what holds until another one commits.      *)
FoundTrue(s) ==
    CASE s.op = "tier"   -> \/ Blank(s.text)
                            \/ catalog[s.text.slug] # "none" /\ Offered(s.text.slug)
      [] s.op = "remove" -> Referenced(s.model) =>
                               \E r \in Pools \ {s.pool} : poolModel[r][s.model] # "none"
      [] s.op = "clear"  -> ~Referenced(s.model)

SettingsSound ==
    /\ ~excused => \A t \in TierKeys : ~tierValue[t].padded
    /\ \A q \in SettingRequests :
          settingReq[q] # NoSetting /\ ~settingReq[q].stale => FoundTrue(settingReq[q])

SettingsInv == RoutingSettingsTypeOK /\ SettingsSound

LEMMA SettingsInitially ==
    SettingsAssumption /\ RoutingSettingsInit => SettingsInv
  <1> SUFFICES ASSUME SettingsAssumption, RoutingSettingsInit PROVE SettingsInv
    OBVIOUS
  <1>1. /\ tierValue \in [TierKeys -> Text]
        /\ \A t \in TierKeys : ~tierValue[t].padded
    <2>1. tierValue \in [TierKeys -> [slug : Slugs, padded : {FALSE}]]
      BY DEF RoutingSettingsInit
    <2>2. \A t \in TierKeys : tierValue[t] \in Text /\ ~tierValue[t].padded
      BY <2>1 DEF Text
    <2>3. QED
      BY <2>1, <2>2
  <1>2. settingReq = [q \in SettingRequests |-> NoSetting]
    BY DEF RoutingSettingsInit
  <1>3. RoutingSettingsTypeOK
    <2>1. [m \in Slugs |-> "none"] \in [Slugs -> {"none", "on", "off"}]
      OBVIOUS
    <2>2. poolModel \in [Pools -> [Slugs -> {"none", "on", "off"}]]
      BY <2>1 DEF RoutingSettingsInit
    <2>3. catalog \in [Slugs -> {"none", "active", "archived"}]
      BY DEF RoutingSettingsInit
    <2>4. asked \in 0..SettingBudget /\ excused \in BOOLEAN
      <3>1. asked = 0 /\ excused = FALSE
        BY DEF RoutingSettingsInit
      <3>2. asked \in 0..SettingBudget
        BY <3>1 DEF SettingsAssumption
      <3>3. excused \in BOOLEAN
        BY <3>1
      <3>4. QED
        BY <3>2, <3>3
    <2>5. settingReq \in [SettingRequests -> SettingRequest \cup {NoSetting}]
      BY <1>2
    <2>6. QED
      BY <1>1, <2>2, <2>3, <2>4, <2>5 DEF RoutingSettingsTypeOK
  <1>4. QED
    BY <1>1, <1>2, <1>3 DEF SettingsInv, SettingsSound

LEMMA SettingCarries ==
    ASSUME RoutingSettingsTypeOK, NEW q \in SettingRequests,
           settingReq[q] # NoSetting
    PROVE  /\ settingReq[q] \in SettingRequest
           /\ settingReq[q].op \in {"tier", "remove", "clear"}
           /\ settingReq[q].stale \in BOOLEAN
           /\ settingReq[q].op = "tier" => /\ settingReq[q].tier \in TierKeys
                                           /\ settingReq[q].text \in Text
           /\ settingReq[q].op = "remove" => /\ settingReq[q].pool \in Pools
                                             /\ settingReq[q].model \in Slugs
           /\ settingReq[q].op = "clear" => settingReq[q].model \in Slugs
  <1>1. settingReq[q] \in SettingRequest
    BY DEF RoutingSettingsTypeOK
  <1>2. QED
    BY <1>1 DEF SettingRequest

(* A request begins. *)
LEMMA AskSettingKeeps ==
    ASSUME SettingsAssumption, SettingsInv, NEW q \in SettingRequests,
           NEW s \in SettingRequest, AskSetting(q, s), FoundTrue(s)
    PROVE  SettingsInv'
  <1>1. /\ asked < SettingBudget /\ asked' = asked + 1
        /\ settingReq' = [settingReq EXCEPT ![q] = s]
        /\ UNCHANGED <<tierValue, poolModel, catalog, excused>>
    BY DEF AskSetting
  <1>2. /\ settingReq'[q] = s
        /\ \A r \in SettingRequests : r # q => settingReq'[r] = settingReq[r]
        /\ settingReq' \in [SettingRequests -> SettingRequest \cup {NoSetting}]
    BY <1>1 DEF SettingsInv, RoutingSettingsTypeOK
  <1>3. \A r : FoundTrue(r)' = FoundTrue(r)
    BY <1>1 DEF FoundTrue, Referenced, Offered
  <1>4. RoutingSettingsTypeOK'
    BY <1>1, <1>2 DEF SettingsInv, RoutingSettingsTypeOK, SettingsAssumption
  <1>5. SettingsSound'
    BY <1>1, <1>2, <1>3 DEF SettingsInv, SettingsSound
  <1>6. QED
    BY <1>4, <1>5 DEF SettingsInv

LEMMA BeginSettingsKeep ==
    ASSUME SettingsAssumption, SettingsInv, NEW q \in SettingRequests,
           \/ \E t \in TierKeys, text \in Text : BeginSetTier(q, t, text)
           \/ \E p \in Pools, m \in Slugs : BeginRemoveModel(q, p, m)
           \/ \E m \in Slugs : BeginClearSlug(q, m)
    PROVE  SettingsInv'
  <1>1. ASSUME NEW t \in TierKeys, NEW text \in Text, BeginSetTier(q, t, text)
        PROVE  SettingsInv'
    <2> DEFINE s == [op |-> "tier", tier |-> t, text |-> text, stale |-> FALSE]
    <2>1. /\ AskSetting(q, s)
          /\ \/ Blank(text)
             \/ Available(text.slug) /\ catalog[text.slug] = "active"
      BY <1>1 DEF BeginSetTier
    <2>2. Available(text.slug) => Offered(text.slug)
      BY DEF Available, Provides, Offered
    <2>3. s \in SettingRequest
      BY DEF SettingRequest
    <2>4. FoundTrue(s)
      BY <2>1, <2>2 DEF FoundTrue
    <2>5. QED
      BY <2>1, <2>3, <2>4, AskSettingKeeps
  <1>2. ASSUME NEW p \in Pools, NEW m \in Slugs, BeginRemoveModel(q, p, m)
        PROVE  SettingsInv'
    <2> DEFINE s == [op |-> "remove", pool |-> p, model |-> m, stale |-> FALSE]
    <2>1. AskSetting(q, s) /\ Removable(p, m)
      BY <1>2 DEF BeginRemoveModel
    <2>2. s \in SettingRequest
      BY DEF SettingRequest
    <2>3. FoundTrue(s)
      BY <2>1 DEF FoundTrue, Removable, Provides
    <2>4. QED
      BY <2>1, <2>2, <2>3, AskSettingKeeps
  <1>3. ASSUME NEW m \in Slugs, BeginClearSlug(q, m)
        PROVE  SettingsInv'
    <2> DEFINE s == [op |-> "clear", model |-> m, stale |-> FALSE]
    <2>1. AskSetting(q, s) /\ ~Referenced(m)
      BY <1>3 DEF BeginClearSlug
    <2>2. s \in SettingRequest
      BY DEF SettingRequest
    <2>3. FoundTrue(s)
      BY <2>1 DEF FoundTrue
    <2>4. QED
      BY <2>1, <2>2, <2>3, AskSettingKeeps
  <1>4. QED
    BY <1>1, <1>2, <1>3

(* After a commit every other request is stale. *)
StaleRow(s) == [s EXCEPT !.stale = TRUE]

LEMMA StaleRows ==
    ASSUME NEW s \in SettingRequest
    PROVE  StaleRow(s) \in SettingRequest /\ StaleRow(s).stale
  BY DEF SettingRequest, StaleRow

LEMMA DoneKeeps ==
    ASSUME SettingsInv, NEW q \in SettingRequests, Done(q)
    PROVE  /\ settingReq' \in [SettingRequests -> SettingRequest \cup {NoSetting}]
           /\ \A r \in SettingRequests :
                 settingReq'[r] # NoSetting => settingReq'[r].stale
  <1>1. \A r \in SettingRequests :
           \/ settingReq'[r] = NoSetting
           \/ settingReq[r] # NoSetting /\ settingReq'[r] = StaleRow(settingReq[r])
    BY DEF Done, StaleRow
  <1>2. \A r \in SettingRequests :
           settingReq[r] # NoSetting => settingReq[r] \in SettingRequest
    BY DEF SettingsInv, RoutingSettingsTypeOK
  <1>3. settingReq' = [r \in SettingRequests |-> settingReq'[r]]
    BY DEF Done
  <1>4. \A r \in SettingRequests :
           /\ settingReq'[r] \in SettingRequest \cup {NoSetting}
           /\ settingReq'[r] # NoSetting => settingReq'[r].stale
    BY <1>1, <1>2, StaleRows
  <1>5. QED
    BY <1>3, <1>4

LEMMA CommitSettingsKeep ==
    ASSUME SettingsAssumption, SettingsInv, NEW q \in SettingRequests,
           CommitTier(q) \/ CommitRemoveModel(q) \/ CommitClearSlug(q)
    PROVE  SettingsInv' /\ KeepsServed
  <1> DEFINE s == settingReq[q]
  <1>1. /\ Done(q) /\ UNCHANGED asked /\ s # NoSetting
        /\ excused' \in BOOLEAN
        /\ ~excused' => ~excused /\ ~s.stale
    <2>1. /\ Done(q) /\ UNCHANGED asked
          /\ s.op \in {"tier", "remove", "clear"}
      BY DEF CommitTier, CommitRemoveModel, CommitClearSlug, Committing
    <2>2. s # NoSetting
      BY <2>1 DEF NoSetting
    <2>3. s.stale \in BOOLEAN
      BY <2>2, SettingCarries DEF SettingsInv
    <2>4. ~excused' => ~excused /\ ~s.stale
      BY DEF CommitTier, CommitRemoveModel, CommitClearSlug
    <2>5. s.op = "tier" => s.text.padded \in BOOLEAN
      BY <2>2, SettingCarries DEF SettingsInv, Text
    <2>6. excused' \in BOOLEAN
      BY <2>3, <2>5 DEF CommitTier, CommitRemoveModel, CommitClearSlug, Committing,
                        SettingsInv, RoutingSettingsTypeOK
    <2>7. QED
      BY <2>1, <2>2, <2>4, <2>6
  <1>2. ~excused' => FoundTrue(s) /\ \A t \in TierKeys : ~tierValue[t].padded
    BY <1>1 DEF SettingsInv, SettingsSound
  <1>3. /\ settingReq' \in [SettingRequests -> SettingRequest \cup {NoSetting}]
        /\ \A r \in SettingRequests :
              settingReq'[r] # NoSetting => settingReq'[r].stale
    BY <1>1, DoneKeeps
  <1>4. CASE CommitTier(q)
    <2>1. /\ s.op = "tier" /\ tierValue' = [tierValue EXCEPT ![s.tier] = s.text]
          /\ ~excused' => ~s.text.padded
          /\ UNCHANGED <<poolModel, catalog>>
      BY <1>4 DEF CommitTier, Committing
    <2>2. s.tier \in TierKeys /\ s.text \in Text
      BY <1>1, <2>1, SettingCarries DEF SettingsInv
    <2>3. /\ tierValue'[s.tier] = s.text /\ tierValue' \in [TierKeys -> Text]
          /\ \A t \in TierKeys : t # s.tier => tierValue'[t] = tierValue[t]
      BY <2>1, <2>2 DEF SettingsInv, RoutingSettingsTypeOK
    <2>4. SettingsInv'
      BY <1>1, <1>2, <1>3, <2>1, <2>3
      DEF SettingsInv, RoutingSettingsTypeOK, SettingsSound
    <2>5. ~excused' => Blank(s.text) \/ (catalog[s.text.slug] # "none" /\ Offered(s.text.slug))
      BY <1>2, <2>1 DEF FoundTrue
    <2>6. KeepsServed
      BY <2>1, <2>3, <2>5 DEF KeepsServed, Served, Offered, Blank
    <2>7. QED
      BY <2>4, <2>6
  <1>5. CASE CommitRemoveModel(q)
    <2> DEFINE p == s.pool
               m == s.model
    <2>1. /\ s.op = "remove" /\ UNCHANGED <<tierValue, catalog>>
          /\ poolModel' = [poolModel EXCEPT ![p][m] = "none"]
      BY <1>5 DEF CommitRemoveModel, Committing
    <2>2. p \in Pools /\ m \in Slugs
      BY <1>1, <2>1, SettingCarries DEF SettingsInv
    <2>3. poolModel' \in [Pools -> [Slugs -> {"none", "on", "off"}]]
      BY <2>1, <2>2 DEF SettingsInv, RoutingSettingsTypeOK
    <2>4. \A r \in Pools : r # p => poolModel'[r] = poolModel[r]
      BY <2>1, <2>2 DEF SettingsInv, RoutingSettingsTypeOK
    <2>5. \A r \in Pools : \A n : n # m => poolModel'[r][n] = poolModel[r][n]
      BY <2>1, <2>2 DEF SettingsInv, RoutingSettingsTypeOK
    <2>6. SettingsInv'
      BY <1>1, <1>2, <1>3, <2>1, <2>3
      DEF SettingsInv, RoutingSettingsTypeOK, SettingsSound
    <2>7. ~excused' /\ Referenced(m) => \E r \in Pools \ {p} : poolModel[r][m] # "none"
      BY <1>2, <2>1 DEF FoundTrue
    <2>8. ASSUME NEW t \in TierKeys, Served(t), ~excused'
          PROVE  Served(t)'
      <3> DEFINE n == tierValue[t].slug
      <3>1. CASE Blank(tierValue[t])
        BY <2>1, <3>1 DEF Served, Blank
      <3>2. CASE n = m /\ ~Blank(tierValue[t])
        <4>1. tierValue[t] = [slug |-> m, padded |-> FALSE]
          <5>1. tierValue[t] \in Text /\ ~tierValue[t].padded
            BY <1>2, <2>8 DEF SettingsInv, RoutingSettingsTypeOK
          <5>2. QED
            BY <3>2, <5>1 DEF Text
        <4>2. Referenced(m)
          BY <4>1 DEF Referenced
        <4>3. PICK r \in Pools \ {p} : poolModel[r][m] # "none"
          BY <2>7, <2>8, <4>2
        <4>4. poolModel'[r][m] # "none"
          BY <2>4, <4>3
        <4>5. QED
          BY <2>1, <2>8, <3>2, <4>3, <4>4 DEF Served
      <3>3. CASE n # m
        BY <2>1, <2>5, <2>8, <3>3 DEF Served, Blank
      <3>4. QED
        BY <3>1, <3>2, <3>3
    <2>9. KeepsServed
      BY <2>1, <2>8 DEF KeepsServed
    <2>10. QED
      BY <2>6, <2>9
  <1>6. CASE CommitClearSlug(q)
    <2> DEFINE m == s.model
    <2>1. /\ s.op = "clear" /\ UNCHANGED <<tierValue, poolModel>>
          /\ catalog' = [catalog EXCEPT ![m] = "none"]
      BY <1>6 DEF CommitClearSlug, Committing
    <2>2. /\ catalog' \in [Slugs -> {"none", "active", "archived"}]
          /\ \A n : n # m => catalog'[n] = catalog[n]
      BY <1>1, <2>1, SettingCarries DEF SettingsInv, RoutingSettingsTypeOK
    <2>3. SettingsInv'
      BY <1>1, <1>2, <1>3, <2>1, <2>2
      DEF SettingsInv, RoutingSettingsTypeOK, SettingsSound
    <2>4. ~excused' => ~Referenced(m)
      BY <1>2, <2>1 DEF FoundTrue
    <2>5. ASSUME NEW t \in TierKeys, ~excused'
          PROVE  tierValue[t].slug # m
      <3>1. tierValue[t] \in Text /\ ~tierValue[t].padded
        BY <1>2, <2>5 DEF SettingsInv, RoutingSettingsTypeOK
      <3>2. tierValue[t] = [slug |-> tierValue[t].slug, padded |-> FALSE]
        BY <3>1 DEF Text
      <3>3. QED
        BY <2>4, <2>5, <3>2 DEF Referenced
    <2>6. KeepsServed
      BY <2>1, <2>2, <2>5 DEF KeepsServed, Served, Blank
    <2>7. QED
      BY <2>3, <2>6
  <1>7. QED
    BY <1>4, <1>5, <1>6

LEMMA SettingFailKeeps ==
    ASSUME SettingsInv, NEW q \in SettingRequests, SettingFails(q)
    PROVE  SettingsInv'
  <1>1. /\ settingReq' = [settingReq EXCEPT ![q] = NoSetting]
        /\ UNCHANGED <<tierValue, poolModel, catalog, asked, excused>>
    BY DEF SettingFails
  <1>2. /\ settingReq'[q] = NoSetting
        /\ \A r \in SettingRequests : r # q => settingReq'[r] = settingReq[r]
        /\ settingReq' \in [SettingRequests -> SettingRequest \cup {NoSetting}]
    BY <1>1 DEF SettingsInv, RoutingSettingsTypeOK
  <1>3. \A s : FoundTrue(s)' = FoundTrue(s)
    BY <1>1 DEF FoundTrue, Referenced, Offered
  <1>4. QED
    BY <1>1, <1>2, <1>3 DEF SettingsInv, RoutingSettingsTypeOK, SettingsSound

(* An operation on one row that takes nothing away.                         *)
LEMMA AddingKeeps ==
    ASSUME SettingsInv, UNCHANGED <<tierValue, settingReq, asked, excused>>,
           poolModel' \in [Pools -> [Slugs -> {"none", "on", "off"}]],
           catalog' \in [Slugs -> {"none", "active", "archived"}],
           \A m : catalog[m] # "none" => catalog'[m] # "none",
           \A p \in Pools : \A m : poolModel[p][m] # "none" => poolModel'[p][m] # "none"
    PROVE  SettingsInv' /\ KeepsServed
  <1>1. \A s \in SettingRequest : FoundTrue(s) => FoundTrue(s)'
    <2> SUFFICES ASSUME NEW s \in SettingRequest, FoundTrue(s)
                 PROVE  FoundTrue(s)'
      OBVIOUS
    <2>1. \A m : Offered(m) => Offered(m)'
      BY DEF Offered
    <2>2. \A m : Referenced(m)' = Referenced(m)
      BY DEF Referenced
    <2>3. s.op \in {"tier", "remove", "clear"}
      BY DEF SettingRequest
    <2>4. CASE s.op = "tier"
      BY <2>1, <2>4 DEF FoundTrue
    <2>5. CASE s.op = "remove"
      BY <2>2, <2>5 DEF FoundTrue
    <2>6. CASE s.op = "clear"
      BY <2>2, <2>6 DEF FoundTrue
    <2>7. QED
      BY <2>3, <2>4, <2>5, <2>6
  <1>2. \A q \in SettingRequests :
           settingReq[q] # NoSetting => settingReq[q] \in SettingRequest
    BY DEF SettingsInv, RoutingSettingsTypeOK
  <1>3. SettingsInv'
    BY <1>1, <1>2 DEF SettingsInv, RoutingSettingsTypeOK, SettingsSound
  <1>4. KeepsServed
    BY DEF KeepsServed, Served, Blank
  <1>5. QED
    BY <1>3, <1>4

LEMMA RowsKeep ==
    ASSUME SettingsInv, NEW m \in Slugs,
           \/ \E p \in Pools : AddModel(p, m) \/ SwitchModel(p, m)
           \/ CreateModel(m) \/ SwitchCatalog(m)
    PROVE  SettingsInv' /\ KeepsServed
  <1>1. ASSUME NEW p \in Pools, AddModel(p, m) \/ SwitchModel(p, m)
        PROVE  SettingsInv' /\ KeepsServed
    <2>1. PICK to \in {"on", "off"} : poolModel' = [poolModel EXCEPT ![p][m] = to]
      BY <1>1 DEF AddModel, SwitchModel
    <2>2. UNCHANGED <<tierValue, catalog, settingReq, asked, excused>>
      BY <1>1 DEF AddModel, SwitchModel
    <2>3. poolModel' \in [Pools -> [Slugs -> {"none", "on", "off"}]]
      BY <2>1 DEF SettingsInv, RoutingSettingsTypeOK
    <2>4. \A r \in Pools : \A n :
             poolModel[r][n] # "none" => poolModel'[r][n] # "none"
      BY <2>1 DEF SettingsInv, RoutingSettingsTypeOK
    <2>5. catalog' \in [Slugs -> {"none", "active", "archived"}]
      BY <2>2 DEF SettingsInv, RoutingSettingsTypeOK
    <2>6. QED
      BY <2>2, <2>3, <2>4, <2>5, AddingKeeps
  <1>2. ASSUME CreateModel(m) \/ SwitchCatalog(m)
        PROVE  SettingsInv' /\ KeepsServed
    <2>1. PICK to \in {"active", "archived"} : catalog' = [catalog EXCEPT ![m] = to]
      BY <1>2 DEF CreateModel, SwitchCatalog
    <2>2. UNCHANGED <<tierValue, poolModel, settingReq, asked, excused>>
      BY <1>2 DEF CreateModel, SwitchCatalog
    <2>3. /\ catalog' \in [Slugs -> {"none", "active", "archived"}]
          /\ \A n : catalog[n] # "none" => catalog'[n] # "none"
      BY <2>1 DEF SettingsInv, RoutingSettingsTypeOK
    <2>4. poolModel' \in [Pools -> [Slugs -> {"none", "on", "off"}]]
      BY <2>2 DEF SettingsInv, RoutingSettingsTypeOK
    <2>5. QED
      BY <2>2, <2>3, <2>4, AddingKeeps
  <1>3. QED
    BY <1>1, <1>2

(* A slug is renamed: what was found of the catalog is stale, and the rest  *)
(* is not about the catalog.                                                *)
RenamedRow(s, n) == [s EXCEPT !.model = n, !.stale = TRUE]

LEMMA RenamedRows ==
    ASSUME NEW s \in SettingRequest, NEW n \in Slugs, s.op = "clear"
    PROVE  RenamedRow(s, n) \in SettingRequest /\ RenamedRow(s, n).stale
  BY DEF SettingRequest, RenamedRow

LEMMA RenameKeeps ==
    ASSUME SettingsInv, NEW m \in Slugs, NEW n \in Slugs, RenameSlug(m, n)
    PROVE  SettingsInv' /\ KeepsServed
  <1>1. /\ catalog[m] # "none" /\ catalog[n] = "none"
        /\ UNCHANGED <<tierValue, poolModel, asked>>
        /\ excused' \in BOOLEAN
        /\ ~excused' => ~excused /\ ~Referenced(m)
    BY DEF RenameSlug, SettingsInv, RoutingSettingsTypeOK, Referenced
  <1>2. /\ catalog' \in [Slugs -> {"none", "active", "archived"}]
        /\ \A k \in Slugs : k # m /\ k # n => catalog'[k] = catalog[k]
        /\ catalog'[n] = catalog[m]
    <2>1. catalog' = [catalog EXCEPT ![n] = catalog[m], ![m] = "none"]
      BY DEF RenameSlug
    <2>2. catalog \in [Slugs -> {"none", "active", "archived"}] /\ m # n
      BY <1>1 DEF SettingsInv, RoutingSettingsTypeOK
    <2>3. \A k \in Slugs : catalog'[k] = IF k = m THEN "none"
                                         ELSE IF k = n THEN catalog[m] ELSE catalog[k]
      BY <2>1, <2>2
    <2>4. catalog' \in [Slugs -> {"none", "active", "archived"}]
      BY <2>1, <2>2
    <2>5. QED
      BY <2>2, <2>3, <2>4
  <1>3. settingReq' = [q \in SettingRequests |-> settingReq'[q]]
    BY DEF RenameSlug
  <1>4. ASSUME NEW q \in SettingRequests
        PROVE  /\ settingReq'[q] \in SettingRequest \cup {NoSetting}
               /\ settingReq'[q] # NoSetting /\ ~settingReq'[q].stale =>
                     FoundTrue(settingReq[q])'
    <2> DEFINE s == settingReq[q]
    <2>1. \/ /\ s.op = "clear" /\ s.model = m
             /\ settingReq'[q] = RenamedRow(s, n)
          \/ s.op = "tier" /\ settingReq'[q] = StaleRow(s)
          \/ s.op # "tier" /\ settingReq'[q] = s
      BY DEF RenameSlug, RenamedRow, StaleRow
    <2>2. s \in SettingRequest \cup {NoSetting}
      BY DEF SettingsInv, RoutingSettingsTypeOK
    <2>3. CASE s.op = "clear" /\ settingReq'[q] = RenamedRow(s, n)
      <3>1. s \in SettingRequest
        BY <2>2, <2>3 DEF NoSetting
      <3>2. QED
        BY <2>3, <3>1, RenamedRows
    <2>4. CASE s.op = "tier" /\ settingReq'[q] = StaleRow(s)
      <3>1. s \in SettingRequest
        BY <2>2, <2>4 DEF NoSetting
      <3>2. QED
        BY <2>4, <3>1, StaleRows
    <2>5. CASE s.op # "tier" /\ settingReq'[q] = s
      <3>1. ASSUME s # NoSetting, ~s.stale
            PROVE  FoundTrue(settingReq[q])'
        <4>1. FoundTrue(s) /\ s.op \in {"remove", "clear"}
          BY <2>2, <2>5, <3>1, SettingCarries DEF SettingsInv, SettingsSound
        <4>2. \A k : Referenced(k)' = Referenced(k)
          BY <1>1 DEF Referenced
        <4>3. UNCHANGED poolModel
          BY <1>1
        <4>4. QED
          BY <2>5, <4>1, <4>2, <4>3 DEF FoundTrue
      <3>2. QED
        BY <2>2, <2>5, <3>1
    <2>6. QED
      BY <2>1, <2>3, <2>4, <2>5
  <1>5. settingReq' \in [SettingRequests -> SettingRequest \cup {NoSetting}]
    BY <1>3, <1>4
  <1>6. SettingsInv'
    BY <1>1, <1>2, <1>4, <1>5 DEF SettingsInv, RoutingSettingsTypeOK, SettingsSound
  <1>7. ASSUME NEW t \in TierKeys, ~excused'
        PROVE  tierValue[t].slug # m
    <2>1. tierValue[t] \in Text /\ ~tierValue[t].padded
      BY <1>1, <1>7 DEF SettingsInv, RoutingSettingsTypeOK, SettingsSound
    <2>2. tierValue[t] = [slug |-> tierValue[t].slug, padded |-> FALSE]
      BY <2>1 DEF Text
    <2>3. QED
      BY <1>1, <1>7, <2>2 DEF Referenced
  <1>8. \A t \in TierKeys : Blank(tierValue[t]) \/ tierValue[t].slug \in Slugs
    BY DEF SettingsInv, RoutingSettingsTypeOK, Text, Blank
  <1>10. KeepsServed
    BY <1>1, <1>2, <1>7, <1>8 DEF KeepsServed, Served, Blank
  <1>9. QED
    BY <1>6, <1>10

LEMMA SettingsStep ==
    ASSUME SettingsAssumption, SettingsInv,
           [NextPoolsAndSettings]_<<poolVars, settingVars>>
    PROVE  SettingsInv' /\ [KeepsServed]_settingVars
  <1>1. ASSUME UNCHANGED settingVars
        PROVE  SettingsInv'
    BY <1>1 DEF settingVars, SettingsInv, RoutingSettingsTypeOK, SettingsSound,
                FoundTrue, Referenced, Offered
  <1>2. ASSUME UNCHANGED <<tierValue, poolModel, catalog>>
        PROVE  KeepsServed
    BY <1>2 DEF KeepsServed, Served, Blank
  <1>3. ASSUME NextRoutingSettings
        PROVE  SettingsInv' /\ KeepsServed
    <2>1. ASSUME NEW q \in SettingRequests,
                 \/ \E t \in TierKeys, text \in Text : BeginSetTier(q, t, text)
                 \/ \E p \in Pools, m \in Slugs : BeginRemoveModel(q, p, m)
                 \/ \E m \in Slugs : BeginClearSlug(q, m)
          PROVE  SettingsInv' /\ KeepsServed
      <3>1. UNCHANGED <<tierValue, poolModel, catalog>>
        BY <2>1 DEF BeginSetTier, BeginRemoveModel, BeginClearSlug, AskSetting
      <3>2. QED
        BY <1>2, <2>1, <3>1, BeginSettingsKeep
    <2>2. ASSUME NEW q \in SettingRequests, SettingFails(q)
          PROVE  SettingsInv' /\ KeepsServed
      BY <1>2, <2>2, SettingFailKeeps DEF SettingFails
    <2>3. QED
      BY <1>3, <2>1, <2>2, CommitSettingsKeep, RowsKeep, RenameKeeps
      DEF NextRoutingSettings
  <1>4. QED
    BY <1>1, <1>3 DEF NextPoolsAndSettings

(* For any number of tiers, models, pools and requests: a tier that has a   *)
(* pool row and a price keeps them unless something that no check guards    *)
(* against happened.  The invariant is what each of the three checks found, *)
(* which stays true until another of these requests commits.                *)
THEOREM TiersStayServed ==
    RoutingSettingsSpec => []RoutingSettingsTypeOK /\ TierStaysServed
  <1>1. SettingsInv => RoutingSettingsTypeOK
    BY DEF SettingsInv
  <1>2. QED
    BY <1>1, SettingsInitially, SettingsStep, SettingsAssumption, PTL
    DEF RoutingSettingsSpec, TierStaysServed

-----------------------------------------------------------------------------
(* Calls to user-service. *)

(* The row of a call: whether it was reported as done, and whether it was   *)
(* heard to be.                                                             *)
RowReported(row) ==
    row.stage = "auditing" \/ row.told \in {"audited", "unaudited"}
RowHeard(row) == row.stage = "waiting" /\ row.reply = "done"

(* Copies that user-service may still carry out and nobody waits for.       *)
Lingering(row) ==
    row.copies \ (IF row.stage = "waiting" /\ row.reply = "none"
                  THEN {row.attempt} ELSE {})

(* Every effect and every copy that may yet have one is that of an attempt  *)
(* given up, but for the one that was heard of.                             *)
EffectsCovered(row) ==
    /\ row.effects + Cardinality(Lingering(row))
          <= row.givenUp + (IF RowReported(row) \/ RowHeard(row) THEN 1 ELSE 0)
    /\ RowReported(row) \/ RowHeard(row) => row.effects >= 1

(* An attempt is sent once, and answered while it is awaited only by what   *)
(* became of it.                                                            *)
AttemptsOnce(row) ==
    /\ \A i \in row.copies : i <= row.attempt
    /\ row.stage = "sending" => row.attempt \notin row.copies
    /\ row.stage = "waiting" => (row.attempt \in row.copies <=> row.reply = "none")
    /\ row.stage # "idle" => row.told = "no"

CallsSound ==
    \A c \in Calls : EffectsCovered(call[c]) /\ AttemptsOnce(call[c])

CallsInv == AdminCallsTypeOK /\ CallsSound

LEMMA CopiesFinite ==
    ASSUME CallsAssumption, NEW row \in CallRow
    PROVE  /\ row.copies \subseteq Attempts /\ IsFiniteSet(row.copies)
           /\ IsFiniteSet(Lingering(row)) /\ Cardinality(Lingering(row)) \in Nat
           /\ Lingering(row) \subseteq row.copies
           /\ row.attempt \in Nat /\ \A i \in row.copies : i \in Nat
           /\ row.effects \in Nat /\ row.givenUp \in Nat
  <1>1. row.copies \subseteq Attempts /\ row.attempt \in Attempts
    BY DEF CallRow
  <1>2. IsFiniteSet(Attempts) /\ Attempts \subseteq Nat
    BY FS_Interval DEF Attempts, CallsAssumption
  <1>3. IsFiniteSet(row.copies) /\ Lingering(row) \subseteq row.copies
    BY <1>1, <1>2, FS_Subset DEF Lingering
  <1>4. row.effects \in Nat /\ row.givenUp \in Nat
    BY DEF CallRow
  <1>5. QED
    BY <1>1, <1>2, <1>3, <1>4, FS_Subset, FS_CardinalityType

(* A step that replaces the row of one call. *)
LEMMA CallRowKept ==
    ASSUME CallsInv, NEW c \in Calls, NEW row \in CallRow,
           call' = [call EXCEPT ![c] = row],
           EffectsCovered(row), AttemptsOnce(row),
           circuit' \in [fails : 0..CircuitThreshold,
                         state : {"closed", "open", "cooled"}],
           UNCHANGED serving
    PROVE  CallsInv'
  <1>1. /\ call'[c] = row /\ \A d \in Calls : d # c => call'[d] = call[d]
        /\ call' \in [Calls -> CallRow]
    BY DEF CallsInv, AdminCallsTypeOK
  <1>2. AdminCallsTypeOK'
    BY <1>1 DEF CallsInv, AdminCallsTypeOK
  <1>3. CallsSound'
    BY <1>1 DEF CallsInv, CallsSound
  <1>4. QED
    BY <1>2, <1>3 DEF CallsInv

(* The circuit. *)
LEMMA CircuitType ==
    ASSUME CallsAssumption, AdminCallsTypeOK,
           RecordSuccess \/ RecordFailure \/ CheckCircuit \/ UNCHANGED circuit
    PROVE  circuit' \in [fails : 0..CircuitThreshold,
                         state : {"closed", "open", "cooled"}]
  <1>1. /\ circuit.fails \in 0..CircuitThreshold
        /\ circuit.state \in {"closed", "open", "cooled"}
        /\ circuit \in [fails : 0..CircuitThreshold,
                         state : {"closed", "open", "cooled"}]
    BY DEF AdminCallsTypeOK
  <1>2. CASE RecordSuccess
    BY <1>2 DEF RecordSuccess, CallsAssumption
  <1>3. CASE RecordFailure
    <2> DEFINE fails == IF circuit.fails < CircuitThreshold
                        THEN circuit.fails + 1 ELSE CircuitThreshold
               state == IF fails >= CircuitThreshold THEN "open" ELSE circuit.state
    <2>1. circuit' = [fails |-> fails, state |-> state]
      BY <1>3 DEF RecordFailure
    <2>2. fails \in 0..CircuitThreshold /\ state \in {"closed", "open", "cooled"}
      BY <1>1 DEF CallsAssumption
    <2> HIDE DEF fails, state
    <2>3. QED
      BY <2>1, <2>2
  <1>4. CASE CheckCircuit
    BY <1>1, <1>4 DEF CheckCircuit
  <1>5. QED
    BY <1>1, <1>2, <1>3, <1>4

(* The rows of the steps.                                                   *)
SentRow(row) == [row EXCEPT !.stage = "waiting", !.reply = "none",
                            !.copies = @ \cup {row.attempt}]

LEMMA SentRows ==
    ASSUME NEW row \in CallRow
    PROVE  /\ SentRow(row) \in CallRow
           /\ SentRow(row).stage = "waiting" /\ SentRow(row).reply = "none"
           /\ SentRow(row).copies = row.copies \cup {row.attempt}
           /\ SentRow(row).attempt = row.attempt /\ SentRow(row).told = row.told
           /\ SentRow(row).effects = row.effects
           /\ SentRow(row).givenUp = row.givenUp
  BY DEF CallRow, SentRow

WorkedRow(row, i, effects, reply) ==
    [row EXCEPT !.copies = @ \ {i}, !.effects = effects, !.reply = reply]

LEMMA WorkedRows ==
    ASSUME NEW row \in CallRow, NEW i, NEW effects \in Nat,
           NEW reply \in {"none", "done", "refused", "failed"}
    PROVE  /\ WorkedRow(row, i, effects, reply) \in CallRow
           /\ WorkedRow(row, i, effects, reply).copies = row.copies \ {i}
           /\ WorkedRow(row, i, effects, reply).effects = effects
           /\ WorkedRow(row, i, effects, reply).reply = reply
           /\ WorkedRow(row, i, effects, reply).stage = row.stage
           /\ WorkedRow(row, i, effects, reply).attempt = row.attempt
           /\ WorkedRow(row, i, effects, reply).told = row.told
           /\ WorkedRow(row, i, effects, reply).givenUp = row.givenUp
  BY DEF CallRow, WorkedRow

ClosedRow(row, stage, told, givenUp) ==
    [row EXCEPT !.stage = stage, !.told = told, !.givenUp = givenUp]

LEMMA ClosedRows ==
    ASSUME NEW row \in CallRow, NEW stage \in {"idle", "auditing"},
           NEW told \in {"no", "refused", "unavailable", "audited", "unaudited"},
           NEW givenUp \in Nat
    PROVE  /\ ClosedRow(row, stage, told, givenUp) \in CallRow
           /\ ClosedRow(row, stage, told, givenUp).stage = stage
           /\ ClosedRow(row, stage, told, givenUp).told = told
           /\ ClosedRow(row, stage, told, givenUp).givenUp = givenUp
           /\ ClosedRow(row, stage, told, givenUp).copies = row.copies
           /\ ClosedRow(row, stage, told, givenUp).attempt = row.attempt
           /\ ClosedRow(row, stage, told, givenUp).reply = row.reply
           /\ ClosedRow(row, stage, told, givenUp).effects = row.effects
  BY DEF CallRow, ClosedRow

FailureRow(row, stage, attempt, givenUp, told) ==
    [row EXCEPT !.stage = stage, !.attempt = attempt, !.reply = "none",
                !.givenUp = givenUp, !.told = told]

LEMMA FailureRows ==
    ASSUME NEW row \in CallRow, NEW stage \in {"idle", "sending"},
           NEW attempt \in Attempts, NEW givenUp \in Nat,
           NEW told \in {"no", "refused", "unavailable", "audited", "unaudited"}
    PROVE  /\ FailureRow(row, stage, attempt, givenUp, told) \in CallRow
           /\ FailureRow(row, stage, attempt, givenUp, told).stage = stage
           /\ FailureRow(row, stage, attempt, givenUp, told).attempt = attempt
           /\ FailureRow(row, stage, attempt, givenUp, told).givenUp = givenUp
           /\ FailureRow(row, stage, attempt, givenUp, told).told = told
           /\ FailureRow(row, stage, attempt, givenUp, told).copies = row.copies
           /\ FailureRow(row, stage, attempt, givenUp, told).effects = row.effects
  BY DEF CallRow, FailureRow

LEMMA NewCalls ==
    ASSUME CallsAssumption, NEW stage \in {"idle", "sending"}
    PROVE  /\ NewCall(stage) \in CallRow
           /\ EffectsCovered(NewCall(stage)) /\ AttemptsOnce(NewCall(stage))
  <1> DEFINE row == NewCall(stage)
  <1>1. /\ row \in CallRow /\ row.copies = {} /\ row.effects = 0
        /\ row.givenUp = 0 /\ row.stage = stage /\ row.told = "no"
    BY DEF NewCall, CallRow, Attempts, CallsAssumption
  <1> HIDE DEF row
  <1>2. Lingering(row) = {} /\ Cardinality({}) = 0
    BY <1>1, FS_EmptySet DEF Lingering
  <1>3. QED
    BY <1>1, <1>2 DEF EffectsCovered, AttemptsOnce, RowReported, RowHeard, row

(* Sending: the copy sent is awaited, so nothing is left behind.            *)
LEMMA SentSound ==
    ASSUME CallsAssumption, NEW row \in CallRow, row.stage = "sending",
           EffectsCovered(row), AttemptsOnce(row)
    PROVE  EffectsCovered(SentRow(row)) /\ AttemptsOnce(SentRow(row))
  <1>1. PICK new \in CallRow : new = SentRow(row)
    BY SentRows
  <1>2. /\ new.stage = "waiting" /\ new.reply = "none" /\ new.told = "no"
        /\ new.copies = row.copies \cup {row.attempt}
        /\ new.attempt = row.attempt /\ new.effects = row.effects
        /\ new.givenUp = row.givenUp
        /\ row.told = "no" /\ row.attempt \notin row.copies
    BY <1>1, SentRows DEF AttemptsOnce
  <1>3. Lingering(new) = Lingering(row)
    BY <1>2 DEF Lingering
  <1>4. EffectsCovered(new)
    BY <1>2, <1>3 DEF EffectsCovered, RowReported, RowHeard
  <1>5. AttemptsOnce(new)
    <2>1. \A i \in new.copies : i <= new.attempt
      BY <1>2, CopiesFinite DEF AttemptsOnce
    <2>2. QED
      BY <2>1, <1>2 DEF AttemptsOnce
  <1>6. QED
    BY <1>1, <1>4, <1>5

(* What is left when one copy has been carried out, refused or failed.      *)
LEMMA WorkedLeaves ==
    ASSUME CallsAssumption, NEW row \in CallRow, AttemptsOnce(row),
           NEW i \in row.copies, NEW effects \in Nat,
           NEW answer \in {"done", "refused", "failed"},
           NEW reply \in {"none", "done", "refused", "failed"},
           reply = (IF row.stage = "waiting" /\ i = row.attempt
                    THEN answer ELSE row.reply),
           NEW new \in CallRow, new = WorkedRow(row, i, effects, reply)
    PROVE  Cardinality(Lingering(new))
              = Cardinality(Lingering(row))
                  - (IF row.stage = "waiting" /\ i = row.attempt THEN 0 ELSE 1)
  <1>1. /\ new.copies = row.copies \ {i} /\ new.reply = reply
        /\ new.stage = row.stage /\ new.attempt = row.attempt
    BY WorkedRows
  <1>2. /\ IsFiniteSet(Lingering(row)) /\ Cardinality(Lingering(row)) \in Nat
        /\ Cardinality(Lingering(row) \ {i}) \in Nat
    BY CopiesFinite, FS_RemoveElement, FS_CardinalityType, FS_Subset,
       Lingering(row) \ {i} \subseteq Lingering(row)
  <1>3. CASE row.stage = "waiting" /\ i = row.attempt
    <2>1. row.reply = "none"
      BY <1>3 DEF AttemptsOnce
    <2>2. Lingering(new) = Lingering(row)
      BY <1>1, <1>3, <2>1 DEF Lingering
    <2>3. QED
      BY <1>2, <1>3, <2>2
  <1>4. CASE ~(row.stage = "waiting" /\ i = row.attempt)
    <2>1. reply = row.reply
      BY <1>4
    <2>2. i \in Lingering(row) /\ Lingering(new) = Lingering(row) \ {i}
      BY <1>1, <1>4, <2>1 DEF Lingering
    <2>3. Cardinality(Lingering(row) \ {i}) = Cardinality(Lingering(row)) - 1
      BY <1>2, <2>2, FS_RemoveElement
    <2>4. QED
      BY <1>4, <2>2, <2>3
  <1>5. QED
    BY <1>3, <1>4

LEMMA WorkedSound ==
    ASSUME CallsAssumption, NEW row \in CallRow,
           EffectsCovered(row), AttemptsOnce(row),
           NEW i \in row.copies, NEW effects \in Nat,
           NEW answer \in {"done", "refused", "failed"},
           effects = (IF answer = "done" THEN row.effects + 1 ELSE row.effects),
           NEW reply \in {"none", "done", "refused", "failed"},
           reply = (IF row.stage = "waiting" /\ i = row.attempt
                    THEN answer ELSE row.reply)
    PROVE  /\ EffectsCovered(WorkedRow(row, i, effects, reply))
           /\ AttemptsOnce(WorkedRow(row, i, effects, reply))
  <1>1. PICK new \in CallRow : new = WorkedRow(row, i, effects, reply)
    BY WorkedRows
  <1>2. /\ new.copies = row.copies \ {i} /\ new.effects = effects
        /\ new.reply = reply /\ new.stage = row.stage
        /\ new.attempt = row.attempt /\ new.told = row.told
        /\ new.givenUp = row.givenUp
    BY <1>1, WorkedRows
  <1>3. /\ row.effects \in Nat /\ row.givenUp \in Nat
        /\ Cardinality(Lingering(row)) \in Nat
    BY CopiesFinite
  <1>4. AttemptsOnce(new)
    BY <1>2 DEF AttemptsOnce
  <1>5. CASE row.stage = "waiting" /\ i = row.attempt
    <2>1. row.reply = "none" /\ row.told = "no" /\ reply = answer
      BY <1>5 DEF AttemptsOnce
    <2>2. Cardinality(Lingering(new)) = Cardinality(Lingering(row))
      BY <1>1, <1>5, <1>3, WorkedLeaves
    <2>3. ~RowReported(row) /\ ~RowHeard(row) /\ ~RowReported(new)
          /\ (RowHeard(new) <=> answer = "done")
      BY <1>2, <1>5, <2>1 DEF RowReported, RowHeard
    <2>4. row.effects + Cardinality(Lingering(row)) <= row.givenUp
      BY <1>3, <2>3 DEF EffectsCovered
    <2>5. QED
      BY <1>1, <1>2, <1>3, <1>4, <2>2, <2>3, <2>4 DEF EffectsCovered
  <1>6. CASE ~(row.stage = "waiting" /\ i = row.attempt)
    <2>1. reply = row.reply
      BY <1>6
    <2>2. Cardinality(Lingering(new)) = Cardinality(Lingering(row)) - 1
      BY <1>1, <1>6, WorkedLeaves
    <2>3. (RowReported(row) <=> RowReported(new)) /\ (RowHeard(row) <=> RowHeard(new))
      BY <1>2, <2>1 DEF RowReported, RowHeard
    <2>4. QED
      BY <1>1, <1>2, <1>3, <1>4, <2>2, <2>3 DEF EffectsCovered
  <1>7. QED
    BY <1>5, <1>6

(* The end of a call whose last attempt was answered. *)
LEMMA ClosedLeaves ==
    ASSUME CallsAssumption, NEW row \in CallRow, AttemptsOnce(row),
           \/ row.stage = "auditing"
           \/ row.stage = "waiting" /\ row.reply \in {"done", "refused"},
           NEW stage \in {"idle", "auditing"},
           NEW told \in {"no", "refused", "unavailable", "audited", "unaudited"},
           NEW givenUp \in Nat,
           stage # "idle" => told = "no",
           NEW new \in CallRow, new = ClosedRow(row, stage, told, givenUp)
    PROVE  Lingering(new) = Lingering(row) /\ AttemptsOnce(new) /\ ~RowHeard(new)
           /\ new.effects = row.effects /\ new.givenUp = givenUp
           /\ (RowReported(new) <=> stage = "auditing" \/ told \in {"audited", "unaudited"})
  <1>1. /\ new.stage = stage /\ new.told = told /\ new.givenUp = givenUp
        /\ new.copies = row.copies /\ new.attempt = row.attempt
        /\ new.reply = row.reply /\ new.effects = row.effects
    BY DEF ClosedRow, CallRow
  <1>2. Lingering(new) = Lingering(row)
    BY <1>1 DEF Lingering
  <1>3. AttemptsOnce(new)
    BY <1>1 DEF AttemptsOnce
  <1>4. QED
    BY <1>1, <1>2, <1>3 DEF RowHeard, RowReported

(* After a failure: the copy of the attempt given up, if it is still on its *)
(* way, is left behind and counted.                                         *)
LEMMA FailureSound ==
    ASSUME CallsAssumption, NEW row \in CallRow, row.stage = "waiting",
           EffectsCovered(row), AttemptsOnce(row),
           NEW gaveUp \in {0, 1},
           gaveUp = 0 => row.reply = "failed",
           NEW stage \in {"idle", "sending"}, NEW attempt \in Attempts,
           NEW told \in {"no", "unavailable"},
           stage = "sending" => attempt = row.attempt + 1 /\ told = "no",
           stage = "idle" => attempt = row.attempt,
           NEW new \in CallRow,
           new = FailureRow(row, stage, attempt, row.givenUp + gaveUp, told)
    PROVE  EffectsCovered(new) /\ AttemptsOnce(new)
  <1>1. /\ new.stage = stage /\ new.attempt = attempt /\ new.told = told
        /\ new.givenUp = row.givenUp + gaveUp
        /\ new.copies = row.copies /\ new.effects = row.effects
    BY DEF FailureRow, CallRow
  <1>2. /\ row.copies \subseteq Attempts /\ IsFiniteSet(row.copies)
        /\ IsFiniteSet(Lingering(row)) /\ Cardinality(Lingering(row)) \in Nat
        /\ row.attempt \in Nat /\ \A i \in row.copies : i \in Nat
        /\ row.effects \in Nat /\ row.givenUp \in Nat
    BY CopiesFinite
  <1>3. AttemptsOnce(new)
    <2>1. \A i \in new.copies : i <= row.attempt
      BY <1>1 DEF AttemptsOnce
    <2>2. \A i \in new.copies : i <= new.attempt
      BY <1>1, <1>2, <2>1
    <2>3. stage = "sending" => attempt \notin new.copies
      BY <1>1, <1>2, <2>1
    <2>4. QED
      BY <1>1, <2>2, <2>3 DEF AttemptsOnce
  <1>4. row.told = "no" /\ ~RowReported(row) /\ ~RowReported(new) /\ ~RowHeard(new)
    BY <1>1 DEF AttemptsOnce, RowReported, RowHeard
  <1>5. Lingering(new) = row.copies /\ Cardinality(row.copies) \in Nat
    BY <1>1, <1>2, FS_CardinalityType DEF Lingering
  <1>6. CASE row.reply = "none"
    <2>1. Lingering(row) = row.copies \ {row.attempt} /\ row.attempt \in row.copies
      BY <1>6 DEF Lingering, AttemptsOnce
    <2>2. Cardinality(Lingering(row)) = Cardinality(row.copies) - 1
      BY <1>2, <2>1, FS_RemoveElement
    <2>3. gaveUp = 1 /\ ~RowHeard(row)
      BY <1>6 DEF RowHeard
    <2>4. row.effects + Cardinality(Lingering(row)) <= row.givenUp
      BY <1>2, <1>4, <2>3 DEF EffectsCovered
    <2>5. row.effects + Cardinality(Lingering(new)) <= row.givenUp + gaveUp
      BY <1>2, <1>5, <2>2, <2>3, <2>4
    <2>6. QED
      BY <1>1, <1>2, <1>3, <1>4, <1>5, <2>5 DEF EffectsCovered
  <1>7. CASE row.reply # "none"
    <2>1. Lingering(row) = row.copies
      BY <1>7 DEF Lingering
    <2>2. RowHeard(row) => gaveUp = 1
      BY DEF RowHeard
    <2>3. row.effects + Cardinality(Lingering(row))
             <= row.givenUp + (IF RowHeard(row) THEN 1 ELSE 0)
      BY <1>2, <1>4 DEF EffectsCovered
    <2>4. row.effects + Cardinality(Lingering(new)) <= row.givenUp + gaveUp
      BY <1>2, <1>5, <2>1, <2>2, <2>3
    <2>5. QED
      BY <1>1, <1>2, <1>3, <1>4, <1>5, <2>4 DEF EffectsCovered
  <1>8. QED
    BY <1>6, <1>7

(* The end of a call: nothing counts that was not heard of. *)
LEMMA ClosedSound ==
    ASSUME CallsAssumption, NEW row \in CallRow,
           EffectsCovered(row), AttemptsOnce(row),
           NEW stage \in {"idle", "auditing"},
           NEW told \in {"no", "refused", "unavailable", "audited", "unaudited"},
           NEW givenUp \in Nat,
           \/ row.stage = "auditing" /\ stage = "idle" /\ givenUp = row.givenUp
              /\ told \in {"audited", "unaudited"}
           \/ row.stage = "waiting" /\ row.reply = "done" /\ stage = "auditing"
              /\ told = "no" /\ givenUp = row.givenUp
           \/ row.stage = "waiting" /\ row.reply = "done" /\ stage = "idle"
              /\ told = "unavailable" /\ givenUp = row.givenUp + 1
           \/ row.stage = "waiting" /\ row.reply = "refused" /\ stage = "idle"
              /\ told = "refused" /\ givenUp = row.givenUp,
           NEW new \in CallRow, new = ClosedRow(row, stage, told, givenUp)
    PROVE  EffectsCovered(new) /\ AttemptsOnce(new)
  <1>1. /\ row.stage = "auditing" \/ row.stage = "waiting"
        /\ row.stage = "waiting" => row.reply \in {"done", "refused"}
        /\ stage # "idle" => told = "no"
    OBVIOUS
  <1>2. /\ Lingering(new) = Lingering(row) /\ AttemptsOnce(new) /\ ~RowHeard(new)
        /\ new.effects = row.effects /\ new.givenUp = givenUp
        /\ RowReported(new) <=> \/ stage = "auditing"
                                \/ told \in {"audited", "unaudited"}
    BY <1>1, ClosedLeaves
  <1>3. /\ row.effects \in Nat /\ row.givenUp \in Nat
        /\ Cardinality(Lingering(row)) \in Nat
    BY CopiesFinite
  <1>4. CASE row.stage = "auditing"
    <2>1. RowReported(row) /\ RowReported(new) /\ givenUp = row.givenUp
      BY <1>2, <1>4 DEF RowReported
    <2>2. QED
      BY <1>2, <1>3, <2>1 DEF EffectsCovered
  <1>5. CASE row.stage = "waiting" /\ row.reply = "done"
    <2>1. /\ RowHeard(row)
          /\ \/ RowReported(new) /\ givenUp = row.givenUp
             \/ ~RowReported(new) /\ givenUp = row.givenUp + 1
      BY <1>2, <1>5 DEF RowHeard
    <2>2. QED
      BY <1>2, <1>3, <2>1 DEF EffectsCovered
  <1>6. CASE row.stage = "waiting" /\ row.reply = "refused"
    <2>1. ~RowHeard(row) /\ row.told = "no" /\ ~RowReported(row)
      BY <1>6 DEF RowHeard, RowReported, AttemptsOnce
    <2>2. ~RowReported(new) /\ givenUp = row.givenUp
      BY <1>2, <1>6
    <2>3. QED
      BY <1>2, <1>3, <2>1, <2>2 DEF EffectsCovered
  <1>7. QED
    BY <1>1, <1>4, <1>5, <1>6

(* One lemma for each step of a call.                                       *)
LEMMA BeginCallSound ==
    ASSUME CallsAssumption, CallsInv, NEW c \in Calls, BeginCall(c)
    PROVE  CallsInv'
  <1>1. /\ NewCall("sending") \in CallRow
        /\ EffectsCovered(NewCall("sending")) /\ AttemptsOnce(NewCall("sending"))
    BY NewCalls
  <1>2. CheckCircuit /\ UNCHANGED serving
        /\ call' = [call EXCEPT ![c] = NewCall("sending")]
    BY DEF BeginCall
  <1>3. QED
    BY <1>1, <1>2, CircuitType, CallRowKept DEF CallsInv

LEMMA SendAttemptSound ==
    ASSUME CallsAssumption, CallsInv, NEW c \in Calls, SendAttempt(c)
    PROVE  CallsInv'
  <1>1. PICK row \in CallRow : row = call[c]
    BY DEF CallsInv, AdminCallsTypeOK
  <1>2. row.stage = "sending" /\ EffectsCovered(row) /\ AttemptsOnce(row)
    BY <1>1 DEF SendAttempt, InStage, CallsInv, CallsSound
  <1>3. PICK new \in CallRow : new = SentRow(row)
    BY SentRows
  <1>4. EffectsCovered(new) /\ AttemptsOnce(new)
    BY <1>2, <1>3, SentSound
  <1>5. call' = [call EXCEPT ![c] = new]
    BY <1>1, <1>3, ZenonT(40) DEF SendAttempt, SentRow, Latest, CallsInv, AdminCallsTypeOK, CallRow
  <1>6. UNCHANGED circuit /\ UNCHANGED serving
    BY DEF SendAttempt
  <1>7. QED
    BY <1>4, <1>5, <1>6, CircuitType, CallRowKept DEF CallsInv

LEMMA ProcessSound ==
    ASSUME CallsAssumption, CallsInv, NEW c \in Calls, NEW i \in Attempts,
           NEW answer \in {"done", "refused", "failed"}, Process(c, i, answer)
    PROVE  CallsInv'
  <1>1. PICK row \in CallRow : row = call[c]
    BY DEF CallsInv, AdminCallsTypeOK
  <1>2. i \in row.copies /\ EffectsCovered(row) /\ AttemptsOnce(row)
    BY <1>1 DEF Process, CallsInv, CallsSound
  <1>3. PICK effects \in Nat :
           effects = IF answer = "done" THEN row.effects + 1 ELSE row.effects
    BY CopiesFinite
  <1>4. PICK reply \in {"none", "done", "refused", "failed"} :
           reply = IF row.stage = "waiting" /\ i = row.attempt
                   THEN answer ELSE row.reply
    BY DEF CallRow
  <1>5. PICK new \in CallRow : new = WorkedRow(row, i, effects, reply)
    BY WorkedRows
  <1>6. EffectsCovered(new) /\ AttemptsOnce(new)
    BY <1>2, <1>3, <1>4, <1>5, WorkedSound
  <1>7. call' = [call EXCEPT ![c] = new]
    <2>1. call' = [call EXCEPT ![c] = [row EXCEPT !.copies = @ \ {i},
                                                  !.effects = effects,
                                                  !.reply = reply]]
      BY <1>1, <1>3, <1>4 DEF Process, Latest, InStage
    <2>2. QED
      BY <1>5, <2>1 DEF WorkedRow
  <1>8. UNCHANGED circuit /\ UNCHANGED serving
    BY DEF Process
  <1>9. QED
    BY <1>6, <1>7, <1>8, CircuitType, CallRowKept DEF CallsInv

LEMMA ReceiveDoneSound ==
    ASSUME CallsAssumption, CallsInv, NEW c \in Calls, ReceiveDone(c)
    PROVE  CallsInv'
  <1>1. PICK row \in CallRow : row = call[c]
    BY DEF CallsInv, AdminCallsTypeOK
  <1>2. /\ row.stage = "waiting" /\ row.reply = "done" /\ row.givenUp \in Nat
        /\ EffectsCovered(row) /\ AttemptsOnce(row)
    BY <1>1, CopiesFinite DEF ReceiveDone, InStage, CallsInv, CallsSound
  <1>3. row.told = "no"
    BY <1>2 DEF AttemptsOnce
  <1>4. PICK new \in CallRow : new = ClosedRow(row, "auditing", "no", row.givenUp)
    BY <1>2, ClosedRows
  <1>5. EffectsCovered(new) /\ AttemptsOnce(new)
    BY <1>2, <1>4, ClosedSound
  <1>6. call' = [call EXCEPT ![c] = new]
    <2>1. call' = [call EXCEPT ![c] = [row EXCEPT !.stage = "auditing"]]
      BY <1>1 DEF ReceiveDone
    <2>2. [row EXCEPT !.stage = "auditing"] = ClosedRow(row, "auditing", "no", row.givenUp)
      BY <1>3 DEF ClosedRow, CallRow
    <2>3. QED
      BY <1>4, <2>1, <2>2
  <1>7. RecordSuccess /\ UNCHANGED serving
    BY DEF ReceiveDone
  <1>8. QED
    BY <1>5, <1>6, <1>7, CircuitType, CallRowKept DEF CallsInv

LEMMA ReceiveGarbledSound ==
    ASSUME CallsAssumption, CallsInv, NEW c \in Calls, ReceiveGarbled(c)
    PROVE  CallsInv'
  <1>1. PICK row \in CallRow : row = call[c]
    BY DEF CallsInv, AdminCallsTypeOK
  <1>2. /\ row.stage = "waiting" /\ row.reply = "done" /\ row.givenUp \in Nat
        /\ EffectsCovered(row) /\ AttemptsOnce(row)
    BY <1>1, CopiesFinite DEF ReceiveGarbled, InStage, CallsInv, CallsSound
  <1>3. PICK givenUp \in Nat : givenUp = row.givenUp + 1
    BY <1>2
  <1>4. PICK new \in CallRow : new = ClosedRow(row, "idle", "unavailable", givenUp)
    BY <1>2, ClosedRows
  <1>5. EffectsCovered(new) /\ AttemptsOnce(new)
    BY <1>2, <1>3, <1>4, ClosedSound
  <1>6. call' = [call EXCEPT ![c] = new]
    BY <1>1, <1>3, <1>4
    DEF ReceiveGarbled, ClosedRow, CallsInv, AdminCallsTypeOK, CallRow
  <1>7. circuit' \in [fails : 0..CircuitThreshold,
                      state : {"closed", "open", "cooled"}]
    BY DEF ReceiveGarbled, CallsAssumption
  <1>8. UNCHANGED serving
    BY DEF ReceiveGarbled
  <1>9. QED
    BY <1>5, <1>6, <1>7, <1>8, CallRowKept

LEMMA ReceiveRefusalSound ==
    ASSUME CallsAssumption, CallsInv, NEW c \in Calls, ReceiveRefusal(c)
    PROVE  CallsInv'
  <1>1. PICK row \in CallRow : row = call[c]
    BY DEF CallsInv, AdminCallsTypeOK
  <1>2. /\ row.stage = "waiting" /\ row.reply = "refused" /\ row.givenUp \in Nat
        /\ EffectsCovered(row) /\ AttemptsOnce(row)
    BY <1>1, CopiesFinite DEF ReceiveRefusal, InStage, CallsInv, CallsSound
  <1>3. PICK new \in CallRow : new = ClosedRow(row, "idle", "refused", row.givenUp)
    BY <1>2, ClosedRows
  <1>4. EffectsCovered(new) /\ AttemptsOnce(new)
    BY <1>2, <1>3, ClosedSound
  <1>5. call' = [call EXCEPT ![c] = new]
    <2>1. call' = [call EXCEPT ![c] = [row EXCEPT !.stage = "idle", !.told = "refused"]]
      BY <1>1 DEF ReceiveRefusal
    <2>2. [row EXCEPT !.stage = "idle", !.told = "refused"]
             = ClosedRow(row, "idle", "refused", row.givenUp)
      BY DEF ClosedRow, CallRow
    <2>3. QED
      BY <1>3, <2>1, <2>2
  <1>6. RecordSuccess /\ UNCHANGED serving
    BY DEF ReceiveRefusal
  <1>7. QED
    BY <1>4, <1>5, <1>6, CircuitType, CallRowKept DEF CallsInv

LEMMA AuditSound ==
    ASSUME CallsAssumption, CallsInv, NEW c \in Calls, Audit(c)
    PROVE  CallsInv'
  <1>1. PICK row \in CallRow : row = call[c]
    BY DEF CallsInv, AdminCallsTypeOK
  <1>2. /\ row.stage = "auditing" /\ row.givenUp \in Nat
        /\ EffectsCovered(row) /\ AttemptsOnce(row)
    BY <1>1, CopiesFinite DEF Audit, InStage, CallsInv, CallsSound
  <1>3. PICK told \in {"audited", "unaudited"} :
           call' = [call EXCEPT ![c].stage = "idle", ![c].told = told]
    BY DEF Audit
  <1>4. PICK new \in CallRow : new = ClosedRow(row, "idle", told, row.givenUp)
    BY <1>2 DEF ClosedRow, CallRow
  <1>5. EffectsCovered(new) /\ AttemptsOnce(new)
    <2>1. told \in {"no", "refused", "unavailable", "audited", "unaudited"}
      OBVIOUS
    <2>2. QED
      BY <1>2, <1>4, <2>1, ClosedSound
  <1>6. call' = [call EXCEPT ![c] = new]
    <2>1. call' = [call EXCEPT ![c] = [row EXCEPT !.stage = "idle", !.told = told]]
      BY <1>1, <1>3
    <2>2. [row EXCEPT !.stage = "idle", !.told = told]
             = ClosedRow(row, "idle", told, row.givenUp)
      BY DEF ClosedRow, CallRow
    <2>3. QED
      BY <1>4, <2>1, <2>2
  <1>7. UNCHANGED circuit /\ UNCHANGED serving
    BY DEF Audit
  <1>8. QED
    BY <1>5, <1>6, <1>7, CircuitType, CallRowKept DEF CallsInv

LEMMA AfterFailureSound ==
    ASSUME CallsAssumption, CallsInv, NEW c \in Calls, NEW gaveUp \in {0, 1},
           InStage(c, "waiting"), gaveUp = 0 => call[c].reply = "failed",
           AfterFailure(c, gaveUp), UNCHANGED serving
    PROVE  CallsInv'
  <1>1. PICK row \in CallRow : row = call[c]
    BY DEF CallsInv, AdminCallsTypeOK
  <1>2. /\ row.stage = "waiting" /\ EffectsCovered(row) /\ AttemptsOnce(row)
        /\ row.attempt \in Attempts /\ row.givenUp \in Nat
    BY <1>1, CopiesFinite DEF InStage, CallsInv, CallsSound, CallRow
  <1>3. row.told = "no"
    BY <1>2 DEF AttemptsOnce
  <1> DEFINE last == row.attempt = CallAttempts
  <1>4. PICK stage \in {"idle", "sending"} : stage = IF last THEN "idle" ELSE "sending"
    OBVIOUS
  <1>5. PICK attempt \in Attempts :
           attempt = IF last THEN row.attempt ELSE row.attempt + 1
    BY <1>2 DEF Attempts, CallsAssumption
  <1>6. PICK told \in {"no", "unavailable"} :
           told = IF last THEN "unavailable" ELSE row.told
    BY <1>3
  <1>7. PICK givenUp \in Nat : givenUp = row.givenUp + gaveUp
    BY <1>2
  <1>8. PICK new \in CallRow : new = FailureRow(row, stage, attempt, givenUp, told)
    BY DEF FailureRow, CallRow
  <1>9. /\ stage = "sending" => attempt = row.attempt + 1 /\ told = "no"
        /\ stage = "idle" => attempt = row.attempt
        /\ gaveUp = 0 => row.reply = "failed"
    BY <1>1, <1>3, <1>4, <1>5, <1>6
  <1>10. EffectsCovered(new) /\ AttemptsOnce(new)
    BY <1>2, <1>7, <1>8, <1>9, FailureSound
  <1>11. call' = [call EXCEPT ![c] = new]
    BY <1>1, <1>4, <1>5, <1>6, <1>7, <1>8
    DEF AfterFailure, FailureRow, Latest, CallsInv, AdminCallsTypeOK, CallRow
  <1>12. RecordFailure \/ UNCHANGED circuit
    BY DEF AfterFailure
  <1>13. QED
    BY <1>10, <1>11, <1>12, CircuitType, CallRowKept DEF CallsInv

LEMMA CallsInitially ==
    ASSUME CallsAssumption, AdminCallsInit
    PROVE  CallsInv
  <1>1. /\ NewCall("idle") \in CallRow
        /\ EffectsCovered(NewCall("idle")) /\ AttemptsOnce(NewCall("idle"))
    BY NewCalls
  <1>2. call \in [Calls -> CallRow] /\ \A c \in Calls : call[c] = NewCall("idle")
    BY <1>1 DEF AdminCallsInit
  <1>3. circuit \in [fails : 0..CircuitThreshold, state : {"closed", "open", "cooled"}]
    BY DEF AdminCallsInit, CallsAssumption
  <1>4. serving \in BOOLEAN
    BY DEF AdminCallsInit
  <1>5. QED
    BY <1>1, <1>2, <1>3, <1>4 DEF CallsInv, AdminCallsTypeOK, CallsSound

LEMMA CallsStep ==
    ASSUME CallsAssumption, CallsInv, [NextAdminCalls]_callVars
    PROVE  CallsInv'
  <1>1. CASE UNCHANGED callVars
    BY <1>1
    DEF callVars, CallsInv, AdminCallsTypeOK, CallsSound
  <1>2. ASSUME NEW c \in Calls, BeginCall(c)
        PROVE  CallsInv'
    BY <1>2, BeginCallSound
  <1>3. ASSUME NEW c \in Calls, SendAttempt(c)
        PROVE  CallsInv'
    BY <1>3, SendAttemptSound
  <1>4. ASSUME NEW c \in Calls, Works(c)
        PROVE  CallsInv'
    BY <1>4, ProcessSound DEF Works
  <1>5. ASSUME NEW c \in Calls, Receive(c)
        PROVE  CallsInv'
    <2>1. CASE ReceiveDone(c)
      BY <2>1, ReceiveDoneSound
    <2>2. CASE ReceiveRefusal(c)
      BY <2>2, ReceiveRefusalSound
    <2>3. CASE ReceiveFailure(c)
      BY <2>3, AfterFailureSound DEF ReceiveFailure
    <2>4. QED
      BY <1>5, <2>1, <2>2, <2>3 DEF Receive
  <1>6. ASSUME NEW c \in Calls, ReceiveGarbled(c)
        PROVE  CallsInv'
    BY <1>6, ReceiveGarbledSound
  <1>7. ASSUME NEW c \in Calls, LoseAnswer(c)
        PROVE  CallsInv'
    BY <1>7, AfterFailureSound DEF LoseAnswer
  <1>8. ASSUME NEW c \in Calls, Audit(c)
        PROVE  CallsInv'
    BY <1>8, AuditSound
  <1>9. CASE CoolDownEnds
    BY <1>9 DEF CoolDownEnds, CallsInv, AdminCallsTypeOK, CallsSound
  <1>10. CASE ServiceTurns
    BY <1>10 DEF ServiceTurns, CallsInv, AdminCallsTypeOK, CallsSound
  <1>11. QED
    BY <1>1, <1>2, <1>3, <1>4, <1>5, <1>6, <1>7, <1>8, <1>9, <1>10
    DEF NextAdminCalls

(* However often calls are tried again, and however late user-service       *)
(* carries out the attempts that were given up: a call takes effect at most *)
(* once more than it was given up, and only the effect that the             *)
(* administrator was told of is beyond those; and what is reported and put  *)
(* in the audit log did take effect.                                        *)
THEOREM EffectsAreBounded ==
    AdminCallsSpec => [](AdminCallsTypeOK /\ EffectsBounded)
  <1>1. ASSUME CallsInv
        PROVE  AdminCallsTypeOK /\ EffectsBounded
    <2>1. ASSUME NEW c \in Calls
          PROVE  /\ call[c].effects
                       <= call[c].givenUp + (IF Reported(c) \/ Heard(c) THEN 1 ELSE 0)
                 /\ Reported(c) => call[c].effects >= 1
      <3>1. PICK row \in CallRow : row = call[c]
        BY <1>1 DEF CallsInv, AdminCallsTypeOK
      <3>2. EffectsCovered(row) /\ (Reported(c) <=> RowReported(row))
            /\ (Heard(c) <=> RowHeard(row))
        BY <1>1, <3>1
        DEF CallsInv, CallsSound, Reported, Heard, RowReported, RowHeard, InStage
      <3>3. /\ row.effects \in Nat /\ row.givenUp \in Nat
            /\ Cardinality(Lingering(row)) \in Nat
        BY CopiesFinite, CallsAssumption
      <3>4. QED
        BY <3>1, <3>2, <3>3 DEF EffectsCovered
    <2>2. QED
      BY <1>1, <2>1 DEF CallsInv, EffectsBounded
  <1>2. QED
    BY <1>1, CallsInitially, CallsStep, CallsAssumption, PTL DEF AdminCallsSpec

-----------------------------------------------------------------------------
(* The catalog (ModelCatalog). *)

Entries == [state : {"active", "archived"}, vendor : Vendors, sellable : BOOLEAN]
Links == [category : Categories, position : 1..Cardinality(Categories), row : 0..EditBudget]
Creations == [op : {"create"}, keys : Orders, read : {{}}, stale : BOOLEAN,
              row : 0..EditBudget, entry : Entries]
Replacements == [op : {"replace"}, keys : Orders, read : SUBSET Links, stale : BOOLEAN,
                 row : 0..EditBudget]
Edits == Creations \cup Replacements

CatalogTyped ==
    /\ vendorState \in [Vendors -> Switch] /\ categoryState \in [Categories -> Switch]
    /\ entry \in Entries \cup {NoEntry}
    /\ links \subseteq Links
    /\ edit \in [Editors -> Edits \cup {NoEdit}]
    /\ editsBegun \in 0..EditBudget
    /\ writers \subseteq Orders /\ writers # {}

(* A list of links that comes of writers: a category is there once, at a    *)
(* place that one of them gave it, and if they all asked for one list, all  *)
(* of that list is there.                                                   *)
Placed(l, keys) == l.position \in DOMAIN keys /\ keys[l.position] = l.category
ComesOf(ls, ws) ==
    /\ \A l, m \in ls : l.category = m.category => l = m
    /\ \A l \in ls : \E keys \in ws : Placed(l, keys)
    /\ \A keys \in ws : ws = {keys} =>
          \A i \in DOMAIN keys : \E l \in ls : l.category = keys[i]

(* An edit that nothing was committed since has read what is there.         *)
EditsKnown ==
    \A e \in Editors : edit[e] # NoEdit =>
        /\ ~edit[e].stale => edit[e].read = links
        /\ edit[e].op = "replace" => entry # NoEntry

CatalogInv ==
    /\ CatalogTyped
    /\ ComesOf(links, writers)
    /\ EditsKnown
    /\ entry = NoEntry => links = {}

(* An edit is one of the two kinds, and no edit is none of them.            *)
LEMMA EditFields ==
    ASSUME NEW x \in Edits
    PROVE  /\ x.op \in {"create", "replace"} /\ x.keys \in Orders /\ x.read \subseteq Links
           /\ x.stale \in BOOLEAN /\ x.row \in 0..EditBudget
           /\ x.op = "create" => x \in Creations
           /\ x.op = "replace" => x \in Replacements
           /\ x # NoEdit
  <1>1. NoEdit.op = "none"
    BY DEF NoEdit
  <1>2. CASE x \in Creations
    BY <1>1, <1>2 DEF Creations
  <1>3. CASE x \in Replacements
    BY <1>1, <1>3 DEF Replacements
  <1>4. QED
    BY <1>2, <1>3 DEF Edits

LEMMA StaleEdit ==
    ASSUME NEW x \in Edits, NEW y, y = [x EXCEPT !.stale = TRUE]
    PROVE  y \in Edits /\ y.stale /\ y.op = x.op /\ y.keys = x.keys /\ y.read = x.read
  <1>1. CASE x \in Creations
    <2>1. y \in Creations
      BY <1>1, Zenon DEF Creations
    <2>2. y.stale = TRUE /\ y.op = x.op /\ y.keys = x.keys /\ y.read = x.read
      BY <1>1 DEF Creations
    <2>3. QED
      BY <2>1, <2>2 DEF Edits
  <1>2. CASE x \in Replacements
    <2>1. y \in Replacements
      BY <1>2, Zenon DEF Replacements
    <2>2. y.stale = TRUE /\ y.op = x.op /\ y.keys = x.keys /\ y.read = x.read
      BY <1>2 DEF Replacements
    <2>3. QED
      BY <2>1, <2>2 DEF Edits
  <1>3. QED
    BY <1>1, <1>2 DEF Edits

LEMMA OrdersKnown ==
    ASSUME CatalogAssumption, NEW keys \in Orders
    PROVE  /\ DOMAIN keys \subseteq 1..Cardinality(Categories)
           /\ \A i \in DOMAIN keys : keys[i] \in Categories
           /\ \A i, j \in DOMAIN keys : keys[i] = keys[j] => i = j
           /\ \A i \in DOMAIN keys : PositionIn(keys, keys[i]) = i
           /\ \E n \in Nat : DOMAIN keys = 1..n
  <1>1. Cardinality(Categories) \in Nat
    BY FS_CardinalityType DEF CatalogAssumption
  <1>2. PICK n \in 0..Cardinality(Categories) : keys \in [1..n -> Categories]
    BY DEF Orders
  <1>3. \A i, j \in DOMAIN keys : keys[i] = keys[j] => i = j
    BY DEF Orders, IsInjective
  <1>4. ASSUME NEW i \in DOMAIN keys
        PROVE  PositionIn(keys, keys[i]) = i
    BY <1>3 DEF PositionIn
  <1>5. QED
    BY <1>1, <1>2, <1>3, <1>4

(* What an edit leaves of the links, and what it makes of one of them.      *)
Left(x) == {l \in links : ~\E r \in x.read \ Kept(x) : SameRow(l, r)}
Rewritten(x, l) ==
    IF \E r \in Moved(x) : SameRow(l, r)
    THEN [l EXCEPT !.position = PositionIn(x.keys, l.category)] ELSE l
NewLink(x, g) == [category |-> g, position |-> PositionIn(x.keys, g), row |-> x.row]

LEMMA FlushedIs ==
    ASSUME NEW x
    PROVE  Flushed(x) = {Rewritten(x, l) : l \in Left(x)} \cup {NewLink(x, g) : g \in Added(x)}
  BY DEF Flushed, Left, Rewritten, NewLink

(* What becomes of one link: it keeps its category and, if it is written,   *)
(* goes where the edit has it.                                              *)
LEMMA RewrittenLink ==
    ASSUME CatalogAssumption, links \subseteq Links, NEW x \in Edits, NEW l \in Left(x)
    PROVE  /\ Rewritten(x, l) \in Links
           /\ Rewritten(x, l).category = l.category
           /\ Placed(Rewritten(x, l), x.keys) \/ Rewritten(x, l) = l
           /\ l \in x.read => Placed(Rewritten(x, l), x.keys)
  <1>1. l \in links /\ l \in Links
    BY DEF Left
  <1>2. x.keys \in Orders /\ x.read \subseteq Links
    BY EditFields
  <1>3. CASE \E r \in Moved(x) : SameRow(l, r)
    <2>1. l.category \in Range(x.keys)
      BY <1>3 DEF Moved, Kept, SameRow
    <2>2. PICK i \in DOMAIN x.keys : x.keys[i] = l.category
      BY <2>1 DEF Range
    <2>3. PositionIn(x.keys, l.category) = i /\ i \in 1..Cardinality(Categories)
      BY <1>2, <2>2, OrdersKnown
    <2>4. Rewritten(x, l) = [l EXCEPT !.position = i]
      BY <1>3, <2>3 DEF Rewritten
    <2>5. Rewritten(x, l) \in Links
      BY <1>1, <2>3, <2>4, Zenon DEF Links
    <2>6. Rewritten(x, l).category = l.category /\ Rewritten(x, l).position = i
      BY <1>1, <2>4 DEF Links
    <2>7. QED
      BY <2>2, <2>5, <2>6 DEF Placed
  <1>4. CASE ~\E r \in Moved(x) : SameRow(l, r)
    <2>1. Rewritten(x, l) = l
      BY <1>4 DEF Rewritten
    <2>2. ASSUME l \in x.read
          PROVE  Placed(l, x.keys)
      <3>1. SameRow(l, l)
        BY DEF SameRow
      <3>2. l \in Kept(x)
        BY <2>2, <3>1 DEF Left
      <3>3. l \notin Moved(x)
        BY <1>4, <3>1
      <3>4. l.category \in Range(x.keys) /\ l.position = PositionIn(x.keys, l.category)
        BY <3>2, <3>3 DEF Moved, Kept
      <3>5. PICK i \in DOMAIN x.keys : x.keys[i] = l.category
        BY <3>4 DEF Range
      <3>6. PositionIn(x.keys, l.category) = i
        BY <1>2, <3>5, OrdersKnown
      <3>7. QED
        BY <3>4, <3>5, <3>6 DEF Placed
    <2>3. QED
      BY <1>1, <2>1, <2>2
  <1>5. QED
    BY <1>3, <1>4

LEMMA AddedLink ==
    ASSUME CatalogAssumption, NEW x \in Edits, NEW g \in Added(x)
    PROVE  /\ NewLink(x, g) \in Links /\ NewLink(x, g).category = g
           /\ Placed(NewLink(x, g), x.keys)
  <1>1. x.keys \in Orders /\ x.row \in 0..EditBudget
    BY EditFields
  <1>2. PICK i \in DOMAIN x.keys : x.keys[i] = g
    BY DEF Added, Range
  <1>3. PositionIn(x.keys, g) = i /\ i \in 1..Cardinality(Categories) /\ g \in Categories
    BY <1>1, <1>2, OrdersKnown
  <1>4. QED
    BY <1>1, <1>2, <1>3 DEF NewLink, Links, Placed

(* An edit that can be flushed leaves what comes of it, and of those it     *)
(* overlapped with.                                                         *)
LEMMA FlushedComes ==
    ASSUME CatalogAssumption, CatalogTyped, ComesOf(links, writers),
           NEW x \in Edits, Flushable(x), ~x.stale => x.read = links,
           NEW ws, ws = (IF x.stale THEN writers ELSE {}) \cup {x.keys}
    PROVE  Flushed(x) \subseteq Links /\ ComesOf(Flushed(x), ws)
  <1> DEFINE after == Flushed(x)
  <1>1. /\ links \subseteq Links /\ x.keys \in Orders /\ x.read \subseteq Links
        /\ x.stale \in BOOLEAN /\ x.keys \in ws
    BY EditFields DEF CatalogTyped
  <1>2. ASSUME NEW n \in after
        PROVE  \/ \E l \in Left(x) : n = Rewritten(x, l)
               \/ \E g \in Added(x) : n = NewLink(x, g)
    BY FlushedIs
  <1>3. /\ \A l \in Left(x) : Rewritten(x, l) \in after
        /\ \A g \in Added(x) : NewLink(x, g) \in after
    BY FlushedIs
  <1>4. Left(x) \subseteq links
    BY DEF Left
  <1> HIDE DEF after
  <1>5. after \subseteq Links
    BY <1>1, <1>2, RewrittenLink, AddedLink
  <1>6. ASSUME NEW n \in after, NEW m \in after, n.category = m.category
        PROVE  n = m
    <2>1. ASSUME NEW l \in Left(x), NEW g \in Added(x)
          PROVE  Rewritten(x, l).category # NewLink(x, g).category
      <3>1. l.category # g
        BY <1>4, <2>1 DEF Flushable
      <3>2. QED
        BY <1>1, <3>1, RewrittenLink, AddedLink
    <2>2. CASE \E l \in Left(x) : n = Rewritten(x, l)
      <3>1. PICK l \in Left(x) : n = Rewritten(x, l)
        BY <2>2
      <3>2. ~\E g \in Added(x) : m = NewLink(x, g)
        BY <1>6, <2>1, <3>1
      <3>3. PICK k \in Left(x) : m = Rewritten(x, k)
        BY <1>2, <3>2
      <3>4. l.category = k.category
        BY <1>1, <1>6, <3>1, <3>3, RewrittenLink
      <3>5. l = k
        BY <1>4, <3>4 DEF ComesOf
      <3>6. QED
        BY <3>1, <3>3, <3>5
    <2>3. CASE \E g \in Added(x) : n = NewLink(x, g)
      <3>1. PICK g \in Added(x) : n = NewLink(x, g)
        BY <2>3
      <3>2. ~\E l \in Left(x) : m = Rewritten(x, l)
        BY <1>6, <2>1, <3>1
      <3>3. PICK h \in Added(x) : m = NewLink(x, h)
        BY <1>2, <3>2
      <3>4. g = h
        BY <1>6, <3>1, <3>3, AddedLink
      <3>5. QED
        BY <3>1, <3>3, <3>4
    <2>4. QED
      BY <1>2, <2>2, <2>3
  <1>7. ASSUME NEW n \in after
        PROVE  \E keys \in ws : Placed(n, keys)
    <2>1. CASE \E g \in Added(x) : n = NewLink(x, g)
      BY <1>1, <2>1, AddedLink
    <2>2. CASE \E l \in Left(x) : n = Rewritten(x, l)
      <3>1. PICK l \in Left(x) : n = Rewritten(x, l)
        BY <2>2
      <3>2. CASE Placed(n, x.keys)
        BY <1>1, <3>2
      <3>3. CASE ~Placed(n, x.keys)
        <4>1. n = l /\ l \notin x.read
          BY <1>1, <3>1, <3>3, RewrittenLink
        <4>2. x.stale
          BY <1>4, <3>1, <4>1
        <4>3. PICK keys \in writers : Placed(l, keys)
          BY <1>4, <3>1 DEF ComesOf
        <4>4. keys \in ws
          BY <4>2, <4>3
        <4>5. QED
          BY <4>1, <4>3, <4>4
      <3>4. QED
        BY <3>2, <3>3
    <2>3. QED
      BY <1>2, <2>1, <2>2
  <1>8. ASSUME NEW keys \in ws, ws = {keys}, NEW i \in DOMAIN keys
        PROVE  \E n \in after : n.category = keys[i]
    <2>1. keys = x.keys
      BY <1>1, <1>8
    <2>2. keys[i] \in Range(x.keys)
      BY <2>1 DEF Range
    <2>3. CASE \E l \in links : l.category = keys[i]
      <3>1. PICK l \in links : l.category = keys[i]
        BY <2>3
      <3>2. l \in Left(x)
        <4>1. ASSUME NEW r \in x.read \ Kept(x)
              PROVE  ~SameRow(l, r)
          BY <2>2, <3>1 DEF Kept, SameRow
        <4>2. QED
          BY <4>1 DEF Left
      <3>3. QED
        BY <1>1, <1>3, <3>1, <3>2, RewrittenLink
    <2>4. CASE ~\E l \in links : l.category = keys[i]
      <3>1. ~x.stale
        <4>1. SUFFICES ASSUME x.stale PROVE FALSE
          OBVIOUS
        <4>2. writers \subseteq {keys} /\ writers # {}
          BY <1>8, <4>1 DEF CatalogTyped
        <4>3. writers = {keys}
          BY <4>2
        <4>4. QED
          BY <2>4, <4>3 DEF ComesOf
      <3>2. keys[i] \in Added(x)
        BY <2>2, <2>4, <3>1 DEF Added
      <3>3. QED
        BY <1>3, <3>2, AddedLink
    <2>5. QED
      BY <2>3, <2>4
  <1>9. ComesOf(after, ws)
    BY <1>6, <1>7, <1>8 DEF ComesOf
  <1>10. QED
    BY <1>5, <1>9 DEF after

LEMMA NoEntryIsNone == \A n \in Entries : n # NoEntry
  BY DEF Entries, NoEntry

LEMMA CatalogInitially ==
    ASSUME CatalogAssumption, ModelCatalogInit
    PROVE  CatalogInv
  <1>1. <<>> \in Orders
    <2>1. <<>> \in [1..0 -> Categories] /\ IsInjective(<<>>)
      BY DEF IsInjective
    <2>2. 0 \in 0..Cardinality(Categories)
      BY FS_CardinalityType DEF CatalogAssumption
    <2>3. QED
      BY <2>1, <2>2 DEF Orders
  <1>2. CatalogTyped
    BY <1>1 DEF CatalogTyped, ModelCatalogInit, Switch, CatalogAssumption
  <1>3. ComesOf(links, writers)
    BY DEF ComesOf, ModelCatalogInit
  <1>4. EditsKnown
    BY DEF EditsKnown, ModelCatalogInit
  <1>5. QED
    BY <1>2, <1>3, <1>4 DEF CatalogInv, ModelCatalogInit

(* What leaves the links and the edits alone. *)
LEMMA CatalogAside ==
    ASSUME CatalogInv, UNCHANGED <<links, edit, editsBegun, writers>>,
           vendorState' \in [Vendors -> Switch], categoryState' \in [Categories -> Switch],
           \/ entry' = entry
           \/ entry # NoEntry /\ entry' \in Entries
    PROVE  CatalogInv'
  <1>1. \A n \in Entries : n # NoEntry
    BY NoEntryIsNone
  <1>2. CatalogTyped'
    BY DEF CatalogInv, CatalogTyped
  <1>3. ComesOf(links, writers)'
    BY DEF CatalogInv, ComesOf
  <1>4. EditsKnown'
    BY <1>1 DEF CatalogInv, EditsKnown
  <1>5. QED
    BY <1>1, <1>2, <1>3, <1>4 DEF CatalogInv

LEMMA UpdateColumnsKeeps ==
    ASSUME CatalogInv, UpdateColumns
    PROVE  CatalogInv'
  <1>1. entry \in Entries /\ entry # NoEntry
    BY DEF CatalogInv, CatalogTyped, UpdateColumns
  <1>2. entry' \in Entries
    <2>1. CASE \E state \in {"active", "archived"} : entry' = [entry EXCEPT !.state = state]
      BY <1>1, <2>1, Zenon DEF Entries
    <2>2. CASE \E v \in Vendors : entry' = [entry EXCEPT !.vendor = v]
      BY <1>1, <2>2, Zenon DEF Entries
    <2>3. CASE entry' = [entry EXCEPT !.sellable = TRUE]
      BY <1>1, <2>3, Zenon DEF Entries
    <2>4. QED
      BY <2>1, <2>2, <2>3 DEF UpdateColumns
  <1>3. QED
    BY <1>1, <1>2, CatalogAside DEF UpdateColumns, CatalogInv, CatalogTyped

(* An edit that begins has read what is there. *)
LEMMA BeginEditKeeps ==
    ASSUME CatalogAssumption, CatalogInv, NEW e \in Editors, NEW x \in Edits, BeginEdit(e, x),
           x.read = links, x.op = "replace" => entry # NoEntry
    PROVE  CatalogInv'
  <1>1. edit' = [edit EXCEPT ![e] = x] /\ editsBegun' = editsBegun + 1 /\ editsBegun < EditBudget
        /\ UNCHANGED <<vendorState, categoryState, entry, links, writers>>
    BY DEF BeginEdit
  <1>2. edit \in [Editors -> Edits \cup {NoEdit}] /\ editsBegun \in 0..EditBudget
    BY DEF CatalogInv, CatalogTyped
  <1>3. edit' \in [Editors -> Edits \cup {NoEdit}]
    BY <1>1, <1>2
  <1>4. editsBegun' \in 0..EditBudget
    BY <1>1, <1>2 DEF CatalogAssumption
  <1>5. CatalogTyped'
    BY <1>1, <1>3, <1>4 DEF CatalogInv, CatalogTyped
  <1>6. \A f \in Editors : edit'[f] = IF f = e THEN x ELSE edit[f]
    BY <1>1, <1>2
  <1>7. EditsKnown'
    BY <1>1, <1>6 DEF CatalogInv, EditsKnown
  <1>8. ComesOf(links, writers)'
    BY <1>1 DEF CatalogInv, ComesOf
  <1>9. QED
    BY <1>1, <1>5, <1>7, <1>8 DEF CatalogInv

LEMMA BeginCreateKeeps ==
    ASSUME CatalogAssumption, CatalogInv, NEW e \in Editors, NEW keys \in Orders,
           NEW v \in Vendors, NEW state \in {"active", "archived"}, NEW sellable \in BOOLEAN,
           BeginCreate(e, v, state, sellable, keys)
    PROVE  CatalogInv'
  <1>1. PICK n : n = [state |-> state, vendor |-> v, sellable |-> sellable]
    OBVIOUS
  <1>2. n \in Entries
    BY <1>1, Zenon DEF Entries
  <1>3. PICK x : x = [op |-> "create", keys |-> keys, read |-> {}, stale |-> FALSE,
                      row |-> editsBegun, entry |-> n]
    OBVIOUS
  <1>4. editsBegun \in 0..EditBudget /\ FALSE \in BOOLEAN
    BY DEF CatalogInv, CatalogTyped
  <1>5. x \in Creations
    BY <1>2, <1>3, <1>4, Zenon DEF Creations
  <1>6. BeginEdit(e, x) /\ entry = NoEntry
    BY <1>1, <1>3 DEF BeginCreate
  <1>7. x.read = links /\ x.op = "create"
    BY <1>3, <1>6 DEF CatalogInv
  <1>8. x \in Edits
    BY <1>5 DEF Edits
  <1>9. QED
    BY <1>6, <1>7, <1>8, BeginEditKeeps

LEMMA BeginReplaceKeeps ==
    ASSUME CatalogAssumption, CatalogInv, NEW e \in Editors, NEW keys \in Orders,
           BeginReplace(e, keys)
    PROVE  CatalogInv'
  <1>1. PICK x : x = [op |-> "replace", keys |-> keys, read |-> links, stale |-> FALSE,
                      row |-> editsBegun]
    OBVIOUS
  <1>2. editsBegun \in 0..EditBudget /\ FALSE \in BOOLEAN /\ links \in SUBSET Links
    BY DEF CatalogInv, CatalogTyped
  <1>3. x \in Replacements
    BY <1>1, <1>2, Zenon DEF Replacements
  <1>4. BeginEdit(e, x) /\ entry # NoEntry
    BY <1>1 DEF BeginReplace
  <1>5. x.read = links /\ x \in Edits
    BY <1>1, <1>3 DEF Edits
  <1>6. QED
    BY <1>4, <1>5, BeginEditKeeps

(* An edit that commits makes the others stale. *)
LEMMA CommitEditKeeps ==
    ASSUME CatalogAssumption, CatalogInv, NEW e \in Editors, edit[e] # NoEdit, CommitEdit(e),
           entry' \in Entries
    PROVE  CatalogInv'
  <1>1. edit \in [Editors -> Edits \cup {NoEdit}] /\ CatalogTyped
    BY DEF CatalogInv, CatalogTyped
  <1>2. PICK x \in Edits : x = edit[e]
    BY <1>1
  <1>3. /\ Flushable(x) /\ links' = Flushed(x)
        /\ writers' = (IF x.stale THEN writers ELSE {}) \cup {x.keys}
        /\ edit' = [f \in Editors |->
               IF f = e \/ edit[f] = NoEdit THEN NoEdit ELSE [edit[f] EXCEPT !.stale = TRUE]]
        /\ UNCHANGED <<vendorState, categoryState, editsBegun>>
    BY <1>2 DEF CommitEdit
  <1>4. ~x.stale => x.read = links
    BY <1>2 DEF CatalogInv, EditsKnown
  <1>5. links' \subseteq Links /\ ComesOf(links', writers')
    BY <1>1, <1>2, <1>3, <1>4, FlushedComes DEF CatalogInv
  <1>6. ASSUME NEW f \in Editors
        PROVE  /\ edit'[f] \in Edits \cup {NoEdit}
               /\ edit'[f] # NoEdit => edit'[f].stale
    <2>1. CASE f = e \/ edit[f] = NoEdit
      BY <1>3, <2>1
    <2>2. CASE f # e /\ edit[f] # NoEdit
      <3>1. PICK y : y = [edit[f] EXCEPT !.stale = TRUE]
        OBVIOUS
      <3>2. edit'[f] = y /\ edit[f] \in Edits
        BY <1>1, <1>3, <2>2, <3>1
      <3>3. QED
        BY <3>1, <3>2, StaleEdit
    <2>3. QED
      BY <2>1, <2>2
  <1>7. edit' \in [Editors -> Edits \cup {NoEdit}]
    <2>1. edit' = [f \in Editors |-> edit'[f]]
      BY <1>3
    <2>2. QED
      BY <1>6, <2>1
  <1>8. x.keys \in Orders
    BY EditFields
  <1>9. CatalogTyped'
    <2>1. writers' \subseteq Orders /\ writers' # {}
      BY <1>1, <1>3, <1>8 DEF CatalogTyped
    <2>2. QED
      BY <1>1, <1>3, <1>5, <1>7, <2>1 DEF CatalogTyped
  <1>10. entry' # NoEntry
    BY NoEntryIsNone
  <1>11. EditsKnown'
    BY <1>6, <1>10 DEF EditsKnown
  <1>12. QED
    BY <1>5, <1>9, <1>10, <1>11 DEF CatalogInv

LEMMA EditFailsKeeps ==
    ASSUME CatalogInv, NEW e \in Editors, EditFails(e)
    PROVE  CatalogInv'
  <1>1. /\ edit' = [edit EXCEPT ![e] = NoEdit]
        /\ UNCHANGED <<vendorState, categoryState, entry, links, editsBegun, writers>>
    BY DEF EditFails
  <1>2. edit \in [Editors -> Edits \cup {NoEdit}]
    BY DEF CatalogInv, CatalogTyped
  <1>3. /\ edit' \in [Editors -> Edits \cup {NoEdit}]
        /\ \A f \in Editors : edit'[f] # NoEdit => edit'[f] = edit[f]
    BY <1>1, <1>2
  <1>4. CatalogTyped'
    BY <1>1, <1>3 DEF CatalogInv, CatalogTyped
  <1>5. EditsKnown'
    BY <1>1, <1>3 DEF CatalogInv, EditsKnown
  <1>6. ComesOf(links, writers)'
    BY <1>1 DEF CatalogInv, ComesOf
  <1>7. QED
    BY <1>1, <1>4, <1>5, <1>6 DEF CatalogInv

LEMMA CatalogStep ==
    ASSUME CatalogAssumption, CatalogInv, [NextModelCatalog]_catalogVars
    PROVE  CatalogInv'
  <1>1. /\ vendorState \in [Vendors -> Switch] /\ categoryState \in [Categories -> Switch]
        /\ edit \in [Editors -> Edits \cup {NoEdit}] /\ entry \in Entries \cup {NoEntry}
    BY DEF CatalogInv, CatalogTyped
  <1>2. "on" \in Switch /\ "off" \in Switch /\ \A state : Flip(state) \in Switch
    BY DEF Switch, Flip
  <1>3. ASSUME NEW v \in Vendors, CreateVendor(v) \/ UpdateVendor(v)
        PROVE  CatalogInv'
    BY <1>1, <1>2, <1>3, CatalogAside DEF CreateVendor, UpdateVendor
  <1>4. ASSUME NEW g \in Categories, CreateCategory(g) \/ UpdateCategory(g)
        PROVE  CatalogInv'
    BY <1>1, <1>2, <1>4, CatalogAside DEF CreateCategory, UpdateCategory
  <1>5. ASSUME NEW e \in Editors, CommitCreate(e)
        PROVE  CatalogInv'
    <2>1. edit[e].op = "create" /\ entry' = edit[e].entry /\ CommitEdit(e)
      BY <1>5 DEF CommitCreate
    <2>2. edit[e] # NoEdit
      BY <2>1 DEF NoEdit
    <2>3. edit[e] \in Creations
      BY <1>1, <2>1, <2>2, EditFields
    <2>4. entry' \in Entries
      BY <2>1, <2>3 DEF Creations
    <2>5. QED
      BY <2>1, <2>2, <2>4, CommitEditKeeps
  <1>6. ASSUME NEW e \in Editors, CommitReplace(e)
        PROVE  CatalogInv'
    <2>1. edit[e].op = "replace" /\ entry' = entry /\ CommitEdit(e)
      BY <1>6 DEF CommitReplace
    <2>2. edit[e] # NoEdit
      BY <2>1 DEF NoEdit
    <2>3. entry' \in Entries
      BY <1>1, <2>1, <2>2 DEF CatalogInv, EditsKnown
    <2>4. QED
      BY <2>1, <2>2, <2>3, CommitEditKeeps
  <1>7. CASE UNCHANGED catalogVars
    BY <1>1, <1>7, CatalogAside DEF catalogVars
  <1>8. QED
    BY <1>3, <1>4, <1>5, <1>6, <1>7, BeginCreateKeeps, BeginReplaceKeeps, EditFailsKeeps,
       UpdateColumnsKeeps DEF NextModelCatalog

-----------------------------------------------------------------------------
(* The card: the links, arranged by their positions.                        *)
CardOrder == CHOOSE s \in SetToSeqs(links) : InOrder(s)

LEMMA LinksArranged ==
    ASSUME CatalogAssumption, CatalogInv
    PROVE  /\ IsFiniteSet(links)
           /\ CardOrder \in [1..Cardinality(links) -> links]
           /\ \A i, j \in 1..Cardinality(links) : i # j => CardOrder[i] # CardOrder[j]
           /\ \A i, j \in 1..Cardinality(links) :
                 i < j => CardOrder[i].position <= CardOrder[j].position
           /\ \A l \in links : \E i \in 1..Cardinality(links) : CardOrder[i] = l
           /\ Card = [i \in 1..Cardinality(links) |-> CardOrder[i].category]
  <1>1. links \subseteq Links /\ \A l, m \in links : l.category = m.category => l = m
    BY DEF CatalogInv, CatalogTyped, ComesOf
  <1>2. \A l \in links : l.category \in Categories /\ l.position \in Nat
    BY <1>1 DEF Links
  <1>3. IsFiniteSet(links)
    <2> DEFINE named == [l \in links |-> l.category]
    <2>1. named \in Injection(links, Categories)
      BY <1>1, <1>2 DEF Injection, IsInjective
    <2> HIDE DEF named
    <2>2. QED
      BY <2>1, FS_Injection DEF CatalogAssumption
  <1> DEFINE at == [l \in links |-> l.position]
             n == Cardinality(links)
  <1>4. PICK s : Sorted(links, at, s)
    <2>1. \A l \in links : at[l] \in Int
      BY <1>2
    <2> HIDE DEF at
    <2>2. QED
      BY <1>3, <2>1, SortedExists
  <1>5. s \in SetToSeqs(links) /\ InOrder(s)
    <2>1. /\ s \in [1..n -> links]
          /\ \A i, j \in 1..n : i # j => s[i] # s[j]
          /\ \A i, j \in 1..n : i < j => at[s[i]] <= at[s[j]]
      BY <1>4 DEF Sorted
    <2>2. \A i, j \in 1..n : i < j => s[i].position <= s[j].position
      BY <2>1
    <2>3. QED
      BY <2>1, <2>2 DEF SetToSeqs, InOrder
  <1>6. CardOrder \in SetToSeqs(links) /\ InOrder(CardOrder)
    BY <1>5 DEF CardOrder
  <1>7. /\ CardOrder \in [1..n -> links]
        /\ \A i, j \in 1..n : i # j => CardOrder[i] # CardOrder[j]
        /\ \A i, j \in 1..n : i < j => CardOrder[i].position <= CardOrder[j].position
    BY <1>6 DEF SetToSeqs, InOrder
  <1>8. ASSUME NEW l \in links
        PROVE  \E i \in 1..n : CardOrder[i] = l
    <2>1. Arrangement(links, CardOrder)
      BY <1>7 DEF Arrangement
    <2>2. QED
      BY <1>3, <2>1, ArrangedAll
  <1>9. Card = [i \in 1..n |-> CardOrder[i].category]
    <2>1. DOMAIN CardOrder = 1..n
      BY <1>7
    <2>2. Card = [i \in DOMAIN CardOrder |-> CardOrder[i].category]
      BY DEF Card, CardOrder
    <2>3. QED
      BY <2>1, <2>2
  <1>10. QED
    BY <1>3, <1>7, <1>8, <1>9

(* If all edits asked for one list, the card is that list: the links are at *)
(* the places it gives them, and so are as many before one on the card as   *)
(* are before it in the list.                                               *)
LEMMA CardIsAsked ==
    ASSUME CatalogAssumption, CatalogInv, NEW keys \in writers, writers = {keys}
    PROVE  Card = keys
  <1> DEFINE n == Cardinality(links)
  <1>1. /\ keys \in Orders
        /\ \A l \in links : l.position \in DOMAIN keys /\ keys[l.position] = l.category
        /\ \A i \in DOMAIN keys : \E l \in links : l.category = keys[i]
        /\ links \subseteq Links
        /\ \A l, m \in links : l.category = m.category => l = m
    BY DEF CatalogInv, CatalogTyped, ComesOf, Placed
  <1>2. PICK top \in Nat : DOMAIN keys = 1..top
    BY <1>1, OrdersKnown
  <1>3. \A i, j \in DOMAIN keys : keys[i] = keys[j] => i = j
    BY <1>1, OrdersKnown
  <1>4. ASSUME NEW i \in 1..top
        PROVE  \E l \in links : l.position = i
    <2>1. PICK l \in links : l.category = keys[i]
      BY <1>1, <1>2
    <2>2. l.position \in DOMAIN keys /\ keys[l.position] = keys[i] /\ i \in DOMAIN keys
      BY <1>1, <1>2, <2>1
    <2>3. QED
      BY <1>3, <2>1, <2>2
  <1>5. \A l, m \in links : l.position = m.position => l = m
    BY <1>1
  <1>6. /\ IsFiniteSet(links) /\ n \in Nat
        /\ CardOrder \in [1..n -> links]
        /\ \A i, j \in 1..n : i # j => CardOrder[i] # CardOrder[j]
        /\ \A i, j \in 1..n : i < j => CardOrder[i].position <= CardOrder[j].position
        /\ \A l \in links : \E i \in 1..n : CardOrder[i] = l
        /\ Card = [i \in 1..n |-> CardOrder[i].category]
    BY LinksArranged, FS_CardinalityType
  <1> HIDE DEF n
  <1> DEFINE at == [i \in 1..n |-> CardOrder[i].position]
  <1>7. /\ at \in [1..n -> 1..top]
        /\ \A i, j \in 1..n : i < j => at[i] < at[j]
        /\ \A p \in 1..top : \E i \in 1..n : at[i] = p
    <2>1. \A i \in 1..n : at[i] = CardOrder[i].position /\ CardOrder[i] \in links
      BY <1>6
    <2>2. \A i \in 1..n : at[i] \in 1..top
      BY <1>1, <1>2, <2>1
    <2>3. \A i, j \in 1..n : i < j => at[i] < at[j]
      BY <1>5, <1>6, <2>1, <2>2
    <2>4. \A p \in 1..top : \E i \in 1..n : at[i] = p
      BY <1>4, <1>6, <2>1
    <2>5. QED
      BY <2>2, <2>3, <2>4
  <1> HIDE DEF at
  <1>8. n = top /\ \A i \in 1..n : at[i] = i
    <2>1. Climbs(n, top, at)
      BY <1>7 DEF Climbs
    <2>2. QED
      BY <1>2, <1>6, <2>1, ClimbIsCount
  <1>9. \A i \in 1..n : CardOrder[i].category = keys[i]
    BY <1>1, <1>6, <1>8 DEF at
  <1>10. keys = [i \in 1..n |-> keys[i]]
    BY <1>1, <1>2, <1>8 DEF Orders
  <1>11. QED
    BY <1>6, <1>9, <1>10

(* What the card of a model shows is what edits asked for, whichever of     *)
(* them overlapped, and a user who chooses a category of it finds the model.*)
THEOREM CardsAreAsked == ModelCatalogSpec => [](ModelCatalogTypeOK /\ CardFromEdits)
  <1>1. ModelCatalogInit => CatalogInv
    BY CatalogAssumption, CatalogInitially
  <1>2. CatalogInv /\ [NextModelCatalog]_catalogVars => CatalogInv'
    BY CatalogAssumption, CatalogStep
  <1>3. CatalogInv => ModelCatalogTypeOK
    <2> SUFFICES ASSUME CatalogInv PROVE ModelCatalogTypeOK
      OBVIOUS
    <2>1. CatalogTyped
      BY DEF CatalogInv
    <2>2. entry.state \in {"none", "active", "archived"}
      BY <2>1 DEF CatalogTyped, Entries, NoEntry
    <2>3. \A e \in Editors : edit[e].op \in {"none", "create", "replace"}
      BY <2>1, EditFields DEF CatalogTyped, NoEdit
    <2>4. QED
      BY <2>1, <2>2, <2>3 DEF CatalogTyped, ModelCatalogTypeOK, Links
  <1>4. CatalogInv => CardFromEdits
    <2> SUFFICES ASSUME CatalogInv PROVE CardFromEdits
      OBVIOUS
    <2> DEFINE n == Cardinality(links)
    <2>1. /\ IsFiniteSet(links)
          /\ CardOrder \in [1..n -> links]
          /\ \A l \in links : \E i \in 1..n : CardOrder[i] = l
          /\ Card = [i \in 1..n |-> CardOrder[i].category]
      BY CatalogAssumption, LinksArranged
    <2> HIDE DEF n
    <2>2. \A keys \in writers : writers = {keys} => Card = keys
      BY CatalogAssumption, CardIsAsked
    <2>3. \A l \in links : \E keys \in writers :
             l.position \in DOMAIN keys /\ keys[l.position] = l.category
      BY DEF CatalogInv, ComesOf, Placed
    <2>4. Cardinality(links) = Cardinality(Range(Card))
      <3> DEFINE named == [l \in links |-> l.category]
      <3>1. Range(Card) = {l.category : l \in links}
        BY <2>1 DEF Range
      <3>2. named \in Bijection(links, Range(Card))
        BY <3>1 DEF Bijection, Injection, Surjection, IsInjective, CatalogInv, ComesOf
      <3> HIDE DEF named
      <3>3. QED
        BY <2>1, <3>2, FS_Bijection DEF ExistsBijection
    <2>5. ASSUME OnSale, NEW i \in DOMAIN Card
          PROVE  categoryState[Card[i]] = "on" <=> Listed("active", Card[i])
      <3>1. \E l \in links : l.category = Card[i]
        BY <2>1
      <3>2. QED
        BY <2>5, <3>1 DEF Listed, Matches, Selects
    <2>6. QED
      BY <2>2, <2>3, <2>4, <2>5 DEF CardFromEdits
  <1>5. QED
    BY <1>1, <1>2, <1>3, <1>4, PTL DEF ModelCatalogSpec
=============================================================================

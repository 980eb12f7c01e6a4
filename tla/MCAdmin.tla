------------------------------- MODULE MCAdmin -------------------------------
(* The components of admin-service and of the router's configuration, as    *)
(* one instance for TLC.  A behaviour follows one of five parts: the tokens *)
(* of an administrator, the accounts of administrators, pools and settings, *)
(* the calls to user-service, and the catalog, where from the third edit of *)
(* the links on everything is on sale.                                      *)
(* Pools and settings are followed twice: with every operation on settings, *)
(* until a tier is excused, while p2 goes off and on and offers m1 only;    *)
(* and with one account, its checks, the router, and a tier that is blanked *)
(* and set.                                                                 *)
EXTENDS AdminTokens, AdminAccounts, ConfigRefresh, AdminCalls, ModelCatalog

CONSTANTS p1, p2, m1, m2, a1, q1

VARIABLE part

MCPoolOf == [a \in Accounts |-> IF a = a1 THEN p1 ELSE p2]

adminVars == <<part, tokenVars, accountVars, poolVars, settingVars, configVars, callVars,
               catalogVars>>

Offered == [p \in Pools |-> [m \in Slugs |-> IF m = m1 THEN "on" ELSE "none"]]

AdminInit ==
    /\ part \in {"tokens", "accounts", "settings", "health", "calls", "catalog"}
    /\ AdminTokensInit /\ AdminAccountsInit /\ AdminCallsInit
    /\ ModelCatalogInit
    /\ ConfigRefreshInit
    /\ poolOn = Pools /\ check = [c \in Checks |-> NoCheck]
    /\ intended = {} /\ raced = {}
    /\ account = IF part = "settings" THEN [a \in Accounts |-> "active"]
                                      ELSE [a \in Accounts |-> Absent]
    /\ tierValue = [t \in TierKeys |-> [slug |-> m1, padded |-> FALSE]]
    /\ poolModel = IF part = "health" THEN Offered
                   ELSE [p \in Pools |-> [m \in Slugs |-> "none"]]
    /\ catalog = [m \in Slugs |-> IF part = "health" /\ m = m1 THEN "active" ELSE "none"]
    /\ settingReq = [q \in SettingRequests |-> NoSetting]
    /\ asked = 0 /\ excused = FALSE

(* In the part of health only a1 is there, and one request sets the tier.   *)
HealthPart ==
    \/ /\ \/ \E c \in Checks : \/ \E p \in {p1} : StartCheck(c, p)
                               \/ FindHealth(c, a1)
                               \/ CommitCheck(c) \/ AbortCheck(c)
          \/ AddAccount(a1)
          \/ \E status \in Statuses : SetAccountStatus(a1, status)
       /\ UNCHANGED <<settingVars, configVars>>
    \/ NextConfigRefresh /\ UNCHANGED <<poolVars, settingVars>>
    \/ /\ asked < 2 \/ settingReq[q1] # NoSetting
       /\ \/ \E t \in TierKeys, text \in Text :
                Blank(text) = ~Blank(tierValue[t]) /\ BeginSetTier(q1, t, text)
          \/ CommitTier(q1)
       /\ UNCHANGED <<poolVars, configVars>>

AllOn == OnSale /\ Range(vendorState) \cup Range(categoryState) = {"on"}

AdminNext ==
    /\ UNCHANGED part
    /\ \/ /\ part = "tokens" /\ NextAdminTokens
          /\ UNCHANGED <<accountVars, poolVars, settingVars, configVars, callVars, catalogVars>>
       \/ /\ part = "accounts" /\ NextAdminAccounts
          /\ UNCHANGED <<tokenVars, poolVars, settingVars, configVars, callVars, catalogVars>>
       \/ /\ part = "settings" /\ ~excused /\ NextRoutingSettings
          /\ poolModel'[p2][m2] = "none"
          /\ UNCHANGED <<tokenVars, accountVars, poolVars, configVars, callVars, catalogVars>>
       \/ /\ part = "settings" /\ ~excused /\ SwitchPool(p2)
          /\ UNCHANGED <<tokenVars, accountVars, settingVars, configVars, callVars, catalogVars>>
       \/ /\ part = "health" /\ HealthPart
          /\ UNCHANGED <<tokenVars, accountVars, callVars, catalogVars>>
       \/ /\ part = "calls" /\ NextAdminCalls
          /\ UNCHANGED <<tokenVars, accountVars, poolVars, settingVars, configVars, catalogVars>>
       \/ /\ part = "catalog" /\ NextModelCatalog
          /\ editsBegun' > 2 => (AllOn /\ entry.sellable)'
          /\ UNCHANGED <<tokenVars, accountVars, poolVars, settingVars, configVars, callVars>>

AdminFairness ==
    /\ part = "health" => ConfigFairness
    /\ part = "calls" => CallFairness

Spec == AdminInit /\ [][AdminNext]_adminVars /\ AdminFairness
=============================================================================

--------------------------- MODULE RoutingSettings ---------------------------
(* Which model serves which tier (admin-service:                            *)
(* services/routing_setting_service.py), the models that pools offer        *)
(* (services/pool_service.py) and the catalog that prices them              *)
(* (services/model_catalog_service.py).                                     *)
(*                                                                          *)
(* Three operations check the other tables before they write: a tier may    *)
(* only be given a model that is available and in the catalog, and a model  *)
(* a tier refers to may not lose its last available pool or its routing     *)
(* slug.  They check one snapshot and write later.                          *)
EXTENDS PoolHealth

CONSTANTS
    TierKeys, Slugs, NoSlug,
    SettingRequests,   \* requests being served at a time
    SettingBudget      \* bound: requests ever begun

ASSUME SettingsAssumption == SettingBudget \in Nat

VARIABLES
    tierValue,   \* tierValue[t]: the stored text, a slug or none, and
                 \* whether there are blanks around it
    poolModel,   \* poolModel[p][m]: "none", or the row's is_enabled
    catalog,     \* catalog[m]: "none", or the model with this routing slug
    settingReq,  \* settingReq[q]: what q is about to write, and whether
                 \* another of these requests has committed since it read
    asked,       \* requests begun so far
    excused      \* history: something that no check guards against

settingVars == <<tierValue, poolModel, catalog, settingReq, asked, excused>>

Text == [slug : Slugs \cup {NoSlug}, padded : BOOLEAN]
Blank(text) == text.slug = NoSlug
NoSetting == [op |-> "none"]

(* get_available_model_slugs                                                *)
Provides(p, m) ==
    /\ p \in poolOn /\ poolModel[p][m] = "on"
    /\ \E a \in Accounts : PoolOf[a] = p /\ account[a] = "active"
Available(m) == \E p \in Pools : Provides(p, m)

(* get_tier_keys_by_model_slug compares the stored text.                    *)
Referenced(m) == \E t \in TierKeys : tierValue[t] = [slug |-> m, padded |-> FALSE]

RoutingSettingsInit ==
    /\ tierValue \in [TierKeys -> [slug : Slugs, padded : {FALSE}]]
    /\ poolModel = [p \in Pools |-> [m \in Slugs |-> "none"]]
    /\ catalog = [m \in Slugs |-> "none"]
    /\ settingReq = [q \in SettingRequests |-> NoSetting]
    /\ asked = 0 /\ excused = FALSE

-----------------------------------------------------------------------------
AskSetting(q, request) ==
    /\ settingReq[q] = NoSetting /\ asked < SettingBudget
    /\ asked' = asked + 1
    /\ settingReq' = [settingReq EXCEPT ![q] = request]
    /\ UNCHANGED <<tierValue, poolModel, catalog, excused>>

(* validate_tier_model_coverage strips the text and skips an empty one.     *)
BeginSetTier(q, t, text) ==
    /\ IF Blank(text) THEN text.padded
       ELSE Available(text.slug) /\ catalog[text.slug] = "active"
    /\ AskSetting(q, [op |-> "tier", tier |-> t, text |-> text, stale |-> FALSE])

(* Variant: it is enough that the pool itself provides the model. *)
RemovableSelf(p, m) == Referenced(m) => Available(m)

Removable(p, m) == Referenced(m) => \E r \in Pools \ {p} : Provides(r, m)

BeginRemoveModel(q, p, m) ==
    /\ Removable(p, m)
    /\ AskSetting(q, [op |-> "remove", pool |-> p, model |-> m, stale |-> FALSE])

(* update_model checks a slug that is cleared, and not one that is renamed. *)
BeginClearSlug(q, m) ==
    /\ catalog[m] # "none" /\ ~Referenced(m)
    /\ AskSetting(q, [op |-> "clear", model |-> m, stale |-> FALSE])

Done(q) ==
    settingReq' = [r \in SettingRequests |->
        IF r = q THEN NoSetting
        ELSE IF settingReq[r] = NoSetting THEN NoSetting
        ELSE [settingReq[r] EXCEPT !.stale = TRUE]]

Committing(q, op) ==
    /\ settingReq[q].op = op
    /\ Done(q) /\ UNCHANGED asked

CommitTier(q) ==
    /\ Committing(q, "tier")
    /\ LET s == settingReq[q]
       IN  /\ tierValue' = [tierValue EXCEPT ![s.tier] = s.text]
           /\ excused' = (excused \/ s.stale \/ s.text.padded)
    /\ UNCHANGED <<poolModel, catalog>>

(* The row may be gone by now: then nothing is committed.                   *)
CommitRemoveModel(q) ==
    /\ Committing(q, "remove")
    /\ LET s == settingReq[q]
       IN  /\ poolModel[s.pool][s.model] # "none"
           /\ poolModel' = [poolModel EXCEPT ![s.pool][s.model] = "none"]
           /\ excused' = (excused \/ s.stale)
    /\ UNCHANGED <<tierValue, catalog>>

CommitClearSlug(q) ==
    /\ Committing(q, "clear")
    /\ LET s == settingReq[q]
       IN  /\ catalog' = [catalog EXCEPT ![s.model] = "none"]
           /\ excused' = (excused \/ s.stale)
    /\ UNCHANGED <<tierValue, poolModel>>

SettingFails(q) ==
    /\ settingReq[q] # NoSetting
    /\ settingReq' = [settingReq EXCEPT ![q] = NoSetting]
    /\ UNCHANGED <<tierValue, poolModel, catalog, asked, excused>>

-----------------------------------------------------------------------------
(* Operations that look at their own row only: one step.                    *)
AddModel(p, m) ==      \* add_pool_model; sync_models adds what is new
    /\ poolModel[p][m] = "none"
    /\ poolModel' = [poolModel EXCEPT ![p][m] = "on"]
    /\ UNCHANGED <<tierValue, catalog, settingReq, asked, excused>>

SwitchModel(p, m) ==   \* update_pool_model with is_enabled
    /\ poolModel[p][m] # "none"
    /\ poolModel' = [poolModel EXCEPT ![p][m] = IF @ = "on" THEN "off" ELSE "on"]
    /\ UNCHANGED <<tierValue, catalog, settingReq, asked, excused>>

CreateModel(m) ==
    /\ catalog[m] = "none"
    /\ \E state \in {"active", "archived"} :
          catalog' = [catalog EXCEPT ![m] = state]
    /\ UNCHANGED <<tierValue, poolModel, settingReq, asked, excused>>

SwitchCatalog(m) ==    \* disable_model, and update_model with is_active
    /\ catalog[m] # "none"
    /\ catalog' = [catalog EXCEPT ![m] = IF @ = "active" THEN "archived" ELSE "active"]
    /\ UNCHANGED <<tierValue, poolModel, settingReq, asked, excused>>

(* update_model; the routing slug is unique.  A request that is about to    *)
(* clear the slug of this row clears the new one.                           *)
RenameSlug(m, n) ==
    /\ catalog[m] # "none" /\ catalog[n] = "none"
    /\ catalog' = [catalog EXCEPT ![n] = catalog[m], ![m] = "none"]
    /\ excused' = (excused \/ Referenced(m))
    /\ settingReq' = [q \in SettingRequests |->
           CASE settingReq[q].op = "clear" /\ settingReq[q].model = m
                   -> [settingReq[q] EXCEPT !.model = n, !.stale = TRUE]
             [] settingReq[q].op = "tier" -> [settingReq[q] EXCEPT !.stale = TRUE]
             [] OTHER -> settingReq[q]]
    /\ UNCHANGED <<tierValue, poolModel, asked>>

NextRoutingSettings ==
    \/ \E q \in SettingRequests :
          \/ \E t \in TierKeys, text \in Text : BeginSetTier(q, t, text)
          \/ \E p \in Pools, m \in Slugs : BeginRemoveModel(q, p, m)
          \/ \E m \in Slugs : BeginClearSlug(q, m)
          \/ CommitTier(q) \/ CommitRemoveModel(q) \/ CommitClearSlug(q)
          \/ SettingFails(q)
    \/ \E m \in Slugs :
          \/ \E p \in Pools : AddModel(p, m) \/ SwitchModel(p, m)
          \/ CreateModel(m) \/ SwitchCatalog(m)
          \/ \E n \in Slugs : RenameSlug(m, n)

(* Pools and settings together; neither writes the other's tables.          *)
NextPoolsAndSettings ==
    \/ NextRoutingSettings /\ UNCHANGED poolVars
    \/ NextPoolHealth /\ UNCHANGED settingVars

RoutingSettingsSpec ==
    /\ PoolHealthInit /\ RoutingSettingsInit
    /\ [][NextPoolsAndSettings]_<<poolVars, settingVars>>

-----------------------------------------------------------------------------
SettingRequest ==
    [op : {"tier"}, tier : TierKeys, text : Text, stale : BOOLEAN]
    \cup [op : {"remove"}, pool : Pools, model : Slugs, stale : BOOLEAN]
    \cup [op : {"clear"}, model : Slugs, stale : BOOLEAN]

RoutingSettingsTypeOK ==
    /\ tierValue \in [TierKeys -> Text]
    /\ poolModel \in [Pools -> [Slugs -> {"none", "on", "off"}]]
    /\ catalog \in [Slugs -> {"none", "active", "archived"}]
    /\ settingReq \in [SettingRequests -> SettingRequest \cup {NoSetting}]
    /\ asked \in 0..SettingBudget /\ excused \in BOOLEAN

Served(t) ==
    LET m == tierValue[t].slug
    IN  Blank(tierValue[t]) \/ (/\ catalog[m] # "none"
                                /\ \E p \in Pools : poolModel[p][m] # "none")

KeepsServed ==
    \A t \in TierKeys :
        (Served(t) \/ tierValue'[t] # tierValue[t]) /\ ~excused' => Served(t)'

(* The three checks together: a tier that has a pool row and a price keeps  *)
(* them, and one that is set gets them, unless two of the requests have     *)
(* read before either committed, a routing slug in use was renamed, or a    *)
(* text with blanks around it was stored.                                   *)
TierStaysServed == [][KeepsServed]_settingVars
=============================================================================

----------------------------- MODULE ModelCatalog -----------------------------
(* The catalog that users browse (admin-service:                            *)
(* services/model_catalog_service.py, its repository and controllers, and   *)
(* the internal endpoints user-service reads it by): vendors, categories,   *)
(* one model, and the categories the model is linked to, in an order.       *)
(*                                                                          *)
(* An edit of the links reads them, computes the new list on what it read,  *)
(* and writes row by row what differs from that: without a lock, so two     *)
(* edits of one model that overlap both write.                              *)
EXTENDS Integers, FiniteSets, SequencesExt

CONSTANTS
    Vendors, Categories,
    Editors,           \* requests being served at a time
    EditBudget         \* bound: edits of the links ever begun

ASSUME CatalogAssumption == IsFiniteSet(Categories) /\ EditBudget \in Nat

VARIABLES
    vendorState,       \* "none", or whether the vendor is_active
    categoryState,     \* "none", or whether the category is_active
    entry,             \* the row of the model
    links,             \* the rows of model_catalog_category_map
    edit,              \* edit[e]: the edit that e has computed
    editsBegun,        \* their number, and the id of the rows the next one adds
    writers            \* history: the orders asked for by the last edit, and
                       \* by those that it overlapped with

catalogVars == <<vendorState, categoryState, entry, links, edit, editsBegun, writers>>

Switch == {"none", "on", "off"}
Orders == {s \in UNION {[1..n -> Categories] : n \in 0..Cardinality(Categories)} :
              IsInjective(s)}
NoEntry == [state |-> "none"]
NoEdit == [op |-> "none"]

ModelCatalogInit ==
    /\ vendorState = [v \in Vendors |-> "none"]
    /\ categoryState = [g \in Categories |-> "none"]
    /\ entry = NoEntry /\ links = {}
    /\ edit = [e \in Editors |-> NoEdit]
    /\ editsBegun = 0 /\ writers = {<<>>}

-----------------------------------------------------------------------------
(* Reading.                                                                 *)
OnSale == entry.state = "active" /\ vendorState[entry.vendor] = "on"

(* list_models, asked for by status; users ask for "active".  A category    *)
(* that is off selects nothing for them.                                    *)
Matches(status) ==
    CASE status = "active"   -> OnSale
      [] status = "archived" -> entry.state = "archived"
      [] status = "all"      -> entry.state # "none"

Selects(status, g) ==
    /\ \E l \in links : l.category = g
    /\ status = "active" => categoryState[g] = "on"

Listed(status, g) == Matches(status) /\ Selects(status, g)

(* _model_item: the categories of the model, active or not, in order.       *)
InOrder(order) == \A i, j \in DOMAIN order : i < j => order[i].position <= order[j].position
Card ==
    LET order == CHOOSE s \in SetToSeqs(links) : InOrder(s)
    IN  [i \in DOMAIN order |-> order[i].category]

-----------------------------------------------------------------------------
(* Vendors and categories: one row each.  Of two that create one slug, the  *)
(* second is refused, by the check or by the unique key.                    *)
CreateVendor(v) ==
    /\ vendorState[v] = "none"
    /\ \E to \in {"on", "off"} : vendorState' = [vendorState EXCEPT ![v] = to]
    /\ UNCHANGED <<categoryState, entry, links, edit, editsBegun, writers>>

Flip(state) == IF state = "on" THEN "off" ELSE "on"

UpdateVendor(v) ==
    /\ vendorState[v] # "none"
    /\ vendorState' = [vendorState EXCEPT ![v] = Flip(@)]
    /\ UNCHANGED <<categoryState, entry, links, edit, editsBegun, writers>>

CreateCategory(g) ==
    /\ categoryState[g] = "none"
    /\ \E to \in {"on", "off"} : categoryState' = [categoryState EXCEPT ![g] = to]
    /\ UNCHANGED <<vendorState, entry, links, edit, editsBegun, writers>>

UpdateCategory(g) ==
    /\ categoryState[g] # "none"
    /\ categoryState' = [categoryState EXCEPT ![g] = Flip(@)]
    /\ UNCHANGED <<vendorState, entry, links, edit, editsBegun, writers>>

-----------------------------------------------------------------------------
ResolveVendor(v) == vendorState[v] # "none"
ResolveCategories(keys) == \A i \in DOMAIN keys : categoryState[keys[i]] # "none"

BeginEdit(e, computed) ==
    /\ edit[e] = NoEdit /\ editsBegun < EditBudget
    /\ ResolveCategories(computed.keys)
    /\ edit' = [edit EXCEPT ![e] = computed]
    /\ editsBegun' = editsBegun + 1
    /\ UNCHANGED <<vendorState, categoryState, entry, links, writers>>

(* create_model: one that starts active needs a routing slug and prices.    *)
BeginCreate(e, v, state, sellable, keys) ==
    /\ entry = NoEntry
    /\ state = "active" => sellable
    /\ ResolveVendor(v)
    /\ BeginEdit(e, [op |-> "create", keys |-> keys, read |-> {}, stale |-> FALSE,
                     row |-> editsBegun,
                     entry |-> [state |-> state, vendor |-> v, sellable |-> sellable]])

(* update_model with category_keys                                          *)
BeginReplace(e, keys) ==
    /\ entry # NoEntry
    /\ BeginEdit(e, [op |-> "replace", keys |-> keys, read |-> links, stale |-> FALSE,
                     row |-> editsBegun])

(* _replace_categories numbers the keys, keeps the link of a category that  *)
(* was read, and drops the others.                                          *)
PositionIn(keys, g) == CHOOSE i \in DOMAIN keys : keys[i] = g

Kept(x) == {l \in x.read : l.category \in Range(x.keys)}

Moved(x) == {l \in Kept(x) : l.position # PositionIn(x.keys, l.category)}
Added(x) == Range(x.keys) \ {l.category : l \in x.read}

SameRow(l, r) == l.category = r.category /\ l.row = r.row

(* The flush fails when a row to be updated is gone, or when a link to be   *)
(* inserted is there; a row to be deleted may be gone.                      *)
Flushable(x) ==
    /\ \A r \in Moved(x) : \E l \in links : SameRow(l, r)
    /\ ~\E l \in links : l.category \in Added(x)

(* Variant: no delete-orphan: the links that are not asked for stay. *)
FlushedKeeping(x) ==
    LET at(g) == PositionIn(x.keys, g)
        isIn(l, rows) == \E r \in rows : SameRow(l, r)
    IN  {IF isIn(l, Moved(x)) THEN [l EXCEPT !.position = at(l.category)] ELSE l : l \in links}
        \cup {[category |-> g, position |-> at(g), row |-> x.row] : g \in Added(x)}

Flushed(x) ==
    LET at(g) == PositionIn(x.keys, g)
        isIn(l, rows) == \E r \in rows : SameRow(l, r)
        left == {l \in links : ~isIn(l, x.read \ Kept(x))}
    IN  {IF isIn(l, Moved(x)) THEN [l EXCEPT !.position = at(l.category)] ELSE l : l \in left}
        \cup {[category |-> g, position |-> at(g), row |-> x.row] : g \in Added(x)}

CommitEdit(e) ==
    LET x == edit[e]
    IN  /\ Flushable(x)
        /\ links' = Flushed(x)
        /\ writers' = (IF x.stale THEN writers ELSE {}) \cup {x.keys}
        /\ edit' = [f \in Editors |->
               IF f = e \/ edit[f] = NoEdit THEN NoEdit ELSE [edit[f] EXCEPT !.stale = TRUE]]
        /\ UNCHANGED <<vendorState, categoryState, editsBegun>>

CommitCreate(e) ==
    /\ edit[e].op = "create" /\ entry = NoEntry
    /\ entry' = edit[e].entry
    /\ CommitEdit(e)

CommitReplace(e) ==
    /\ edit[e].op = "replace"
    /\ CommitEdit(e) /\ UNCHANGED entry

(* Refused by the flush, or rolled back for any other reason.               *)
EditFails(e) ==
    /\ edit[e] # NoEdit
    /\ edit' = [edit EXCEPT ![e] = NoEdit]
    /\ UNCHANGED <<vendorState, categoryState, entry, links, editsBegun, writers>>

(* update_model of columns, and disable_model: only those columns are       *)
(* written.  Nothing is asked of a model that an update makes active.       *)
UpdateColumns ==
    /\ entry # NoEntry
    /\ \/ \E state \in {"active", "archived"} : entry' = [entry EXCEPT !.state = state]
       \/ \E v \in Vendors : ResolveVendor(v) /\ entry' = [entry EXCEPT !.vendor = v]
       \/ entry' = [entry EXCEPT !.sellable = TRUE]
    /\ UNCHANGED <<vendorState, categoryState, links, edit, editsBegun, writers>>

NextModelCatalog ==
    \/ \E v \in Vendors : CreateVendor(v) \/ UpdateVendor(v)
    \/ \E g \in Categories : CreateCategory(g) \/ UpdateCategory(g)
    \/ \E e \in Editors :
          \/ \E keys \in Orders :
                \/ \E v \in Vendors, state \in {"active", "archived"}, sellable \in BOOLEAN :
                      BeginCreate(e, v, state, sellable, keys)
                \/ BeginReplace(e, keys)
          \/ CommitCreate(e) \/ CommitReplace(e) \/ EditFails(e)
    \/ UpdateColumns

ModelCatalogSpec == ModelCatalogInit /\ [][NextModelCatalog]_catalogVars

-----------------------------------------------------------------------------
ModelCatalogTypeOK ==
    /\ vendorState \in [Vendors -> Switch] /\ categoryState \in [Categories -> Switch]
    /\ entry.state \in {"none", "active", "archived"}
    /\ links \subseteq [category : Categories, position : 1..Cardinality(Categories),
                        row : 0..EditBudget]
    /\ \A e \in Editors : edit[e].op \in {"none", "create", "replace"}
    /\ writers \subseteq Orders

(* The card shows the categories that the last edit asked for, in its       *)
(* order; when edits overlapped, it may be a mixture that none of them      *)
(* asked for, yet every category is there once, at a place that one of them *)
(* gave it.  A user who chooses a category that is on the card and on finds *)
(* the model, while it is on sale.                                          *)
CardFromEdits ==
    /\ \A keys \in writers : writers = {keys} => Card = keys
    /\ \A l \in links : \E keys \in writers :
          l.position \in DOMAIN keys /\ keys[l.position] = l.category
    /\ Cardinality(links) = Cardinality(Range(Card))
    /\ OnSale => \A i \in DOMAIN Card :
          categoryState[Card[i]] = "on" <=> Listed("active", Card[i])
=============================================================================

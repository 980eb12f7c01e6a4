----------------------------- MODULE KeysProofs -----------------------------
(***************************************************************************)
(* Theorems about ApiKeys and RateLimit for any number of keys, users,     *)
(* routers, requests and limits: the types of the keys, that a disabled    *)
(* key is revived by nobody who sees it disabled, how many keys a user can *)
(* have, how old what the router admits a call on can be, and how many     *)
(* calls a minute lets through.                                            *)
(***************************************************************************)
EXTENDS ApiKeys, RateLimit, NumberFacts

(* The status a refresh computes. *)
LEMMA RefreshedRows ==
    ASSUME NEW row \in KeyRow, NEW t \in Nat
    PROVE  /\ Refreshed(row, t) \in KeyRow
           /\ Refreshed(row, t).stored = row.stored
           /\ (Refreshed(row, t).status = "disabled"
                  <=> row.status = "disabled")
           /\ (Refreshed(row, t).status = "active"
                  <=> /\ row.status # "disabled" /\ row.expires > t
                      /\ ~Exhausted(row))
  <1> DEFINE new == CASE row.status = "disabled" -> "disabled"
                      [] row.status # "disabled" /\ row.expires <= t -> "expired"
                      [] row.status # "disabled" /\ row.expires > t ->
                            IF Exhausted(row) THEN "exhausted" ELSE "active"
  <1>1. row.expires \in Nat /\ row.status \in Statuses
    BY DEF KeyRow
  <1>2. /\ new \in Statuses
        /\ new = "disabled" <=> row.status = "disabled"
        /\ new = "active" <=> /\ row.status # "disabled" /\ row.expires > t
                              /\ ~Exhausted(row)
    BY <1>1 DEF Statuses
  <1>3. Refreshed(row, t) = [row EXCEPT !.status = new]
    BY DEF Refreshed
  <1> HIDE DEF new
  <1>4. /\ Refreshed(row, t) \in KeyRow
        /\ Refreshed(row, t).stored = row.stored
        /\ Refreshed(row, t).status = new
    BY <1>2, <1>3 DEF KeyRow
  <1>5. QED
    BY <1>2, <1>4

LEMMA FlushedRows ==
    ASSUME NEW row \in KeyRow, NEW loaded \in KeyRow, NEW computed \in KeyRow
    PROVE  /\ Flushed(row, loaded, computed) \in KeyRow
           /\ Flushed(row, loaded, computed).stored =
                 IF computed.stored # loaded.stored THEN computed.stored
                 ELSE row.stored
           /\ Flushed(row, loaded, computed).status =
                 IF computed.status # loaded.status THEN computed.status
                 ELSE row.status
  BY DEF KeyRow, Flushed

LEMMA PatchedRows ==
    ASSUME KeysAssumption, NEW row \in KeyRow, NEW patch \in Patches
    PROVE  /\ Patched(row, patch) \in KeyRow
           /\ Patched(row, patch).stored = row.stored
           /\ Patched(row, patch).status = row.status
  <1>1. patch.limit \in Nat /\ patch.expires \in Nat
    BY DEF Patches, KeysAssumption
  <1> DEFINE limit == IF patch.limit > 0 THEN patch.limit ELSE row.limit
             expires == IF patch.expires > 0 THEN patch.expires
                        ELSE row.expires
             used == IF patch.reset THEN 0 ELSE row.used
  <1>2. limit \in Nat /\ expires \in Nat /\ used \in Nat
    BY <1>1 DEF KeyRow
  <1>3. Patched(row, patch) = [row EXCEPT !.limit = limit,
                                          !.expires = expires, !.used = used]
    BY DEF Patched
  <1> HIDE DEF limit, expires, used
  <1>4. QED
    BY <1>2, <1>3 DEF KeyRow

(* The rows the other requests write. *)
StatusRow(row, status) == [row EXCEPT !.status = status]
DeletedRow(row) == [row EXCEPT !.stored = "deleted"]
BilledRow(row) == [row EXCEPT !.used = @ + 1]

LEMMA StatusRows ==
    ASSUME NEW row \in KeyRow, NEW status \in Statuses
    PROVE  /\ StatusRow(row, status) \in KeyRow
           /\ StatusRow(row, status).status = status
           /\ StatusRow(row, status).stored = row.stored
  BY DEF KeyRow, StatusRow

LEMMA DeletedRows ==
    ASSUME NEW row \in KeyRow
    PROVE  /\ DeletedRow(row) \in KeyRow /\ DeletedRow(row).stored = "deleted"
           /\ DeletedRow(row).status = row.status
  BY DEF KeyRow, DeletedRow

LEMMA NewKeyRows ==
    ASSUME KeysAssumption, NEW limit \in Nat, NEW expires \in Nat
    PROVE  /\ NewKey(limit, expires) \in KeyRow
           /\ NewKey(limit, expires).status = "active"
           /\ NewKey(limit, expires).stored = "yes"
  BY DEF KeysAssumption, KeyRow, NewKey, NoKey, Statuses

LEMMA BilledRows ==
    ASSUME NEW row \in KeyRow
    PROVE  /\ BilledRow(row) \in KeyRow
           /\ BilledRow(row).status = row.status
           /\ BilledRow(row).stored = row.stored
  BY DEF KeyRow, BilledRow

-----------------------------------------------------------------------------
(* Types, and what a request carries. *)

(* Only a creation is about a key that is not stored, and it read no        *)
(* disabled one; only a validation has a stage before and after its         *)
(* reading.                                                                 *)
Requested ==
    /\ \A q \in KeyRequests : Busy(q) =>
          /\ keyReq[q].op = "create" => /\ keyReq[q].arg \in NewKeys
                                        /\ keyReq[q].row.status # "disabled"
          /\ keyReq[q].op = "update" => keyReq[q].arg \in Patches
          /\ keyReq[q].op # "create" => key[keyReq[q].k].stored # "no"
          /\ keyReq[q].stage # "read" => keyReq[q].op = "validate"
    /\ \A k \in Keys : key[k].stored = "no" => key[k].status # "disabled"

KeysInv == KeysTypeOK /\ Requested

LEMMA KeysInitially == KeysAssumption /\ KeysInit => KeysInv
  <1> SUFFICES ASSUME KeysAssumption, KeysInit PROVE KeysInv
    OBVIOUS
  <1>1. NoKey \in KeyRow /\ NoKey.status = "active"
    BY DEF NoKey, KeyRow, Statuses, KeysAssumption
  <1>2. \A l \in Limits, e \in Expiries :
           NewKey(l, e) \in KeyRow /\ NewKey(l, e).status = "active"
    BY NewKeyRows DEF KeysAssumption
  <1>3. key \in [Keys -> {NoKey} \cup
                          {NewKey(l, e) : l \in Limits, e \in Expiries}]
    BY DEF KeysInit
  <1>4. \A k \in Keys : key[k] \in KeyRow /\ key[k].status = "active"
    BY <1>1, <1>2, <1>3
  <1>5. key \in [Keys -> KeyRow]
    BY <1>3, <1>4
  <1>6. seen \in [Keys -> [BOOLEAN -> Int]]
    BY DEF KeysInit
  <1>7. /\ owner \in [KeyUsers -> OwnerRow]
        /\ keyReq = [q \in KeyRequests |-> KeyIdle]
        /\ cache \in [Keys -> [until : Nat, funded : BOOLEAN]]
        /\ clock = 0 /\ issued = 0
    BY DEF KeysInit, OwnerRow, NoEntry
  <1>8. QED
    BY <1>4, <1>5, <1>6, <1>7
    DEF KeysInv, KeysTypeOK, Requested, Busy, KeyIdle, KeysAssumption

LEMMA BusyCarries ==
    ASSUME KeysTypeOK, NEW q \in KeyRequests, Busy(q)
    PROVE  /\ keyReq[q] \in KeyRequest
           /\ keyReq[q].op \in KeyOps /\ keyReq[q].k \in Keys
           /\ keyReq[q].arg \in NewKeys \cup Patches \cup {None}
           /\ keyReq[q].stage \in KeyStages /\ keyReq[q].row \in KeyRow
           /\ keyReq[q].user \in OwnerRow /\ keyReq[q].room \in BOOLEAN
           /\ keyReq[q].sent \in Nat /\ keyReq[q].heard \in BOOLEAN
  BY DEF KeysTypeOK, Busy, KeyIdle, KeyRequest

(* A request goes on as itself, or ends. *)
Follows(to, request) ==
    \/ to = KeyIdle
    \/ /\ to \in KeyRequest /\ to.op = request.op /\ to.k = request.k
       /\ to.arg = request.arg
       /\ to.op = "create" => to.row = request.row
       /\ to.stage # "read" => to.op = "validate"

(* What a step may do to the keys on behalf of no creation. *)
StoredStay ==
    \A k \in Keys :
        /\ key[k].stored = "no" => key'[k] = key[k]
        /\ key[k].stored # "no" => key'[k].stored \in {key[k].stored, "deleted"}

LEMMA RequestedAfter ==
    ASSUME KeysInv, StoredStay, NEW q \in KeyRequests, NEW to,
           Follows(to, keyReq[q]), Busy(q),
           keyReq' = [keyReq EXCEPT ![q] = to]
    PROVE  /\ Requested'
           /\ keyReq' \in [KeyRequests -> KeyRequest \cup {KeyIdle}]
  <1>1. /\ keyReq'[q] = to /\ to \in KeyRequest \cup {KeyIdle}
        /\ \A r \in KeyRequests : r # q => keyReq'[r] = keyReq[r]
    BY DEF KeysInv, KeysTypeOK, Follows
  <1>2. keyReq' \in [KeyRequests -> KeyRequest \cup {KeyIdle}]
    BY <1>1 DEF KeysInv, KeysTypeOK
  <1>3. \A k \in Keys : /\ key[k].stored # "no" => key'[k].stored # "no"
                        /\ key'[k].stored = "no" => key'[k].status # "disabled"
    BY DEF StoredStay, KeysInv, Requested
  <1>4. \A r \in KeyRequests : Busy(r)' => Busy(r) /\ Follows(keyReq'[r], keyReq[r])
    <2>1. \A r \in KeyRequests : Busy(r) => keyReq[r] \in KeyRequest
      BY BusyCarries DEF KeysInv
    <2>2. QED
      BY <1>1, <2>1 DEF Follows, Busy, KeysInv, Requested
  <1>5. \A r \in KeyRequests : Busy(r) => keyReq[r].k \in Keys
    BY BusyCarries DEF KeysInv
  <1>6. Requested'
    BY <1>3, <1>4, <1>5 DEF KeysInv, Requested, Follows, Busy, KeyIdle
  <1>7. QED
    BY <1>2, <1>6

LEMMA ObserveType ==
    ASSUME KeysTypeOK, Observe, clock' \in Nat
    PROVE  seen' \in [Keys -> [BOOLEAN -> Int]]
  <1>1. \A k \in Keys, f \in BOOLEAN :
           (IF Usable(k, clock)' /\ owner'[Owner[k]].funded = f
            THEN clock' ELSE seen[k][f]) \in Int
    BY DEF KeysTypeOK
  <1>2. QED
    BY <1>1 DEF Observe

-----------------------------------------------------------------------------
(* The requests that write. *)

(* Who may make a disabled key something else. *)
Reviving(q, k) ==
    /\ keyReq[q].k = k
    /\ keyReq[q].op = "enable" \/ keyReq[q].row.status # "disabled"

WritesKnowingly(q) ==
    /\ key' \in [Keys -> KeyRow] /\ StoredStay
    /\ \A k \in Keys : key[k].status = "disabled" /\ key'[k].status # "disabled"
          => Reviving(q, k)

LEMMA WriteEffect ==
    ASSUME KeysInv, NEW q \in KeyRequests, Busy(q), keyReq[q].op # "create",
           NEW computed \in KeyRow, Write(q, computed),
           computed.stored \in {keyReq[q].row.stored, "deleted"},
           \/ keyReq[q].op = "enable" \/ keyReq[q].row.status # "disabled"
           \/ computed.status = "disabled"
    PROVE  WritesKnowingly(q)
  <1> DEFINE k == keyReq[q].k
             new == Flushed(key[k], keyReq[q].row, computed)
  <1>1. k \in Keys /\ keyReq[q].row \in KeyRow /\ key[k] \in KeyRow
    BY BusyCarries DEF KeysInv, KeysTypeOK
  <1>2. key' = [key EXCEPT ![k] = new]
    BY DEF Write
  <1>3. key[k].stored # "no"
    BY DEF KeysInv, Requested
  <1>4. /\ new \in KeyRow
        /\ new.stored = IF computed.stored # keyReq[q].row.stored
                        THEN computed.stored ELSE key[k].stored
        /\ new.status = IF computed.status # keyReq[q].row.status
                        THEN computed.status ELSE key[k].status
    BY <1>1, FlushedRows
  <1> HIDE DEF k, new
  <1>5. key'[k] = new /\ \A p \in Keys : p # k => key'[p] = key[p]
    BY <1>1, <1>2 DEF KeysInv, KeysTypeOK
  <1>6. key' \in [Keys -> KeyRow]
    BY <1>1, <1>2, <1>4 DEF KeysInv, KeysTypeOK
  <1>7. StoredStay
    BY <1>3, <1>4, <1>5 DEF StoredStay
  <1>8. new.status # "disabled" /\ key[k].status = "disabled" => Reviving(q, k)
    BY <1>4 DEF Reviving, k
  <1>9. QED
    BY <1>5, <1>6, <1>7, <1>8 DEF WritesKnowingly

LEMMA NoWriteEffect ==
    ASSUME KeysInv, NEW q \in KeyRequests, UNCHANGED key
    PROVE  WritesKnowingly(q)
  BY DEF KeysInv, KeysTypeOK, WritesKnowingly, StoredStay

LEMMA CommitEffect ==
    ASSUME KeysAssumption, KeysInv, NEW q \in KeyRequests,
           Update(q) \/ Disable(q) \/ Enable(q) \/ Delete(q) \/ Validate(q)
    PROVE  WritesKnowingly(q)
  <1> DEFINE row == keyReq[q].row
  <1>1. /\ Busy(q) /\ keyReq[q].op # "create"
        /\ row \in KeyRow /\ clock \in Nat
    BY BusyCarries DEF Update, Disable, Enable, Delete, Validate, Doing,
                       KeysInv, KeysTypeOK
  <1>2. CASE Update(q)
    <2>1. keyReq[q].arg \in Patches
      BY <1>1, <1>2 DEF Update, Doing, KeysInv, Requested
    <2> DEFINE computed == Refreshed(Patched(row, keyReq[q].arg), clock)
    <2>2. /\ computed \in KeyRow /\ computed.stored = row.stored
          /\ computed.status = "disabled" <=> row.status = "disabled"
      BY <1>1, <2>1, PatchedRows, RefreshedRows
    <2>3. UNCHANGED key \/ Write(q, computed)
      BY <1>2 DEF Update
    <2> HIDE DEF computed
    <2>4. QED
      BY <1>1, <2>2, <2>3, WriteEffect, NoWriteEffect
  <1>3. CASE Disable(q)
    <2>1. Write(q, StatusRow(row, "disabled"))
      BY <1>3 DEF Disable, StatusRow
    <2>2. QED
      BY <1>1, <2>1, StatusRows, WriteEffect DEF Statuses
  <1>4. CASE Enable(q)
    <2> DEFINE enabled == StatusRow(row, "active")
               computed == Refreshed(enabled, clock)
    <2>1. enabled \in KeyRow /\ enabled.stored = row.stored
      BY <1>1, StatusRows DEF Statuses
    <2>2. computed \in KeyRow /\ computed.stored = row.stored
      BY <1>1, <2>1, RefreshedRows
    <2>3. Write(q, computed) /\ keyReq[q].op = "enable"
      BY <1>4 DEF Enable, StatusRow, Doing
    <2> HIDE DEF computed
    <2>4. QED
      BY <1>1, <2>2, <2>3, WriteEffect
  <1>5. CASE Delete(q)
    <2>1. Write(q, DeletedRow(row))
      BY <1>5 DEF Delete, DeletedRow
    <2>2. /\ DeletedRow(row) \in KeyRow /\ DeletedRow(row).stored = "deleted"
          /\ DeletedRow(row).status = row.status
      BY <1>1, DeletedRows
    <2>3. QED
      BY <1>1, <2>1, <2>2, WriteEffect
  <1>6. CASE Validate(q)
    <2>1. UNCHANGED key \/ Write(q, Refreshed(row, clock))
      BY <1>6 DEF Validate
    <2>2. /\ Refreshed(row, clock) \in KeyRow
          /\ Refreshed(row, clock).stored = row.stored
          /\ (Refreshed(row, clock).status = "disabled"
                 <=> row.status = "disabled")
      BY <1>1, RefreshedRows
    <2>3. QED
      BY <1>1, <2>1, <2>2, WriteEffect, NoWriteEffect
  <1>7. QED
    BY <1>2, <1>3, <1>4, <1>5, <1>6

(* What these requests leave in their place. *)
LEMMA CommitFollows ==
    ASSUME KeysInv, NEW q \in KeyRequests,
           Update(q) \/ Disable(q) \/ Enable(q) \/ Delete(q) \/ Validate(q)
    PROVE  /\ Busy(q) /\ keyReq'[q] # keyReq[q]
           /\ \E to : /\ keyReq' = [keyReq EXCEPT ![q] = to]
                      /\ Follows(to, keyReq[q])
           /\ Rest
  <1>1. Busy(q) /\ Rest /\ keyReq[q].stage = "read" /\ keyReq[q] \in KeyRequest
    BY BusyCarries DEF Update, Disable, Enable, Delete, Validate, Doing, KeysInv
  <1>2. keyReq[q] # KeyIdle
    BY <1>1 DEF Busy, KeyIdle
  <1>3. CASE End(q)
    <2>1. keyReq' = [keyReq EXCEPT ![q] = KeyIdle]
      BY <1>3 DEF End
    <2>2. keyReq'[q] = KeyIdle /\ Follows(KeyIdle, keyReq[q])
      BY <2>1 DEF Follows, KeysInv, KeysTypeOK
    <2>3. QED
      BY <1>1, <1>2, <2>1, <2>2
  <1>4. CASE Validate(q)
    <2> DEFINE accepted == [keyReq[q] EXCEPT !.stage = "accepted"]
               refused == [keyReq[q] EXCEPT !.stage = "refused"]
    <2>1. PICK to \in {KeyIdle, accepted, refused} :
             keyReq' = [keyReq EXCEPT ![q] = to]
      BY <1>4 DEF Validate
    <2>2. keyReq[q].op = "validate"
      BY <1>4 DEF Validate, Doing
    <2>3. /\ accepted \in KeyRequest /\ accepted.op = keyReq[q].op
          /\ accepted.k = keyReq[q].k /\ accepted.arg = keyReq[q].arg
          /\ accepted.stage = "accepted"
      BY <1>1 DEF KeyRequest, KeyStages
    <2>4. /\ refused \in KeyRequest /\ refused.op = keyReq[q].op
          /\ refused.k = keyReq[q].k /\ refused.arg = keyReq[q].arg
          /\ refused.stage = "refused"
      BY <1>1 DEF KeyRequest, KeyStages
    <2>5. keyReq'[q] = to
      BY <2>1 DEF KeysInv, KeysTypeOK
    <2> HIDE DEF accepted, refused
    <2>6. Follows(to, keyReq[q]) /\ to # keyReq[q]
      BY <1>1, <1>2, <2>1, <2>2, <2>3, <2>4 DEF Follows
    <2>7. QED
      BY <1>1, <2>1, <2>5, <2>6
  <1>5. QED
    BY <1>3, <1>4 DEF Update, Disable, Enable, Delete

LEMMA CommitKeeps ==
    ASSUME KeysAssumption, KeysInv, NEW q \in KeyRequests,
           Update(q) \/ Disable(q) \/ Enable(q) \/ Delete(q) \/ Validate(q)
    PROVE  KeysInv'
  <1>1. key' \in [Keys -> KeyRow] /\ StoredStay
    BY CommitEffect DEF WritesKnowingly
  <1>2. /\ Requested' /\ Rest
        /\ keyReq' \in [KeyRequests -> KeyRequest \cup {KeyIdle}]
    BY <1>1, CommitFollows, RequestedAfter
  <1>3. seen' \in [Keys -> [BOOLEAN -> Int]]
    BY <1>2, ObserveType DEF Rest, KeysInv, KeysTypeOK
  <1>4. QED
    BY <1>1, <1>2, <1>3 DEF Rest, KeysInv, KeysTypeOK

LEMMA CreateEffect ==
    ASSUME KeysAssumption, KeysInv, NEW q \in KeyRequests, Create(q)
    PROVE  /\ Busy(q) /\ keyReq[q].op = "create" /\ keyReq[q].k \in Keys
           /\ keyReq'[q] = KeyIdle /\ keyReq[q].row.status # "disabled"
           /\ \A r \in KeyRequests : r # q => keyReq'[r] = keyReq[r]
           /\ key' \in [Keys -> KeyRow]
           /\ \A k \in Keys : k # keyReq[q].k => key'[k] = key[k]
           /\ \/ UNCHANGED key
              \/ /\ keyReq[q].room /\ key'[keyReq[q].k].stored = "yes"
                 /\ key'[keyReq[q].k].status = "active"
  <1>1. Busy(q) /\ keyReq[q].op = "create" /\ keyReq[q].k \in Keys
    BY BusyCarries DEF Create, Doing, KeysInv
  <1>2. keyReq[q].arg \in NewKeys /\ keyReq[q].row.status # "disabled"
    BY <1>1 DEF KeysInv, Requested
  <1> DEFINE new == NewKey(keyReq[q].arg.limit, keyReq[q].arg.expires)
  <1>3. new \in KeyRow /\ new.status = "active" /\ new.stored = "yes"
    BY <1>2, NewKeyRows DEF NewKeys, KeysAssumption
  <1>4. /\ UNCHANGED key
           \/ (keyReq[q].room /\ key' = [key EXCEPT ![keyReq[q].k] = new])
        /\ keyReq' = [keyReq EXCEPT ![q] = KeyIdle]
    BY DEF Create, End
  <1> HIDE DEF new
  <1>5. QED
    BY <1>1, <1>2, <1>3, <1>4 DEF KeysInv, KeysTypeOK

LEMMA CreateKeeps ==
    ASSUME KeysAssumption, KeysInv, NEW q \in KeyRequests, Create(q)
    PROVE  KeysInv'
  <1>1. Rest
    BY DEF Create
  <1>2. seen' \in [Keys -> [BOOLEAN -> Int]]
    BY <1>1, ObserveType DEF Rest, KeysInv, KeysTypeOK
  <1>3. keyReq' \in [KeyRequests -> KeyRequest \cup {KeyIdle}]
    BY DEF Create, End, KeysInv, KeysTypeOK
  <1>4. KeysTypeOK'
    BY <1>1, <1>2, <1>3, CreateEffect DEF Rest, KeysInv, KeysTypeOK
  <1>5. \A r \in KeyRequests : Busy(r)' => Busy(r) /\ keyReq'[r] = keyReq[r]
    BY CreateEffect DEF Busy, KeyIdle
  <1>6. \A k \in Keys : /\ key[k].stored # "no" => key'[k].stored # "no"
                        /\ key'[k].stored = "no" => key'[k].status # "disabled"
    BY CreateEffect DEF KeysInv, Requested
  <1>7. \A r \in KeyRequests : Busy(r) => keyReq[r].k \in Keys
    BY BusyCarries DEF KeysInv
  <1>8. Requested'
    BY <1>5, <1>6, <1>7 DEF KeysInv, Requested
  <1>9. QED
    BY <1>4, <1>8 DEF KeysInv

-----------------------------------------------------------------------------
(* The steps that do not write on behalf of a request. *)

LEMMA SnapshotType ==
    ASSUME KeysAssumption, KeysTypeOK, NEW op \in KeyOps, NEW k \in Keys,
           NEW arg \in NewKeys \cup Patches \cup {None}, NEW stage \in KeyStages
    PROVE  Snapshot(op, k, arg, stage) \in KeyRequest
  <1>1. owner[Owner[k]] \in OwnerRow /\ key[k] \in KeyRow /\ clock \in Nat
    BY DEF KeysTypeOK, KeysAssumption
  <1>2. QED
    BY <1>1 DEF Snapshot, KeyRequest

LEMMA BeginKeeps ==
    ASSUME KeysAssumption, KeysInv, NEW q \in KeyRequests, NEW k \in Keys,
           NEW op \in KeyOps, NEW stage \in KeyStages,
           NEW arg \in NewKeys \cup Patches \cup {None},
           op = "create" => arg \in NewKeys /\ key[k].stored = "no",
           op = "update" => arg \in Patches,
           op # "create" => key[k].stored # "no",
           stage # "read" => op = "validate",
           Begin(q, op, k, arg, stage)
    PROVE  KeysInv'
  <1> DEFINE new == Snapshot(op, k, arg, stage)
  <1>1. new \in KeyRequest
    BY SnapshotType DEF KeysInv
  <1>2. /\ new.op = op /\ new.k = k /\ new.arg = arg /\ new.stage = stage
        /\ new.row = key[k]
    BY DEF Snapshot
  <1>3. /\ keyReq' = [keyReq EXCEPT ![q] = new]
        /\ UNCHANGED <<key, owner, cache, clock, seen>>
        /\ issued' \in 0..KeyBudget
    BY DEF Begin, Count, KeysInv, KeysTypeOK, KeysAssumption
  <1> HIDE DEF new
  <1>4. /\ keyReq'[q] = new
        /\ \A r \in KeyRequests : r # q => keyReq'[r] = keyReq[r]
    BY <1>3 DEF KeysInv, KeysTypeOK
  <1>5. KeysTypeOK'
    BY <1>1, <1>3 DEF KeysInv, KeysTypeOK
  <1>6. Requested'
    BY <1>2, <1>3, <1>4 DEF KeysInv, Requested, Busy
  <1>7. QED
    BY <1>5, <1>6 DEF KeysInv

LEMMA BeginsKeep ==
    ASSUME KeysAssumption, KeysInv, NEW q \in KeyRequests, NEW k \in Keys,
           \/ \E l \in Limits, e \in Expiries : BeginCreate(q, k, l, e)
           \/ \E patch \in Patches : BeginUpdate(q, k, patch)
           \/ \E op \in {"disable", "enable", "delete"} : BeginChange(q, k, op)
           \/ BeginValidate(q, k)
    PROVE  KeysInv'
  <1>1. CASE \E l \in Limits, e \in Expiries : BeginCreate(q, k, l, e)
    <2>1. \E arg \in NewKeys : /\ Begin(q, "create", k, arg, "read")
                               /\ key[k].stored = "no"
      BY <1>1 DEF BeginCreate, NewKeys
    <2>2. QED
      BY <2>1, BeginKeeps DEF KeyOps, KeyStages
  <1>2. CASE \E patch \in Patches : BeginUpdate(q, k, patch)
    BY <1>2, BeginKeeps DEF BeginUpdate, KeyOps, KeyStages, Live
  <1>3. CASE \E op \in {"disable", "enable", "delete"} : BeginChange(q, k, op)
    BY <1>3, BeginKeeps DEF BeginChange, KeyOps, KeyStages, Live
  <1>4. CASE BeginValidate(q, k)
    BY <1>4, BeginKeeps DEF BeginValidate, KeyOps, KeyStages
  <1>5. QED
    BY <1>1, <1>2, <1>3, <1>4

(* What a validation has, once it has read. *)
HavingRead(q) ==
    [Snapshot(keyReq[q].op, keyReq[q].k, keyReq[q].arg, "read")
        EXCEPT !.sent = keyReq[q].sent, !.heard = keyReq[q].heard]

LEMMA HavingReadType ==
    ASSUME KeysAssumption, KeysInv, NEW q \in KeyRequests, Busy(q)
    PROVE  /\ HavingRead(q) \in KeyRequest
           /\ HavingRead(q).op = keyReq[q].op /\ HavingRead(q).k = keyReq[q].k
           /\ HavingRead(q).arg = keyReq[q].arg
           /\ HavingRead(q).stage = "read"
           /\ HavingRead(q).row = key[keyReq[q].k]
           /\ HavingRead(q).user = owner[Owner[keyReq[q].k]]
           /\ HavingRead(q).sent = keyReq[q].sent
           /\ HavingRead(q).heard = keyReq[q].heard
  <1> DEFINE read == Snapshot(keyReq[q].op, keyReq[q].k, keyReq[q].arg, "read")
  <1>1. read \in KeyRequest /\ keyReq[q].sent \in Nat /\ keyReq[q].heard \in BOOLEAN
    BY BusyCarries, SnapshotType DEF KeysInv, KeyStages
  <1>2. /\ read.op = keyReq[q].op /\ read.k = keyReq[q].k
        /\ read.arg = keyReq[q].arg /\ read.stage = "read"
        /\ read.row = key[keyReq[q].k]
        /\ read.user = owner[Owner[keyReq[q].k]]
    BY DEF Snapshot
  <1>3. HavingRead(q) = [read EXCEPT !.sent = keyReq[q].sent,
                                     !.heard = keyReq[q].heard]
    BY DEF HavingRead
  <1> HIDE DEF read
  <1>4. QED
    BY <1>1, <1>2, <1>3 DEF KeyRequest

LEMMA ReadKeyKeeps ==
    ASSUME KeysAssumption, KeysInv, NEW q \in KeyRequests, ReadKey(q)
    PROVE  KeysInv'
  <1>1. /\ Busy(q) /\ keyReq[q].stage = "sent"
        /\ keyReq' = [keyReq EXCEPT ![q] = HavingRead(q)]
        /\ UNCHANGED <<key, owner, cache, clock, issued, seen>>
    BY DEF ReadKey, HavingRead
  <1>2. keyReq[q].op = "validate"
    BY <1>1 DEF KeysInv, Requested
  <1>3. Follows(HavingRead(q), keyReq[q])
    BY <1>1, <1>2, HavingReadType DEF Follows
  <1>4. StoredStay
    BY <1>1 DEF StoredStay
  <1>5. Requested' /\ keyReq' \in [KeyRequests -> KeyRequest \cup {KeyIdle}]
    BY <1>1, <1>3, <1>4, RequestedAfter
  <1>6. QED
    BY <1>1, <1>5 DEF KeysInv, KeysTypeOK

LEMMA CacheAnswerKeeps ==
    ASSUME KeysAssumption, KeysInv, NEW q \in KeyRequests, CacheAnswer(q)
    PROVE  KeysInv'
  <1>1. /\ Busy(q) /\ Follows(KeyIdle, keyReq[q])
        /\ keyReq' = [keyReq EXCEPT ![q] = KeyIdle]
        /\ UNCHANGED <<key, owner, clock, issued>> /\ Observe
    BY DEF CacheAnswer, End, Follows
  <1>2. StoredStay
    BY <1>1 DEF StoredStay
  <1>3. Requested' /\ keyReq' \in [KeyRequests -> KeyRequest \cup {KeyIdle}]
    BY <1>1, <1>2, RequestedAfter
  <1>4. seen' \in [Keys -> [BOOLEAN -> Int]]
    BY <1>1, ObserveType DEF KeysInv, KeysTypeOK
  <1>5. cache' \in [Keys -> [until : Nat, funded : BOOLEAN]]
    <2>1. [until |-> clock + KeyTTL, funded |-> keyReq[q].user.funded]
             \in [until : Nat, funded : BOOLEAN]
      <3>1. keyReq[q].user \in OwnerRow /\ clock \in Nat
        BY <1>1, BusyCarries DEF KeysInv, KeysTypeOK
      <3>2. QED
        BY <3>1 DEF OwnerRow, KeysAssumption
    <2>2. QED
      BY <2>1 DEF CacheAnswer, KeysInv, KeysTypeOK
  <1>6. QED
    BY <1>1, <1>3, <1>4, <1>5 DEF KeysInv, KeysTypeOK

LEMMA GiveUpKeeps ==
    ASSUME KeysInv, NEW q \in KeyRequests, GiveUp(q)
    PROVE  KeysInv'
  <1> DEFINE unheard == [keyReq[q] EXCEPT !.heard = FALSE]
  <1>1. /\ Busy(q) /\ keyReq[q].op = "validate" /\ keyReq[q] \in KeyRequest
        /\ UNCHANGED <<key, owner, cache, clock, issued, seen>>
    BY BusyCarries DEF GiveUp, Awaited, KeysInv
  <1>2. PICK to \in {unheard, KeyIdle} : keyReq' = [keyReq EXCEPT ![q] = to]
    BY DEF GiveUp
  <1>3. /\ unheard \in KeyRequest /\ unheard.op = keyReq[q].op
        /\ unheard.k = keyReq[q].k /\ unheard.arg = keyReq[q].arg
    BY <1>1 DEF KeyRequest
  <1> HIDE DEF unheard
  <1>4. Follows(to, keyReq[q])
    BY <1>1, <1>2, <1>3 DEF Follows
  <1>5. StoredStay
    BY <1>1 DEF StoredStay
  <1>6. Requested' /\ keyReq' \in [KeyRequests -> KeyRequest \cup {KeyIdle}]
    BY <1>1, <1>2, <1>4, <1>5, RequestedAfter
  <1>7. QED
    BY <1>1, <1>6 DEF KeysInv, KeysTypeOK

(* Other writers of keys: they revive none. *)
LEMMA BillEffect ==
    ASSUME KeysInv, NEW k \in Keys, Bill(k)
    PROVE  /\ key' \in [Keys -> KeyRow] /\ StoredStay
           /\ \A p \in Keys : key'[p].status = key[p].status
  <1>1. key' = [key EXCEPT ![k] = BilledRow(@)] /\ key[k] \in KeyRow
    BY DEF Bill, BilledRow, KeysInv, KeysTypeOK
  <1>2. key'[k] = BilledRow(key[k]) /\ \A p \in Keys : p # k => key'[p] = key[p]
    BY <1>1 DEF KeysInv, KeysTypeOK
  <1>3. /\ BilledRow(key[k]) \in KeyRow
        /\ BilledRow(key[k]).status = key[k].status
        /\ BilledRow(key[k]).stored = key[k].stored
    BY <1>1, BilledRows
  <1>4. key[k].stored = "yes"
    BY DEF Bill, Live
  <1>5. key' \in [Keys -> KeyRow]
    BY <1>1, <1>3 DEF KeysInv, KeysTypeOK
  <1>6. StoredStay /\ \A p \in Keys : key'[p].status = key[p].status
    BY <1>2, <1>3, <1>4 DEF StoredStay
  <1>7. QED
    BY <1>5, <1>6

LEMMA SetUserStatusEffect ==
    ASSUME KeysInv, NEW u \in KeyUsers, NEW on \in BOOLEAN, SetUserStatus(u, on)
    PROVE  /\ key' \in [Keys -> KeyRow] /\ StoredStay
           /\ \A k \in Keys : key[k].status = "disabled"
                                 => key'[k].status = "disabled"
  <1>1. key' = [k \in Keys |->
                  IF ~on /\ Owner[k] = u /\ Live(key[k])
                     /\ key[k].status = "active"
                  THEN StatusRow(key[k], "disabled") ELSE key[k]]
    BY DEF SetUserStatus, StatusRow
  <1>2. \A k \in Keys :
           \/ key'[k] = key[k]
           \/ key'[k] = StatusRow(key[k], "disabled") /\ key[k].stored = "yes"
    BY <1>1 DEF Live
  <1>3. \A k \in Keys : key[k] \in KeyRow
    BY DEF KeysInv, KeysTypeOK
  <1>4. \A k \in Keys : /\ StatusRow(key[k], "disabled") \in KeyRow
                        /\ StatusRow(key[k], "disabled").status = "disabled"
                        /\ StatusRow(key[k], "disabled").stored = key[k].stored
    BY <1>3, StatusRows DEF Statuses
  <1>5. key' \in [Keys -> KeyRow]
    <2>1. \A k \in Keys : key'[k] \in KeyRow
      BY <1>2, <1>3, <1>4
    <2>2. QED
      BY <1>1, <2>1
  <1>6. QED
    BY <1>2, <1>4, <1>5 DEF StoredStay

LEMMA QuietKeeps ==
    ASSUME KeysAssumption, KeysInv,
           \/ \E k \in Keys : Bill(k) \/ CacheHit(k)
           \/ \E u \in KeyUsers : Fund(u) \/ \E on \in BOOLEAN : SetUserStatus(u, on)
           \/ Tick
           \/ UNCHANGED keyVars
    PROVE  KeysInv'
  <1>1. CASE (\E k \in Keys : CacheHit(k)) \/ UNCHANGED keyVars
    BY <1>1 DEF CacheHit, keyVars, KeysInv, KeysTypeOK, Requested, Busy
  <1>2. ASSUME UNCHANGED <<keyReq, cache>>, Observe,
               key' \in [Keys -> KeyRow], StoredStay,
               owner' \in [KeyUsers -> OwnerRow],
               clock' \in 0..KeyHorizon, issued' \in 0..KeyBudget
        PROVE  KeysInv'
    <2>1. seen' \in [Keys -> [BOOLEAN -> Int]]
      BY <1>2, ObserveType DEF KeysInv
    <2>2. \A k \in Keys : /\ key[k].stored # "no" => key'[k].stored # "no"
                          /\ key'[k].stored = "no" => key'[k].status # "disabled"
      BY <1>2 DEF StoredStay, KeysInv, Requested
    <2>3. \A r \in KeyRequests : Busy(r) => keyReq[r].k \in Keys
      BY BusyCarries DEF KeysInv
    <2>4. Requested'
      BY <1>2, <2>2, <2>3 DEF KeysInv, Requested, Busy
    <2>5. QED
      BY <1>2, <2>1, <2>4 DEF KeysInv, KeysTypeOK
  <1>3. Count => issued' \in 0..KeyBudget
    BY DEF Count, KeysInv, KeysTypeOK, KeysAssumption
  <1>4. ASSUME NEW k \in Keys, Bill(k)
        PROVE  KeysInv'
    <2>1. /\ UNCHANGED <<owner, keyReq, cache, clock>> /\ Observe
          /\ issued' \in 0..KeyBudget
      BY <1>3, <1>4 DEF Bill
    <2>2. QED
      BY <1>2, <1>4, <2>1, BillEffect DEF KeysInv, KeysTypeOK
  <1>5. ASSUME NEW u \in KeyUsers, NEW on \in BOOLEAN, SetUserStatus(u, on)
        PROVE  KeysInv'
    <2>1. /\ UNCHANGED <<keyReq, cache, clock>> /\ Observe
          /\ issued' \in 0..KeyBudget
          /\ owner' = [owner EXCEPT ![u].active = on]
      BY <1>3, <1>5 DEF SetUserStatus
    <2>2. owner' \in [KeyUsers -> OwnerRow]
      BY <2>1 DEF KeysInv, KeysTypeOK, OwnerRow
    <2>3. QED
      BY <1>2, <1>5, <2>1, <2>2, SetUserStatusEffect DEF KeysInv, KeysTypeOK
  <1>6. ASSUME NEW u \in KeyUsers, Fund(u)
        PROVE  KeysInv'
    <2>1. /\ UNCHANGED <<key, keyReq, cache, clock>> /\ Observe /\ StoredStay
          /\ issued' \in 0..KeyBudget
      BY <1>3, <1>6 DEF Fund, StoredStay
    <2>2. owner' \in [KeyUsers -> OwnerRow]
      BY <1>6 DEF Fund, KeysInv, KeysTypeOK, OwnerRow
    <2>3. QED
      BY <1>2, <2>1, <2>2 DEF KeysInv, KeysTypeOK
  <1>7. CASE Tick
    <2>1. /\ UNCHANGED <<key, owner, keyReq, cache, issued>> /\ Observe
          /\ StoredStay /\ clock' \in 0..KeyHorizon
      BY <1>7 DEF Tick, StoredStay, KeysInv, KeysTypeOK, KeysAssumption
    <2>2. QED
      BY <1>2, <2>1 DEF KeysInv, KeysTypeOK
  <1>8. QED
    BY <1>1, <1>4, <1>5, <1>6, <1>7

LEMMA KeysStep ==
    ASSUME KeysAssumption, KeysInv, [NextKeys]_keyVars
    PROVE  KeysInv'
  BY BeginsKeep, CommitKeeps, CreateKeeps, ReadKeyKeeps, CacheAnswerKeeps,
     GiveUpKeeps, QuietKeeps
  DEF NextKeys

(* The types of keys, requests, cache and clock. *)
THEOREM KeysTyped == KeysSpec => []KeysTypeOK
  <1>1. KeysInv => KeysTypeOK
    BY DEF KeysInv
  <1>2. QED
    BY <1>1, KeysInitially, KeysStep, KeysAssumption, PTL DEF KeysSpec

-----------------------------------------------------------------------------
(* Disabled keys. *)

LEMMA RevivedStep ==
    ASSUME KeysAssumption, KeysInv, NextKeys
    PROVE  RevivedKnowingly
  <1>1. (\A k \in Keys : key'[k].status = key[k].status) => RevivedKnowingly
    BY DEF RevivedKnowingly
  <1>2. UNCHANGED key => RevivedKnowingly
    BY <1>1
  <1>3. ASSUME NEW q \in KeyRequests,
               Update(q) \/ Disable(q) \/ Enable(q) \/ Delete(q) \/ Validate(q)
        PROVE  RevivedKnowingly
    BY <1>3, CommitEffect, CommitFollows
    DEF WritesKnowingly, Reviving, RevivedKnowingly
  <1>4. ASSUME NEW q \in KeyRequests, Create(q)
        PROVE  RevivedKnowingly
    <2>1. keyReq'[q] # keyReq[q]
      BY <1>4, CreateEffect DEF Busy, KeyIdle
    <2>2. QED
      BY <1>4, <2>1, CreateEffect DEF RevivedKnowingly
  <1>5. ASSUME NEW u \in KeyUsers, NEW on \in BOOLEAN, SetUserStatus(u, on)
        PROVE  RevivedKnowingly
    BY <1>5, SetUserStatusEffect DEF RevivedKnowingly
  <1>6. ASSUME NEW k \in Keys, Bill(k)
        PROVE  RevivedKnowingly
    BY <1>1, <1>6, BillEffect
  <1>7. QED
    BY <1>2, <1>3, <1>4, <1>5, <1>6
    DEF NextKeys, BeginCreate, BeginUpdate, BeginChange, BeginValidate, Begin,
        ReadKey, CacheAnswer, GiveUp, CacheHit, Fund, Tick, keyVars

(* A key that is disabled becomes anything else only by an enable, or by a  *)
(* request that read it before it was disabled, for any number of keys and  *)
(* requests: every refresh of a status starts from the row it read.         *)
THEOREM DisabledKeysStay == KeysSpec => DisabledStays
  <1>1. KeysInv /\ [NextKeys]_keyVars => [RevivedKnowingly]_keyVars
    BY RevivedStep, KeysAssumption
  <1>2. QED
    BY <1>1, KeysInitially, KeysStep, KeysAssumption, PTL
    DEF KeysSpec, DisabledStays

-----------------------------------------------------------------------------
(* How many keys a user has. *)

(* The creations under way that found room for one more key of u. *)
Creating(u) == {q \in KeyRequests : /\ Busy(q) /\ keyReq[q].op = "create"
                                    /\ keyReq[q].room
                                    /\ Owner[keyReq[q].k] = u}

(* A key and the creation that may become one count alike. *)
RoomKept ==
    \A u \in KeyUsers :
        Cardinality(LiveKeys(u)) + Cardinality(Creating(u))
            < MaxKeys + Cardinality(KeyRequests)

LEMMA CountsAreFinite ==
    ASSUME KeysAssumption, NEW u
    PROVE  /\ IsFiniteSet(LiveKeys(u)) /\ Cardinality(LiveKeys(u)) \in Nat
           /\ IsFiniteSet(LiveKeys(u)') /\ Cardinality(LiveKeys(u)') \in Nat
           /\ IsFiniteSet(Creating(u)) /\ Cardinality(Creating(u)) \in Nat
           /\ IsFiniteSet(Creating(u)') /\ Cardinality(Creating(u)') \in Nat
           /\ Cardinality(KeyRequests) \in Nat
           /\ Creating(u)' \subseteq KeyRequests
  <1>1. /\ LiveKeys(u) \subseteq Keys /\ LiveKeys(u)' \subseteq Keys
        /\ Creating(u) \subseteq KeyRequests
        /\ Creating(u)' \subseteq KeyRequests
    BY DEF LiveKeys, Creating
  <1>2. IsFiniteSet(Keys) /\ IsFiniteSet(KeyRequests)
    BY DEF KeysAssumption
  <1>3. QED
    BY <1>1, <1>2, FS_Subset, FS_CardinalityType

LEMMA FewerKeepRoom ==
    ASSUME KeysAssumption, RoomKept,
           \A u \in KeyUsers : /\ LiveKeys(u)' \subseteq LiveKeys(u)
                               /\ Creating(u)' \subseteq Creating(u)
    PROVE  RoomKept'
  <1> SUFFICES ASSUME NEW u \in KeyUsers
               PROVE  Cardinality(LiveKeys(u)') + Cardinality(Creating(u)')
                         < MaxKeys + Cardinality(KeyRequests)
    BY DEF RoomKept
  <1>1. /\ Cardinality(LiveKeys(u)') <= Cardinality(LiveKeys(u))
        /\ Cardinality(Creating(u)') <= Cardinality(Creating(u))
    BY CountsAreFinite, FS_Subset
  <1>2. QED
    BY <1>1, CountsAreFinite DEF RoomKept, KeysAssumption

LEMMA RoomInitially ==
    KeysAssumption /\ KeysInit => RoomKept
  <1> SUFFICES ASSUME KeysAssumption, KeysInit, NEW u \in KeyUsers
               PROVE  Cardinality(LiveKeys(u)) + Cardinality(Creating(u))
                         < MaxKeys + Cardinality(KeyRequests)
    BY DEF RoomKept
  <1>1. Creating(u) = {}
    BY DEF KeysInit, Creating, Busy, KeyIdle
  <1>2. Cardinality(Creating(u)) = 0
    BY <1>1, FS_EmptySet
  <1>3. Cardinality(LiveKeys(u)) <= MaxKeys
    BY DEF KeysInit
  <1>4. Cardinality(KeyRequests) # 0
    BY FS_EmptySet DEF KeysAssumption
  <1>5. QED
    BY <1>2, <1>3, <1>4, CountsAreFinite DEF KeysAssumption

(* A creation that begins with room found fewer than MaxKeys keys, and at   *)
(* most every request is a creation then.                                   *)
LEMMA BeginKeepsRoom ==
    ASSUME KeysAssumption, KeysInv, RoomKept, NEW q \in KeyRequests,
           NEW k \in Keys, NEW op, NEW arg, NEW stage,
           Begin(q, op, k, arg, stage)
    PROVE  RoomKept'
  <1> SUFFICES ASSUME NEW u \in KeyUsers
               PROVE  Cardinality(LiveKeys(u)') + Cardinality(Creating(u)')
                         < MaxKeys + Cardinality(KeyRequests)
    BY DEF RoomKept
  <1> DEFINE new == Snapshot(op, k, arg, stage)
  <1>1. keyReq' = [keyReq EXCEPT ![q] = new] /\ UNCHANGED key
    BY DEF Begin
  <1>2. /\ new.k = k
        /\ new.room => Cardinality(LiveKeys(Owner[k])) < MaxKeys
    BY DEF Snapshot
  <1> HIDE DEF new
  <1>3. /\ keyReq'[q] = new
        /\ \A r \in KeyRequests : r # q => keyReq'[r] = keyReq[r]
    BY <1>1 DEF KeysInv, KeysTypeOK
  <1>4. LiveKeys(u)' = LiveKeys(u)
    BY <1>1 DEF LiveKeys, Live
  <1>5. CASE q \in Creating(u)'
    <2>1. Cardinality(LiveKeys(u)) < MaxKeys
      BY <1>2, <1>3, <1>5 DEF Creating
    <2>2. Cardinality(Creating(u)') <= Cardinality(KeyRequests)
      BY CountsAreFinite, FS_Subset DEF KeysAssumption
    <2>3. QED
      BY <1>4, <2>1, <2>2, CountsAreFinite DEF KeysAssumption
  <1>6. CASE q \notin Creating(u)'
    <2>1. Creating(u)' \subseteq Creating(u)
      BY <1>3, <1>6 DEF Creating, Busy
    <2>2. Cardinality(Creating(u)') <= Cardinality(Creating(u))
      BY <2>1, CountsAreFinite, FS_Subset
    <2>3. QED
      BY <1>4, <2>2, CountsAreFinite DEF KeysAssumption, RoomKept
  <1>7. QED
    BY <1>5, <1>6

(* A creation that commits gives a key for itself. *)
LEMMA CreateKeepsRoom ==
    ASSUME KeysAssumption, KeysInv, RoomKept, NEW q \in KeyRequests, Create(q)
    PROVE  RoomKept'
  <1> SUFFICES ASSUME NEW u \in KeyUsers
               PROVE  Cardinality(LiveKeys(u)') + Cardinality(Creating(u)')
                         < MaxKeys + Cardinality(KeyRequests)
    BY DEF RoomKept
  <1>1. Creating(u)' = Creating(u) \ {q}
    BY CreateEffect DEF Creating, Busy, KeyIdle
  <1>2. CASE LiveKeys(u)' \subseteq LiveKeys(u)
    <2>1. /\ Cardinality(LiveKeys(u)') <= Cardinality(LiveKeys(u))
          /\ Cardinality(Creating(u)') <= Cardinality(Creating(u))
      BY <1>1, <1>2, CountsAreFinite, FS_Subset
    <2>2. QED
      BY <2>1, CountsAreFinite DEF RoomKept, KeysAssumption
  <1>3. CASE ~(LiveKeys(u)' \subseteq LiveKeys(u))
    <2>1. PICK k \in Keys : k \in LiveKeys(u)' /\ k \notin LiveKeys(u)
      BY <1>3 DEF LiveKeys
    <2>2. k = keyReq[q].k /\ keyReq[q].room /\ Owner[k] = u
      BY <2>1, CreateEffect DEF LiveKeys, Live
    <2>3. q \in Creating(u)
      BY <2>2, CreateEffect DEF Creating
    <2>4. LiveKeys(u)' \subseteq LiveKeys(u) \cup {k}
      BY <2>2, CreateEffect DEF LiveKeys, Live
    <2>5. Cardinality(Creating(u)') = Cardinality(Creating(u)) - 1
      BY <1>1, <2>3, CountsAreFinite, FS_RemoveElement
    <2>6. /\ IsFiniteSet(LiveKeys(u) \cup {k})
          /\ Cardinality(LiveKeys(u) \cup {k}) \in Nat
          /\ Cardinality(LiveKeys(u) \cup {k}) <= Cardinality(LiveKeys(u)) + 1
      BY CountsAreFinite, OneMore
    <2>7. Cardinality(LiveKeys(u)') <= Cardinality(LiveKeys(u) \cup {k})
      BY <2>4, <2>6, FS_Subset
    <2>8. QED
      BY <2>5, <2>6, <2>7, CountsAreFinite DEF RoomKept, KeysAssumption
  <1>4. QED
    BY <1>2, <1>3

(* The other requests create nothing. *)
LEMMA OthersKeepRoom ==
    ASSUME KeysAssumption, KeysInv, RoomKept, StoredStay,
           \A q \in KeyRequests :
              keyReq'[q].op = "create" => keyReq'[q] = keyReq[q]
    PROVE  RoomKept'
  <1>1. \A u \in KeyUsers : LiveKeys(u)' \subseteq LiveKeys(u)
    <2>1. \A k \in Keys : key'[k].stored = "yes" => key[k].stored = "yes"
      BY DEF StoredStay
    <2>2. QED
      BY <2>1 DEF LiveKeys, Live
  <1>2. \A u \in KeyUsers : Creating(u)' \subseteq Creating(u)
    BY DEF Creating, Busy
  <1>3. QED
    BY <1>1, <1>2, FewerKeepRoom

LEMMA RoomStep ==
    ASSUME KeysAssumption, KeysInv, RoomKept, [NextKeys]_keyVars
    PROVE  RoomKept'
  <1>1. ASSUME NEW q \in KeyRequests, NEW k \in Keys,
               \/ \E l \in Limits, e \in Expiries : BeginCreate(q, k, l, e)
               \/ \E patch \in Patches : BeginUpdate(q, k, patch)
               \/ \E op \in {"disable", "enable", "delete"} :
                     BeginChange(q, k, op)
               \/ BeginValidate(q, k)
        PROVE  RoomKept'
    BY <1>1, BeginKeepsRoom
    DEF BeginCreate, BeginUpdate, BeginChange, BeginValidate
  <1>2. ASSUME NEW q \in KeyRequests, NEW to, StoredStay,
               keyReq' = [keyReq EXCEPT ![q] = to], to.op # "create"
        PROVE  RoomKept'
    <2>1. /\ keyReq'[q] = to
          /\ \A r \in KeyRequests : r # q => keyReq'[r] = keyReq[r]
      BY <1>2 DEF KeysInv, KeysTypeOK
    <2>2. QED
      BY <1>2, <2>1, OthersKeepRoom
  <1>3. UNCHANGED key => StoredStay
    BY DEF StoredStay
  <1>4. ASSUME StoredStay, UNCHANGED keyReq
        PROVE  RoomKept'
    BY <1>4, OthersKeepRoom
  <1>5. ASSUME NEW q \in KeyRequests,
               Update(q) \/ Disable(q) \/ Enable(q) \/ Delete(q) \/ Validate(q)
        PROVE  RoomKept'
    <2>1. PICK to : /\ keyReq' = [keyReq EXCEPT ![q] = to]
                    /\ Follows(to, keyReq[q])
      BY <1>5, CommitFollows
    <2>2. keyReq[q].op # "create"
      BY <1>5 DEF Update, Disable, Enable, Delete, Validate, Doing
    <2>3. to.op # "create"
      BY <2>1, <2>2 DEF Follows, KeyIdle
    <2>4. StoredStay
      BY <1>5, CommitEffect DEF WritesKnowingly
    <2>5. QED
      BY <1>2, <2>1, <2>3, <2>4
  <1>6. ASSUME NEW q \in KeyRequests, ReadKey(q)
        PROVE  RoomKept'
    <2>1. /\ Busy(q) /\ keyReq[q].stage = "sent" /\ UNCHANGED key
          /\ keyReq' = [keyReq EXCEPT ![q] = HavingRead(q)]
      BY <1>6 DEF ReadKey, HavingRead
    <2>2. HavingRead(q).op = "validate"
      BY <2>1, HavingReadType DEF KeysInv, Requested
    <2>3. QED
      BY <1>2, <1>3, <2>1, <2>2
  <1>7. ASSUME NEW q \in KeyRequests, CacheAnswer(q)
        PROVE  RoomKept'
    <2>1. keyReq' = [keyReq EXCEPT ![q] = KeyIdle] /\ UNCHANGED key
      BY <1>7 DEF CacheAnswer, End
    <2>2. KeyIdle.op # "create"
      BY DEF KeyIdle
    <2>3. QED
      BY <1>2, <1>3, <2>1, <2>2
  <1>8. ASSUME NEW q \in KeyRequests, GiveUp(q)
        PROVE  RoomKept'
    <2> DEFINE unheard == [keyReq[q] EXCEPT !.heard = FALSE]
    <2>1. /\ keyReq' = [keyReq EXCEPT ![q] = unheard]
             \/ keyReq' = [keyReq EXCEPT ![q] = KeyIdle]
          /\ UNCHANGED key /\ Busy(q) /\ keyReq[q].op = "validate"
      BY <1>8 DEF GiveUp, Awaited
    <2>2. unheard.op # "create"
      <3>1. keyReq[q] \in KeyRequest
        BY <2>1, BusyCarries DEF KeysInv
      <3>2. QED
        BY <2>1, <3>1 DEF KeyRequest
    <2> HIDE DEF unheard
    <2>3. QED
      BY <1>2, <1>3, <2>1, <2>2 DEF KeyIdle
  <1>9. ASSUME NEW k \in Keys, Bill(k)
        PROVE  RoomKept'
    BY <1>4, <1>9, BillEffect DEF Bill
  <1>10. ASSUME NEW u \in KeyUsers, NEW on \in BOOLEAN, SetUserStatus(u, on)
         PROVE  RoomKept'
    BY <1>4, <1>10, SetUserStatusEffect DEF SetUserStatus
  <1>11. ASSUME UNCHANGED <<key, keyReq>>
         PROVE  RoomKept'
    BY <1>3, <1>4, <1>11
  <1>12. QED
    BY <1>1, <1>5, <1>6, <1>7, <1>8, <1>9, <1>10, <1>11, CreateKeepsRoom
    DEF NextKeys, CacheHit, Fund, Tick, keyVars

(* For any number of requests: a user's keys pass MAX_API_KEYS_PER_USER by  *)
(* less than the number of requests served at a time, because a creation    *)
(* under way that found room counts as the key it may become.               *)
THEOREM KeysAreBounded == KeysSpec => []KeysBounded
  <1>1. RoomKept => KeysBounded
    BY CountsAreFinite, KeysAssumption DEF RoomKept, KeysBounded
  <1>2. QED
    BY <1>1, KeysInitially, KeysStep, RoomInitially, RoomStep,
       KeysAssumption, PTL
    DEF KeysSpec

-----------------------------------------------------------------------------
(* What the router has cached. *)

(* A key that is usable now was last usable now, and never later. *)
SeenNow ==
    \A k \in Keys, f \in BOOLEAN :
        /\ seen[k][f] <= clock
        /\ Usable(k, clock) /\ owner[Owner[k]].funded = f => seen[k][f] = clock

(* The router waits no longer than KeyTimeout for an answer; an answer that *)
(* lets it pass, or the reading that may become one, is of a time after the *)
(* question.                                                                *)
Accepting(q) ==
    LET r == keyReq[q] IN
    \/ r.stage = "accepted"
    \/ /\ r.stage = "read" /\ Live(r.row) /\ r.user.active
       /\ Refreshed(r.row, clock).status = "active"

AnswerRecent(q) ==
    Busy(q) /\ keyReq[q].op = "validate" =>
        /\ keyReq[q].sent <= clock
        /\ keyReq[q].heard => clock - keyReq[q].sent <= KeyTimeout
        /\ keyReq[q].stage = "accepted" => keyReq[q].heard
        /\ Accepting(q) =>
              keyReq[q].sent <= seen[keyReq[q].k][keyReq[q].user.funded]

AnswersRecent == \A q \in KeyRequests : AnswerRecent(q)

(* An entry is as old as the time it has left says. *)
EntriesRecent ==
    \A k \in Keys : cache[k].until > 0 =>
        /\ seen[k][cache[k].funded] >= 0
        /\ cache[k].until - seen[k][cache[k].funded] <= KeyTTL + KeyTimeout

RecentInv == SeenNow /\ AnswersRecent /\ EntriesRecent

LEMMA RecentInitially == KeysAssumption /\ KeysInit => RecentInv
  <1> SUFFICES ASSUME KeysAssumption, KeysInit PROVE RecentInv
    OBVIOUS
  <1>1. /\ clock = 0 /\ \A q \in KeyRequests : ~Busy(q)
        /\ \A k \in Keys : cache[k].until = 0 /\ owner[Owner[k]].funded = TRUE
        /\ \A k \in Keys, f \in BOOLEAN :
              seen[k][f] = IF Usable(k, 0) /\ f THEN 0 ELSE -1
    BY DEF KeysInit, Busy, KeyIdle, NoEntry, KeysAssumption
  <1>2. SeenNow
    BY <1>1 DEF SeenNow
  <1>3. AnswersRecent /\ EntriesRecent
    BY <1>1 DEF AnswersRecent, AnswerRecent, EntriesRecent
  <1>4. QED
    BY <1>2, <1>3 DEF RecentInv

(* Observing keeps SeenNow, and what was seen is not forgotten. *)
LEMMA ObserveSees ==
    ASSUME KeysInv, SeenNow, clock' \in Nat, clock' >= clock,
           Observe \/ UNCHANGED <<key, owner, clock, seen>>
    PROVE  /\ SeenNow'
           /\ \A k \in Keys, f \in BOOLEAN : /\ seen'[k][f] >= seen[k][f]
                                             /\ seen'[k][f] \in Int
  <1>1. /\ clock \in Nat
        /\ \A k \in Keys, f \in BOOLEAN :
              seen[k][f] \in Int /\ seen[k][f] <= clock
    BY DEF KeysInv, KeysTypeOK, SeenNow
  <1>2. CASE Observe
    <2>1. \A k \in Keys, f \in BOOLEAN :
             seen'[k][f] = IF Usable(k, clock)' /\ owner'[Owner[k]].funded = f
                           THEN clock' ELSE seen[k][f]
      BY <1>2 DEF Observe
    <2>2. QED
      BY <1>1, <2>1 DEF SeenNow
  <1>3. CASE UNCHANGED <<key, owner, clock, seen>>
    BY <1>1, <1>3 DEF SeenNow, Usable, Live
  <1>4. QED
    BY <1>2, <1>3

LEMMA EntriesKept ==
    ASSUME KeysInv, KeysAssumption, EntriesRecent, UNCHANGED cache,
           \A k \in Keys, f \in BOOLEAN : /\ seen'[k][f] >= seen[k][f]
                                          /\ seen'[k][f] \in Int
    PROVE  EntriesRecent'
  <1>1. \A k \in Keys : /\ cache[k].until \in Nat /\ cache[k].funded \in BOOLEAN
                        /\ seen[k][cache[k].funded] \in Int
    BY DEF KeysInv, KeysTypeOK
  <1>2. QED
    BY <1>1 DEF EntriesRecent, KeysAssumption

(* A request is no less recent for what others do, as long as the router's  *)
(* patience is not at its end.                                              *)
LEMMA AnswerKept ==
    ASSUME KeysInv, KeysAssumption, AnswersRecent, NEW q \in KeyRequests,
           keyReq'[q] = keyReq[q], clock' \in Nat, clock' >= clock,
           Awaited(q) => clock' - keyReq[q].sent <= KeyTimeout,
           \A k \in Keys, f \in BOOLEAN : /\ seen'[k][f] >= seen[k][f]
                                          /\ seen'[k][f] \in Int
    PROVE  AnswerRecent(q)'
  <1> SUFFICES ASSUME Busy(q), keyReq[q].op = "validate"
               PROVE  AnswerRecent(q)'
    BY DEF AnswerRecent, Busy
  <1>1. /\ keyReq[q].k \in Keys /\ keyReq[q].row \in KeyRow
        /\ keyReq[q].user.funded \in BOOLEAN /\ keyReq[q].sent \in Nat
        /\ clock \in Nat
    BY BusyCarries DEF KeysInv, KeysTypeOK, OwnerRow
  <1>2. Accepting(q)' => Accepting(q)
    <2>1. Refreshed(keyReq[q].row, clock').status = "active"
             => Refreshed(keyReq[q].row, clock).status = "active"
      <3>1. keyReq[q].row.expires \in Nat
        BY <1>1 DEF KeyRow
      <3>2. keyReq[q].row.expires > clock' => keyReq[q].row.expires > clock
        BY <1>1, <3>1
      <3>3. (Refreshed(keyReq[q].row, clock').status = "active"
                <=> /\ keyReq[q].row.status # "disabled"
                    /\ keyReq[q].row.expires > clock'
                    /\ ~Exhausted(keyReq[q].row))
        BY <1>1, RefreshedRows, ZenonT(40)
      <3>4. (Refreshed(keyReq[q].row, clock).status = "active"
                <=> /\ keyReq[q].row.status # "disabled"
                    /\ keyReq[q].row.expires > clock
                    /\ ~Exhausted(keyReq[q].row))
        BY <1>1, RefreshedRows, ZenonT(40)
      <3>5. QED
        BY <3>2, <3>3, <3>4
    <2>2. QED
      BY <2>1 DEF Accepting, Live
  <1>3. seen[keyReq[q].k][keyReq[q].user.funded] \in Int
    BY <1>1 DEF KeysInv, KeysTypeOK
  <1>4. AnswerRecent(q)
    BY DEF AnswersRecent
  <1>5. QED
    BY <1>1, <1>2, <1>3, <1>4 DEF AnswerRecent, Awaited, Busy

(* A step that changes one request and leaves the clock and the cache. *)
LEMMA RequestKeepsRecent ==
    ASSUME KeysInv, KeysAssumption, RecentInv, NEW q \in KeyRequests, NEW to,
           keyReq' = [keyReq EXCEPT ![q] = to], UNCHANGED <<clock, cache>>,
           Observe \/ UNCHANGED <<key, owner, clock, seen>>,
           AnswerRecent(q)'
    PROVE  RecentInv'
  <1>1. clock \in Nat /\ clock' >= clock
    BY DEF KeysInv, KeysTypeOK
  <1>2. /\ SeenNow'
        /\ \A k \in Keys, f \in BOOLEAN : /\ seen'[k][f] >= seen[k][f]
                                          /\ seen'[k][f] \in Int
    BY <1>1, ObserveSees DEF RecentInv
  <1>3. EntriesRecent'
    BY <1>2, EntriesKept DEF RecentInv
  <1>4. ASSUME NEW r \in KeyRequests, r # q
        PROVE  AnswerRecent(r)'
    <2>1. keyReq'[r] = keyReq[r]
      BY <1>4 DEF KeysInv, KeysTypeOK
    <2>2. Awaited(r) => clock' - keyReq[r].sent <= KeyTimeout
      BY DEF RecentInv, AnswersRecent, AnswerRecent, Awaited
    <2>3. QED
      BY <1>1, <1>2, <2>1, <2>2, AnswerKept DEF RecentInv
  <1>5. AnswersRecent'
    BY <1>4 DEF AnswersRecent
  <1>6. QED
    BY <1>2, <1>3, <1>5 DEF RecentInv

(* A step that changes no request and leaves the cache. *)
LEMMA OthersKeepRecent ==
    ASSUME KeysInv, KeysAssumption, RecentInv, UNCHANGED <<keyReq, cache>>,
           clock' \in Nat, clock' >= clock,
           \A q \in KeyRequests :
              Awaited(q) => clock' - keyReq[q].sent <= KeyTimeout,
           Observe \/ UNCHANGED <<key, owner, clock, seen>>
    PROVE  RecentInv'
  <1>1. /\ SeenNow'
        /\ \A k \in Keys, f \in BOOLEAN : /\ seen'[k][f] >= seen[k][f]
                                          /\ seen'[k][f] \in Int
    BY ObserveSees DEF RecentInv
  <1>2. EntriesRecent'
    BY <1>1, EntriesKept DEF RecentInv
  <1>3. AnswersRecent'
    BY <1>1, AnswerKept DEF AnswersRecent, RecentInv
  <1>4. QED
    BY <1>1, <1>2, <1>3 DEF RecentInv

LEMMA BeginsStayRecent ==
    ASSUME KeysInv, KeysAssumption, RecentInv, NEW q \in KeyRequests,
           NEW k \in Keys, NEW op, NEW arg, NEW stage,
           Begin(q, op, k, arg, stage), op # "validate" \/ stage = "sent"
    PROVE  RecentInv'
  <1> DEFINE snapshot == Snapshot(op, k, arg, stage)
  <1>1. /\ keyReq' = [keyReq EXCEPT ![q] = snapshot]
        /\ UNCHANGED <<key, owner, cache, clock, seen>>
    BY DEF Begin
  <1>2. /\ snapshot.op = op /\ snapshot.stage = stage
        /\ snapshot.sent = clock /\ snapshot.heard
    BY DEF Snapshot
  <1> HIDE DEF snapshot
  <1>3. keyReq'[q] = snapshot /\ clock \in Nat
    BY <1>1 DEF KeysInv, KeysTypeOK
  <1>4. AnswerRecent(q)'
    BY <1>1, <1>2, <1>3 DEF AnswerRecent, Accepting, KeysAssumption
  <1>5. QED
    BY <1>1, <1>4, RequestKeepsRecent

(* What is read of a usable key was seen at that moment. *)
LEMMA ReadingStaysRecent ==
    ASSUME KeysInv, KeysAssumption, RecentInv, NEW q \in KeyRequests,
           ReadKey(q)
    PROVE  RecentInv'
  <1> DEFINE k == keyReq[q].k
  <1>1. /\ Busy(q) /\ keyReq[q].op = "validate" /\ keyReq[q].stage = "sent"
        /\ keyReq' = [keyReq EXCEPT ![q] = HavingRead(q)]
        /\ UNCHANGED <<key, owner, cache, clock, seen>>
    BY DEF ReadKey, HavingRead, KeysInv, Requested
  <1>2. /\ HavingRead(q).op = "validate" /\ HavingRead(q).k = k
        /\ HavingRead(q).row = key[k] /\ HavingRead(q).user = owner[Owner[k]]
        /\ HavingRead(q).sent = keyReq[q].sent
        /\ HavingRead(q).heard = keyReq[q].heard
        /\ HavingRead(q).stage = "read"
    BY <1>1 DEF HavingRead, Snapshot
  <1>3. keyReq'[q] = HavingRead(q)
    BY <1>1 DEF KeysInv, KeysTypeOK
  <1>4. /\ keyReq[q].sent <= clock
        /\ keyReq[q].heard => clock - keyReq[q].sent <= KeyTimeout
    BY <1>1 DEF RecentInv, AnswersRecent, AnswerRecent
  <1>5. k \in Keys /\ owner[Owner[k]].funded \in BOOLEAN
    BY <1>1, BusyCarries DEF KeysInv, KeysTypeOK, OwnerRow, KeysAssumption
  <1>6. Accepting(q)' => Usable(k, clock)
    BY <1>1, <1>2, <1>3 DEF Accepting, Usable, Live
  <1>7. Accepting(q)' => seen[k][owner[Owner[k]].funded] = clock
    BY <1>5, <1>6 DEF RecentInv, SeenNow
  <1>8. AnswerRecent(q)'
    BY <1>1, <1>2, <1>3, <1>4, <1>7 DEF AnswerRecent
  <1>9. QED
    BY <1>1, <1>8, RequestKeepsRecent

(* A validation accepts only what was accepting before. *)
LEMMA ValidateStaysRecent ==
    ASSUME KeysInv, KeysAssumption, RecentInv, NEW q \in KeyRequests,
           Validate(q)
    PROVE  RecentInv'
  <1> DEFINE accepted == [keyReq[q] EXCEPT !.stage = "accepted"]
             refused == [keyReq[q] EXCEPT !.stage = "refused"]
  <1>1. /\ Busy(q) /\ keyReq[q].op = "validate" /\ keyReq[q].stage = "read"
        /\ UNCHANGED <<owner, cache, clock>> /\ Observe
    BY DEF Validate, Doing, Rest
  <1>2. keyReq[q] \in KeyRequest /\ clock \in Nat
    BY <1>1, BusyCarries DEF KeysInv, KeysTypeOK
  <1>3. /\ accepted.op = "validate" /\ accepted.stage = "accepted"
        /\ accepted.k = keyReq[q].k /\ accepted.user = keyReq[q].user
        /\ accepted.sent = keyReq[q].sent /\ accepted.heard = keyReq[q].heard
        /\ accepted.row = keyReq[q].row
    BY <1>1, <1>2 DEF KeyRequest
  <1>4. /\ refused.op = "validate" /\ refused.stage = "refused"
        /\ refused.sent = keyReq[q].sent /\ refused.heard = keyReq[q].heard
    BY <1>1, <1>2 DEF KeyRequest
  <1>5. \/ keyReq' = [keyReq EXCEPT ![q] = KeyIdle]
        \/ keyReq' = [keyReq EXCEPT ![q] = refused]
        \/ /\ keyReq' = [keyReq EXCEPT ![q] = accepted]
           /\ keyReq[q].heard /\ Accepting(q)
    BY <1>1 DEF Validate, Accepting
  <1>6. PICK to : /\ keyReq' = [keyReq EXCEPT ![q] = to]
                  /\ \/ to = KeyIdle \/ to = refused
                     \/ to = accepted /\ keyReq[q].heard /\ Accepting(q)
    BY <1>5
  <1> HIDE DEF accepted, refused
  <1>7. keyReq'[q] = to
    BY <1>6 DEF KeysInv, KeysTypeOK
  <1>8. AnswerRecent(q)
    BY DEF RecentInv, AnswersRecent
  <1>9. /\ keyReq[q].k \in Keys /\ keyReq[q].user.funded \in BOOLEAN
        /\ keyReq[q].sent \in Nat
    BY <1>1, BusyCarries DEF KeysInv, OwnerRow
  <1>10. /\ seen'[keyReq[q].k][keyReq[q].user.funded]
               >= seen[keyReq[q].k][keyReq[q].user.funded]
         /\ seen[keyReq[q].k][keyReq[q].user.funded] \in Int
         /\ seen'[keyReq[q].k][keyReq[q].user.funded] \in Int
    <2>1. clock' \in Nat /\ clock' >= clock
      BY <1>1, <1>2
    <2>2. QED
      BY <1>1, <1>9, <2>1, ObserveSees DEF RecentInv, KeysInv, KeysTypeOK
  <1>11. AnswerRecent(q)'
    <2>1. CASE to = KeyIdle
      BY <1>7, <2>1 DEF AnswerRecent, Busy, KeyIdle
    <2>2. CASE to = refused
      BY <1>1, <1>4, <1>7, <1>8, <2>2 DEF AnswerRecent, Accepting
    <2>3. CASE to = accepted /\ keyReq[q].heard /\ Accepting(q)
      <3>1. /\ keyReq[q].sent <= clock
            /\ clock - keyReq[q].sent <= KeyTimeout
            /\ keyReq[q].sent <= seen[keyReq[q].k][keyReq[q].user.funded]
        BY <1>1, <1>8, <2>3 DEF AnswerRecent
      <3>2. keyReq[q].sent <= seen'[keyReq[q].k][keyReq[q].user.funded]
        BY <1>9, <1>10, <3>1
      <3>3. /\ keyReq'[q].sent = keyReq[q].sent /\ keyReq'[q].heard
            /\ keyReq'[q].k = keyReq[q].k /\ keyReq'[q].user = keyReq[q].user
        BY <1>3, <1>7, <2>3
      <3>4. QED
        BY <1>1, <3>1, <3>2, <3>3 DEF AnswerRecent
    <2>4. QED
      BY <1>6, <2>1, <2>2, <2>3
  <1>12. QED
    BY <1>1, <1>6, <1>11, RequestKeepsRecent

(* Update, Disable, Enable, Delete and Create leave no validation behind. *)
LEMMA CommitStaysRecent ==
    ASSUME KeysInv, KeysAssumption, RecentInv, NEW q \in KeyRequests,
           End(q), Rest
    PROVE  RecentInv'
  <1>1. /\ keyReq' = [keyReq EXCEPT ![q] = KeyIdle]
        /\ UNCHANGED <<clock, cache>> /\ Observe
    BY DEF End, Rest
  <1>2. AnswerRecent(q)'
    BY <1>1 DEF AnswerRecent, Busy, KeyIdle, KeysInv, KeysTypeOK
  <1>3. QED
    BY <1>1, <1>2, RequestKeepsRecent

(* The router caches what it has heard in time. *)
LEMMA AnswerStaysRecent ==
    ASSUME KeysInv, KeysAssumption, RecentInv, NEW q \in KeyRequests,
           CacheAnswer(q)
    PROVE  RecentInv'
  <1> DEFINE k == keyReq[q].k
             funded == keyReq[q].user.funded
             entry == [until |-> clock + KeyTTL, funded |-> funded]
  <1>1. /\ Busy(q) /\ keyReq[q].stage \in {"accepted", "refused"}
        /\ keyReq' = [keyReq EXCEPT ![q] = KeyIdle]
        /\ UNCHANGED clock /\ Observe
        /\ \/ UNCHANGED cache
           \/ /\ keyReq[q].stage = "accepted"
              /\ cache' = [cache EXCEPT ![k] = entry]
    BY DEF CacheAnswer, End
  <1>2. /\ k \in Keys /\ funded \in BOOLEAN /\ keyReq[q].sent \in Nat
        /\ clock \in Nat /\ keyReq[q].op = "validate"
    BY <1>1, BusyCarries DEF KeysInv, KeysTypeOK, OwnerRow, Requested
  <1>3. keyReq[q].stage = "accepted" =>
           /\ clock - keyReq[q].sent <= KeyTimeout
           /\ keyReq[q].sent <= seen[k][funded]
    BY <1>1, <1>2 DEF RecentInv, AnswersRecent, AnswerRecent, Accepting
  <1> HIDE DEF k, funded
  <1>4. /\ SeenNow'
        /\ \A p \in Keys, f \in BOOLEAN : /\ seen'[p][f] >= seen[p][f]
                                          /\ seen'[p][f] \in Int
    BY <1>1, <1>2, ObserveSees DEF RecentInv
  <1>5. \A p \in Keys : /\ cache[p].until \in Nat /\ cache[p].funded \in BOOLEAN
                        /\ seen[p][cache[p].funded] \in Int
    BY DEF KeysInv, KeysTypeOK
  <1>6. EntriesRecent'
    <2>1. CASE UNCHANGED cache
      BY <1>4, <1>5, <2>1, EntriesKept DEF RecentInv
    <2>2. CASE /\ keyReq[q].stage = "accepted"
               /\ cache' = [cache EXCEPT ![k] = entry]
      <3>1. /\ cache'[k] = entry
            /\ \A p \in Keys : p # k => cache'[p] = cache[p]
        BY <1>2, <2>2 DEF KeysInv, KeysTypeOK
      <3>2. /\ seen[k][funded] \in Int /\ seen'[k][funded] \in Int
            /\ seen'[k][funded] >= seen[k][funded]
        BY <1>2, <1>4 DEF KeysInv, KeysTypeOK
      <3>3. /\ seen'[k][funded] >= 0
            /\ (clock + KeyTTL) - seen'[k][funded] <= KeyTTL + KeyTimeout
        BY <1>2, <1>3, <2>2, <3>2 DEF KeysAssumption
      <3>4. ASSUME NEW p \in Keys, cache'[p].until > 0
            PROVE  /\ seen'[p][cache'[p].funded] >= 0
                   /\ cache'[p].until - seen'[p][cache'[p].funded]
                         <= KeyTTL + KeyTimeout
        <4>1. CASE p = k
          BY <3>1, <3>3, <4>1
        <4>2. CASE p # k
          <5>1. /\ cache'[p] = cache[p]
                /\ seen[p][cache[p].funded] >= 0
                /\ cache[p].until - seen[p][cache[p].funded]
                      <= KeyTTL + KeyTimeout
            BY <3>1, <3>4, <4>2 DEF RecentInv, EntriesRecent
          <5>2. QED
            BY <1>4, <1>5, <5>1 DEF KeysAssumption
        <4>3. QED
          BY <4>1, <4>2
      <3>5. QED
        BY <3>4 DEF EntriesRecent
    <2>3. QED
      BY <1>1, <2>1, <2>2
  <1>7. ASSUME NEW r \in KeyRequests
        PROVE  AnswerRecent(r)'
    <2>1. CASE r = q
      BY <1>1, <2>1 DEF AnswerRecent, Busy, KeyIdle, KeysInv, KeysTypeOK
    <2>2. CASE r # q
      <3>1. keyReq'[r] = keyReq[r]
        BY <1>1, <2>2 DEF KeysInv, KeysTypeOK
      <3>2. Awaited(r) => clock' - keyReq[r].sent <= KeyTimeout
        BY <1>1 DEF RecentInv, AnswersRecent, AnswerRecent, Awaited
      <3>3. QED
        BY <1>1, <1>2, <1>4, <3>1, <3>2, AnswerKept DEF RecentInv
    <2>3. QED
      BY <2>1, <2>2
  <1>8. QED
    BY <1>4, <1>6, <1>7 DEF RecentInv, AnswersRecent

LEMMA GivingUpStaysRecent ==
    ASSUME KeysInv, KeysAssumption, RecentInv, NEW q \in KeyRequests,
           GiveUp(q)
    PROVE  RecentInv'
  <1> DEFINE unheard == [keyReq[q] EXCEPT !.heard = FALSE]
  <1>1. /\ Busy(q) /\ keyReq[q].op = "validate" /\ keyReq[q].heard
        /\ UNCHANGED <<key, owner, cache, clock, seen>>
        /\ \/ keyReq' = [keyReq EXCEPT ![q] = KeyIdle]
           \/ /\ keyReq' = [keyReq EXCEPT ![q] = unheard]
              /\ keyReq[q].stage \in {"sent", "read"}
    BY DEF GiveUp, Awaited
  <1>2. /\ unheard.op = "validate" /\ unheard.stage = keyReq[q].stage
        /\ unheard.k = keyReq[q].k /\ unheard.user = keyReq[q].user
        /\ unheard.row = keyReq[q].row /\ unheard.sent = keyReq[q].sent
        /\ ~unheard.heard
    BY <1>1, BusyCarries DEF KeyRequest, KeysInv
  <1> HIDE DEF unheard
  <1>3. AnswerRecent(q)
    BY DEF RecentInv, AnswersRecent
  <1>4. CASE keyReq' = [keyReq EXCEPT ![q] = KeyIdle]
    <2>1. AnswerRecent(q)'
      BY <1>4 DEF AnswerRecent, Busy, KeyIdle, KeysInv, KeysTypeOK
    <2>2. QED
      BY <1>1, <1>4, <2>1, RequestKeepsRecent
  <1>5. CASE /\ keyReq' = [keyReq EXCEPT ![q] = unheard]
             /\ keyReq[q].stage \in {"sent", "read"}
    <2>1. keyReq'[q] = unheard
      BY <1>5 DEF KeysInv, KeysTypeOK
    <2>2. AnswerRecent(q)'
      BY <1>1, <1>2, <1>3, <1>5, <2>1 DEF AnswerRecent, Accepting, Live
    <2>3. QED
      BY <1>1, <1>5, <2>2, RequestKeepsRecent
  <1>6. QED
    BY <1>1, <1>4, <1>5

LEMMA RecentStep ==
    ASSUME KeysInv, KeysAssumption, RecentInv, [NextKeys]_keyVars
    PROVE  RecentInv'
  <1>1. /\ clock \in Nat
        /\ \A q \in KeyRequests :
              Awaited(q) => /\ clock - keyReq[q].sent <= KeyTimeout
                            /\ keyReq[q].sent \in Nat
    BY BusyCarries
    DEF KeysInv, KeysTypeOK, RecentInv, AnswersRecent, AnswerRecent, Awaited
  <1>2. ASSUME NEW q \in KeyRequests, NEW k \in Keys,
               \/ \E l \in Limits, e \in Expiries : BeginCreate(q, k, l, e)
               \/ \E patch \in Patches : BeginUpdate(q, k, patch)
               \/ \E op \in {"disable", "enable", "delete"} :
                     BeginChange(q, k, op)
               \/ BeginValidate(q, k)
        PROVE  RecentInv'
    BY <1>2, BeginsStayRecent
    DEF BeginCreate, BeginUpdate, BeginChange, BeginValidate
  <1>3. ASSUME NEW q \in KeyRequests,
               Create(q) \/ Update(q) \/ Disable(q) \/ Enable(q) \/ Delete(q)
        PROVE  RecentInv'
    BY <1>3, CommitStaysRecent DEF Create, Update, Disable, Enable, Delete
  <1>4. ASSUME UNCHANGED <<keyReq, cache, clock>>,
               Observe \/ UNCHANGED <<key, owner, clock, seen>>
        PROVE  RecentInv'
    BY <1>1, <1>4, OthersKeepRecent
  <1>5. ASSUME Tick
        PROVE  RecentInv'
    <2>1. clock' \in Nat /\ clock' >= clock /\ clock' = clock + 1
      BY <1>1, <1>5 DEF Tick
    <2>2. \A q \in KeyRequests : Awaited(q) => clock' - keyReq[q].sent <= KeyTimeout
      BY <1>1, <1>5, <2>1 DEF Tick, KeysAssumption
    <2>3. QED
      BY <1>5, <2>1, <2>2, OthersKeepRecent DEF Tick
  <1>6. QED
    BY <1>2, <1>3, <1>4, <1>5, ReadingStaysRecent, ValidateStaysRecent,
       AnswerStaysRecent, GivingUpStaysRecent
    DEF NextKeys, Bill, CacheHit, Fund, SetUserStatus, keyVars

(* For any number of keys, users and requests, and any cache and request   *)
(* timeouts: an entry of the router's cache that is still served describes *)
(* a key and a balance of less than KeyTTL + KeyTimeout ticks ago, because *)
(* the entry's age is counted from before the question was asked.          *)
THEOREM CachedKeysAreRecent == KeysSpec => []CacheIsRecent
  <1>1. KeysInv /\ RecentInv /\ KeysAssumption => CacheIsRecent
    <2> SUFFICES ASSUME KeysInv, RecentInv, KeysAssumption,
                        NEW k \in Keys, Cached(k)
                 PROVE  /\ seen[k][cache[k].funded] >= 0
                        /\ clock - seen[k][cache[k].funded]
                              < KeyTTL + KeyTimeout
      BY DEF CacheIsRecent
    <2>1. /\ cache[k].until \in Nat /\ clock \in Nat /\ clock < cache[k].until
          /\ seen[k][cache[k].funded] \in Int
      BY DEF KeysInv, KeysTypeOK, Cached
    <2>2. /\ seen[k][cache[k].funded] >= 0
          /\ cache[k].until - seen[k][cache[k].funded] <= KeyTTL + KeyTimeout
      BY <2>1 DEF RecentInv, EntriesRecent
    <2>3. QED
      BY <2>1, <2>2 DEF KeysAssumption
  <1>2. QED
    BY <1>1, KeysInitially, KeysStep, RecentInitially, RecentStep,
       KeysAssumption, PTL
    DEF KeysSpec
-----------------------------------------------------------------------------
(* RateLimit: how many calls a minute lets through.  Nothing in the state  *)
(* says which limiter admitted a call, so the invariant says that the      *)
(* admitted calls can be split among Redis and the processes such that     *)
(* each part is within what its limiter has on record.                     *)

WindowTotal == SumOf(InWindow, Ticks)

(* No score and no call of the future, and no call of before the window.   *)
ScoresDated == \A t \in Ticks : at < t => zset[t] = 0
Recent(f) == \A t \in Ticks : t <= at - Window \/ at < t => f[t] = 0

(* What p let through is on record while its entry lives, and all of it is *)
(* out of the window when the entry has died.                              *)
OwnOnRecord(p, tier, own) ==
    /\ Recent(own)
    /\ \A t \in Ticks : own[t] # 0 => t + Window <= fallback[p][tier].until
    /\ SumOf(own, Ticks) <= Counted(p, tier)

(* Every call let through by Redis is a member of the sorted set, or has   *)
(* cost the bucket a token: since any tick a, no more than a full bucket   *)
(* and what was refilled, less what is left.                               *)
Since(f, a) == [t \in Ticks |-> IF t < a THEN 0 ELSE f[t]]

RedisOnRecord(tier, redis) ==
    /\ Recent(redis)
    /\ tier = "global" => \A t \in Ticks : redis[t] <= InWindow[t]
    /\ tier = "user" =>
         /\ \A t \in Ticks : bucket.last < t => redis[t] = 0
         /\ \A a \in Ticks : a <= bucket.last =>
               Window * SumOf(Since(redis, a), Ticks) + bucket.shares
                   <= Capacity + (bucket.last - a) * UserLimit

(* The calls that the processes let through at t. *)
AloneAt(own, t) == SumOf([p \in Routers |-> own[p][t]], Routers)

Split(tier, redis, own) ==
    /\ \A t \in Ticks : admitted[tier][t] = redis[t] + AloneAt(own, t)
    /\ RedisOnRecord(tier, redis)
    /\ \A p \in Routers : OwnOnRecord(p, tier, own[p])

Splittable(tier) ==
    \E redis \in [Ticks -> Nat], own \in [Routers -> [Ticks -> Nat]] :
        Split(tier, redis, own)

RateInv ==
    /\ ScoresDated
    /\ WindowTotal <= GlobalLimit
    /\ bucket.last <= at
    /\ \A p \in Routers, tier \in Tiers : fallback[p][tier].count <= Limit(tier)
    /\ \A tier \in Tiers : Splittable(tier)

LEMMA TicksFinite ==
    ASSUME RateAssumption
    PROVE  /\ IsFiniteSet(Ticks) /\ Ticks \in SUBSET Nat
           /\ RateHorizon \in Nat
  BY FS_Interval DEF Ticks, RateAssumption

LEMMA RateNumbers ==
    ASSUME RateAssumption
    PROVE  /\ GlobalLimit \in Nat \ {0} /\ UserLimit \in Nat \ {0}
           /\ Window \in Nat \ {0} /\ Capacity \in Nat
           /\ \A tier \in Tiers : Limit(tier) \in Nat \ {0}
           /\ IsFiniteSet(Routers)
  BY DEF RateAssumption, Capacity, Limit, Tiers

LEMMA InWindowType ==
    ASSUME RateAssumption, RateTypeOK
    PROVE  /\ InWindow \in [Ticks -> Nat]
           /\ \A t \in Ticks : InWindow[t] <= GlobalLimit
           /\ WindowTotal \in Nat
           /\ \A t \in Ticks : InWindow[t] <= WindowTotal
  <1>1. /\ InWindow \in [Ticks -> Nat]
        /\ \A t \in Ticks : InWindow[t] <= GlobalLimit
    <2>1. zset \in [Ticks -> 0..GlobalLimit] /\ GlobalLimit \in Nat
      BY RateNumbers DEF RateTypeOK
    <2>2. QED
      BY <2>1 DEF InWindow
  <1>2. \A t \in Ticks : InWindow[t] \in Nat
    BY <1>1
  <1>3. QED
    BY <1>1, <1>2, TicksFinite, SumAtLeast DEF WindowTotal

(* The total that a script compares with the limit is that of all ticks.   *)
LEMMA TotalIsAll ==
    ASSUME RateAssumption, RateTypeOK, NEW f \in [Ticks -> Nat],
           \A t \in Ticks : at < t => f[t] = 0
    PROVE  Total(f, 0, at) = SumOf(f, Ticks)
  <1>1. PICK A : A = {t \in Ticks : 0 <= t /\ t <= at}
    OBVIOUS
  <1>2. Total(f, 0, at) = SumOf(f, A)
    BY <1>1 DEF Total, SumOf
  <1>3. at \in Int
    BY TicksFinite DEF RateTypeOK
  <1>4. /\ A \in SUBSET Ticks
        /\ \A t \in Ticks : f[t] \in Int
        /\ \A t \in Ticks \ A : f[t] = 0
    BY <1>1, <1>3, TicksFinite
  <1>5. SumOf(f, Ticks) = SumOf(f, A)
    BY <1>4, TicksFinite, SumNarrows
  <1>6. QED
    BY <1>2, <1>5

LEMMA WindowFullIs ==
    ASSUME RateAssumption, RateTypeOK, ScoresDated
    PROVE  WindowFull <=> WindowTotal >= GlobalLimit
  <1>1. \A t \in Ticks : at < t => InWindow[t] = 0
    BY DEF ScoresDated, InWindow
  <1>2. Total(InWindow, 0, at) = WindowTotal
    BY <1>1, InWindowType, TotalIsAll DEF WindowTotal
  <1>3. QED
    BY <1>2 DEF WindowFull

LEMMA RefilledIs ==
    ASSUME RateAssumption, RateTypeOK, bucket.last <= at
    PROVE  /\ Refilled \in 0..Capacity
           /\ 0 <= bucket.last =>
                 Refilled <= bucket.shares + (at - bucket.last) * UserLimit
  <1>1. /\ at \in Nat /\ bucket.shares \in 0..Capacity
        /\ bucket.last \in Nat \cup {-1}
    BY TicksFinite DEF RateTypeOK
  <1>2. PICK more : more = bucket.shares + (at - bucket.last) * UserLimit
    OBVIOUS
  <1>3. PICK gone : gone = at - bucket.last /\ gone \in Nat
    BY <1>1
  <1>4. gone * UserLimit \in Nat /\ Capacity \in Nat
    BY <1>3, RateNumbers
  <1>5. more \in Nat
    BY <1>1, <1>2, <1>3, <1>4
  <1>6. Refilled = IF bucket.last < 0 \/ more > Capacity THEN Capacity ELSE more
    BY <1>2 DEF Refilled
  <1>7. QED
    BY <1>1, <1>2, <1>4, <1>5, <1>6

LEMMA CountedIs ==
    ASSUME RateAssumption, RateTypeOK, NEW p \in Routers, NEW tier \in Tiers
    PROVE  /\ fallback[p][tier].count \in Nat /\ fallback[p][tier].until \in Nat
           /\ Counted(p, tier) \in Nat
  <1>1. fallback[p][tier].count \in Nat /\ fallback[p][tier].until \in Nat
    BY DEF RateTypeOK, FallbackEntry
  <1>2. QED
    BY <1>1 DEF Counted

-----------------------------------------------------------------------------
(* The bound. *)

LEMMA OwnBounded ==
    ASSUME RateAssumption, RateTypeOK, RateInv, NEW tier \in Tiers,
           NEW own \in [Routers -> [Ticks -> Nat]],
           \A p \in Routers : OwnOnRecord(p, tier, own[p]),
           NEW total, \A t \in Ticks : total[t] = AloneAt(own, t)
    PROVE  /\ SumOf(total, Ticks) <= Limit(tier) * Cardinality(Routers)
           /\ \A t \in Ticks : total[t] \in Nat
  <1>1. ASSUME NEW p \in Routers
        PROVE  SumOf(own[p], Ticks) <= Limit(tier)
    <2>1. SumOf(own[p], Ticks) <= Counted(p, tier)
      BY DEF OwnOnRecord
    <2>2. SumOf(own[p], Ticks) \in Nat
      <3>1. \A t \in Ticks : own[p][t] \in Nat
        OBVIOUS
      <3>2. QED
        BY <3>1, TicksFinite, SumAtLeast
    <2>3. fallback[p][tier].count <= Limit(tier) /\ Limit(tier) \in Nat
      BY RateNumbers DEF RateInv
    <2>4. QED
      BY <2>1, <2>2, <2>3, CountedIs DEF Counted
  <1>2. own \in [Routers -> [Ticks -> Int]]
    OBVIOUS
  <1>3. IsFiniteSet(Ticks) /\ IsFiniteSet(Routers) /\ Limit(tier) \in Nat
    BY TicksFinite, RateNumbers
  <1>4. \A t \in Ticks : total[t] = SumOf([p \in Routers |-> own[p][t]], Routers)
    BY DEF AloneAt
  <1>5. SumOf(total, Ticks) <= Limit(tier) * Cardinality(Routers)
    BY <1>1, <1>2, <1>3, <1>4, SumOfSources
  <1>6. ASSUME NEW t \in Ticks
        PROVE  total[t] \in Nat
    <2>1. PICK f : f = [q \in Routers |-> own[q][t]]
      OBVIOUS
    <2>2. \A p \in Routers : f[p] \in Nat
      BY <2>1
    <2>3. SumOf(f, Routers) \in Nat
      BY <1>3, <2>2, SumAtLeast
    <2>4. QED
      BY <1>4, <2>1, <2>3
  <1>7. QED
    BY <1>5, <1>6

(* A minute of the bucket: its capacity and less than a minute's refill.   *)
LEMMA BucketBounded ==
    ASSUME RateAssumption, RateTypeOK, RateInv,
           NEW redis \in [Ticks -> Nat], RedisOnRecord("user", redis)
    PROVE  SumOf(redis, Ticks) <= 2 * UserLimit
  <1>1. PICK a : a = IF at - Window + 1 > 0 THEN at - Window + 1 ELSE 0
    OBVIOUS
  <1>2. /\ at \in Nat /\ at \in Ticks /\ Window \in Nat \ {0}
        /\ UserLimit \in Nat \ {0}
    BY TicksFinite, RateNumbers DEF RateTypeOK
  <1>3. a \in Nat /\ a <= at /\ at - a <= Window - 1
    BY <1>1, <1>2
  <1>4. a \in Ticks
    BY <1>2, <1>3 DEF Ticks
  <1>5. PICK S : S = SumOf(redis, Ticks)
    OBVIOUS
  <1>6. S \in Nat
    BY <1>5, TicksFinite, SumAtLeast
  <1>7. CASE bucket.last < a
    <2>1. ASSUME NEW t \in Ticks
          PROVE  redis[t] = 0
      <3>1. t \in Nat /\ bucket.last \in Nat \cup {-1}
        BY TicksFinite DEF RateTypeOK
      <3>2. t <= at - Window \/ bucket.last < t
        BY <1>1, <1>2, <1>7, <3>1
      <3>3. QED
        BY <3>2 DEF RedisOnRecord, Recent
    <2>2. S = 0
      BY <1>5, <2>1, TicksFinite, SumIsZero
    <2>3. QED
      BY <1>2, <1>5, <2>2
  <1>8. CASE ~(bucket.last < a)
    <2>1. /\ bucket.last \in Nat /\ a <= bucket.last /\ bucket.last <= at
          /\ bucket.shares \in Nat
      BY <1>3, <1>8, TicksFinite DEF RateTypeOK, RateInv
    <2>2. SumOf(Since(redis, a), Ticks) = S
      <3>1. ASSUME NEW t \in Ticks
            PROVE  Since(redis, a)[t] = redis[t]
        <4>1. t < a => t <= at - Window
          BY <1>1, <1>2, TicksFinite
        <4>2. t < a => redis[t] = 0
          BY <4>1 DEF RedisOnRecord, Recent
        <4>3. QED
          BY <4>2 DEF Since
      <3>2. QED
        BY <1>5, <3>1, TicksFinite, SumAgrees
    <2>3. Window * S + bucket.shares <= Capacity + (bucket.last - a) * UserLimit
      BY <1>4, <2>1, <2>2 DEF RedisOnRecord
    <2>4. PICK w : w = bucket.last - a /\ w \in Nat /\ w <= Window - 1
      BY <1>2, <1>3, <2>1
    <2>5. w * UserLimit <= (Window - 1) * UserLimit
      BY <1>2, <2>4
    <2>6. (Window - 1) * UserLimit = Window * UserLimit - UserLimit
      BY <1>2
    <2>7. Window * S <= Window * UserLimit + Window * UserLimit - UserLimit
      <3>1. Capacity = Window * UserLimit
        BY <1>2 DEF Capacity
      <3>2. /\ Window * S \in Int /\ Window * UserLimit \in Int
            /\ w * UserLimit \in Int /\ (Window - 1) * UserLimit \in Int
        BY <1>2, <1>6, <2>4
      <3>3. QED
        BY <1>2, <2>1, <2>3, <2>4, <2>5, <2>6, <3>1, <3>2
    <2>8. S <= 2 * UserLimit
      <3>1. SUFFICES ASSUME S >= 2 * UserLimit + 1 PROVE FALSE
        BY <1>2, <1>6
      <3>2. Window * S >= Window * (2 * UserLimit + 1)
        BY <1>2, <1>6, <3>1
      <3>3. Window * (2 * UserLimit + 1) = Window * UserLimit + Window * UserLimit + Window
        BY <1>2
      <3>4. Window * S \in Int /\ Window * UserLimit \in Int
        BY <1>2, <1>6
      <3>5. QED
        BY <1>2, <2>7, <3>2, <3>3, <3>4
    <2>9. QED
      BY <1>5, <2>8
  <1>9. QED
    BY <1>7, <1>8

LEMMA RateInvBounds ==
    ASSUME RateAssumption, RateTypeOK, RateInv
    PROVE  RatesBounded
  <1>1. ASSUME NEW tier \in Tiers, NEW redis \in [Ticks -> Nat],
               NEW own \in [Routers -> [Ticks -> Nat]], Split(tier, redis, own)
        PROVE  Total(admitted[tier], 0, at)
                   <= SumOf(redis, Ticks) + Limit(tier) * Cardinality(Routers)
    <2>1. PICK total : total = [t \in Ticks |-> AloneAt(own, t)]
      OBVIOUS
    <2>2. /\ SumOf(total, Ticks) <= Limit(tier) * Cardinality(Routers)
          /\ \A t \in Ticks : total[t] \in Nat
      BY <1>1, <2>1, OwnBounded DEF Split
    <2>3. \A t \in Ticks : /\ redis[t] \in Int /\ total[t] \in Int
                           /\ admitted[tier][t] = redis[t] + total[t]
      BY <1>1, <2>1, <2>2 DEF Split
    <2>4. SumOf(admitted[tier], Ticks) = SumOf(redis, Ticks) + SumOf(total, Ticks)
      BY <2>3, TicksFinite, SumAdds
    <2>5. Total(admitted[tier], 0, at) = SumOf(admitted[tier], Ticks)
      <3>1. admitted[tier] \in [Ticks -> Nat]
        BY DEF RateTypeOK
      <3>2. ASSUME NEW t \in Ticks, at < t
            PROVE  admitted[tier][t] = 0
        <4>1. redis[t] = 0 /\ \A p \in Routers : own[p][t] = 0
          BY <1>1, <3>2 DEF Split, RedisOnRecord, OwnOnRecord, Recent
        <4>2. \A p \in Routers : [q \in Routers |-> own[q][t]][p] = 0
          BY <4>1
        <4>3. AloneAt(own, t) = 0
          BY <4>2, RateNumbers, SumIsZero DEF AloneAt
        <4>4. QED
          BY <1>1, <4>1, <4>3 DEF Split
      <3>3. QED
        BY <3>1, <3>2, TotalIsAll
    <2>6. SumOf(redis, Ticks) \in Int /\ SumOf(total, Ticks) \in Int
      BY <2>3, TicksFinite, SumIsInt
    <2>7. Limit(tier) * Cardinality(Routers) \in Int
      BY RateNumbers, FS_CardinalityType
    <2>8. QED
      BY <2>2, <2>4, <2>5, <2>6, <2>7
  <1>2. PICK n \in Nat : n = Cardinality(Routers)
    BY RateNumbers, FS_CardinalityType
  <1>3. Total(admitted["global"], 0, at) <= GlobalLimit * (1 + n)
    <2>1. "global" \in Tiers /\ Limit("global") = GlobalLimit
      BY DEF Tiers, Limit
    <2>2. PICK redis \in [Ticks -> Nat], own \in [Routers -> [Ticks -> Nat]] :
             Split("global", redis, own)
      BY <2>1 DEF RateInv, Splittable
    <2>3. SumOf(redis, Ticks) <= WindowTotal
      <3>1. \A t \in Ticks : redis[t] <= InWindow[t]
        BY <2>2 DEF Split, RedisOnRecord
      <3>2. \A t \in Ticks : redis[t] \in Int /\ InWindow[t] \in Int
        BY InWindowType
      <3>3. QED
        BY <3>1, <3>2, TicksFinite, SumGrows DEF WindowTotal
    <2>4. SumOf(redis, Ticks) \in Nat
      BY TicksFinite, SumAtLeast
    <2>5. WindowTotal <= GlobalLimit /\ WindowTotal \in Nat /\ GlobalLimit \in Nat
      BY InWindowType, RateNumbers DEF RateInv
    <2>6. Total(admitted["global"], 0, at) <= SumOf(redis, Ticks) + GlobalLimit * n
      BY <1>1, <1>2, <2>1, <2>2
    <2>7. GlobalLimit * (1 + n) = GlobalLimit + GlobalLimit * n /\ GlobalLimit * n \in Int
      BY <2>5
    <2>8. Total(admitted["global"], 0, at) \in Int
      <3>1. \A t \in Ticks : admitted["global"][t] \in Int
        BY <2>1 DEF RateTypeOK
      <3>2. {t \in Ticks : 0 <= t /\ t <= at} \in SUBSET Ticks
        OBVIOUS
      <3>3. IsFiniteSet({t \in Ticks : 0 <= t /\ t <= at})
        BY <3>2, TicksFinite, FS_Subset
      <3>4. SumOf(admitted["global"], {t \in Ticks : 0 <= t /\ t <= at}) \in Int
        BY <3>1, <3>2, <3>3, SumIsInt
      <3>5. QED
        BY <3>4 DEF Total, SumOf
    <2>9. QED
      BY <2>3, <2>4, <2>5, <2>6, <2>7, <2>8
  <1>4. Total(admitted["user"], 0, at) <= UserLimit * (2 + n)
    <2>1. "user" \in Tiers /\ Limit("user") = UserLimit
      BY DEF Tiers, Limit
    <2>2. PICK redis \in [Ticks -> Nat], own \in [Routers -> [Ticks -> Nat]] :
             Split("user", redis, own)
      BY <2>1 DEF RateInv, Splittable
    <2>3. SumOf(redis, Ticks) <= 2 * UserLimit
      BY <2>2, BucketBounded DEF Split
    <2>4. SumOf(redis, Ticks) \in Nat /\ UserLimit \in Nat
      BY TicksFinite, SumAtLeast, RateNumbers
    <2>5. Total(admitted["user"], 0, at) <= SumOf(redis, Ticks) + UserLimit * n
      BY <1>1, <1>2, <2>1, <2>2
    <2>6. UserLimit * (2 + n) = 2 * UserLimit + UserLimit * n /\ UserLimit * n \in Int
      BY <2>4
    <2>7. Total(admitted["user"], 0, at) \in Int
      <3>1. \A t \in Ticks : admitted["user"][t] \in Int
        BY <2>1 DEF RateTypeOK
      <3>2. {t \in Ticks : 0 <= t /\ t <= at} \in SUBSET Ticks
        OBVIOUS
      <3>3. IsFiniteSet({t \in Ticks : 0 <= t /\ t <= at})
        BY <3>2, TicksFinite, FS_Subset
      <3>4. SumOf(admitted["user"], {t \in Ticks : 0 <= t /\ t <= at}) \in Int
        BY <3>1, <3>2, <3>3, SumIsInt
      <3>5. QED
        BY <3>4 DEF Total, SumOf
    <2>8. QED
      BY <2>3, <2>4, <2>5, <2>6, <2>7
  <1>5. QED
    BY <1>2, <1>3, <1>4 DEF RatesBounded

-----------------------------------------------------------------------------
(* The steps. *)

LEMMA InitRates ==
    ASSUME RateAssumption, RateInit
    PROVE  RateTypeOK /\ RateInv
  <1>1. /\ 0 \in Ticks /\ at = 0 /\ Capacity \in Nat /\ GlobalLimit \in Nat
        /\ Window \in Nat \ {0}
    BY RateNumbers, TicksFinite DEF RateInit, Ticks
  <1>2. RateTypeOK
    <2>1. bucket \in [shares : 0..Capacity, last : Ticks \cup {-1}]
      BY <1>1 DEF RateInit
    <2>2. /\ zset \in [Ticks -> 0..GlobalLimit]
          /\ redisUp \in BOOLEAN /\ passed \subseteq Routers /\ at \in Ticks
      BY <1>1 DEF RateInit
    <2>3. fallback \in [Routers -> [Tiers -> FallbackEntry]]
      BY DEF RateInit, FallbackEntry
    <2>4. admitted \in [Tiers -> [Ticks -> Nat]]
      BY DEF RateInit
    <2>5. QED
      BY <2>1, <2>2, <2>3, <2>4 DEF RateTypeOK
  <1>3. ScoresDated
    BY DEF RateInit, ScoresDated
  <1>4. WindowTotal <= GlobalLimit
    <2>1. \A t \in Ticks : InWindow[t] = 0
      BY DEF InWindow, RateInit
    <2>2. WindowTotal = 0
      BY <2>1, TicksFinite, SumIsZero DEF WindowTotal
    <2>3. QED
      BY <1>1, <2>2
  <1>5. bucket.last <= at
    BY DEF RateInit
  <1>6. \A p \in Routers, tier \in Tiers :
           fallback[p][tier].count <= Limit(tier) /\ Counted(p, tier) = 0
    BY RateNumbers DEF RateInit, Counted
  <1>7. ASSUME NEW tier \in Tiers
        PROVE  Splittable(tier)
    <2>1. PICK none : none = [t \in Ticks |-> 0]
      OBVIOUS
    <2>2. PICK own : own = [p \in Routers |-> none]
      OBVIOUS
    <2>3. none \in [Ticks -> Nat] /\ own \in [Routers -> [Ticks -> Nat]]
      BY <2>1, <2>2
    <2>4. \A t \in Ticks : none[t] = 0 /\ admitted[tier][t] = 0
      BY <2>1 DEF RateInit
    <2>5. \A t \in Ticks : AloneAt(own, t) = 0
      <3>1. ASSUME NEW t \in Ticks
            PROVE  AloneAt(own, t) = 0
        <4>1. \A p \in Routers : [q \in Routers |-> own[q][t]][p] = 0
          BY <2>2, <2>4
        <4>2. QED
          BY <4>1, RateNumbers, SumIsZero DEF AloneAt
      <3>2. QED
        BY <3>1
    <2>6. Recent(none)
      BY <2>4 DEF Recent
    <2>7. SumOf(none, Ticks) = 0
      BY <2>4, TicksFinite, SumIsZero
    <2>8. \A p \in Routers : OwnOnRecord(p, tier, own[p])
      BY <1>6, <2>2, <2>4, <2>6, <2>7 DEF OwnOnRecord
    <2>9. RedisOnRecord(tier, none)
      <3>1. \A t \in Ticks : none[t] <= InWindow[t]
        BY <1>2, <2>4, InWindowType
      <3>2. \A a \in Ticks : ~(a <= bucket.last)
        BY TicksFinite DEF RateInit
      <3>3. QED
        BY <2>4, <2>6, <3>1, <3>2 DEF RedisOnRecord
    <2>10. Split(tier, none, own)
      BY <2>4, <2>5, <2>8, <2>9 DEF Split
    <2>11. QED
      BY <2>3, <2>10 DEF Splittable
  <1>8. QED
    BY <1>2, <1>3, <1>4, <1>5, <1>6, <1>7 DEF RateInv

(* A run of the first script. *)
LEMMA WindowStep ==
    ASSUME RateAssumption, RateTypeOK, RateInv, SlidingWindow, at' = at
    PROVE  /\ zset' \in [Ticks -> 0..GlobalLimit]
           /\ ScoresDated'
           /\ WindowTotal' <= GlobalLimit
           /\ \A t \in Ticks : InWindow[t] <= InWindow'[t]
           /\ ~WindowFull => InWindow'[at] = InWindow[at] + 1
  <1>1. /\ at \in Ticks /\ at \in Nat /\ Window \in Nat \ {0} /\ GlobalLimit \in Nat
        /\ InWindow \in [Ticks -> Nat]
        /\ \A t \in Ticks : InWindow[t] <= GlobalLimit
        /\ WindowTotal \in Nat /\ InWindow[at] <= WindowTotal
    BY TicksFinite, RateNumbers, InWindowType DEF RateTypeOK
  <1>2. WindowFull <=> WindowTotal >= GlobalLimit
    BY WindowFullIs DEF RateInv
  <1>3. ~(at <= at - Window)
    BY <1>1
  <1>4. \A t \in Ticks : t <= at - Window => InWindow[t] = 0
    BY DEF InWindow
  <1>5. PICK new : new = InWindow'
    OBVIOUS
  <1>6. new = [t \in Ticks |-> IF t <= at - Window THEN 0 ELSE zset'[t]]
    BY <1>5 DEF InWindow
  <1>7. WindowTotal' = SumOf(new, Ticks)
    BY <1>5 DEF WindowTotal
  <1>8. CASE WindowFull
    <2>1. zset' = InWindow
      BY <1>8 DEF SlidingWindow
    <2>2. \A t \in Ticks : new[t] = InWindow[t]
      BY <1>4, <1>6, <2>1
    <2>3. SumOf(new, Ticks) = WindowTotal
      BY <2>2, TicksFinite, SumAgrees DEF WindowTotal
    <2>4. ScoresDated'
      BY <2>1 DEF ScoresDated, RateInv, InWindow
    <2>5. zset' \in [Ticks -> 0..GlobalLimit]
      BY <1>1, <2>1
    <2>6. \A t \in Ticks : InWindow[t] <= new[t]
      BY <1>1, <2>2
    <2>7. QED
      BY <1>5, <1>7, <1>8, <2>3, <2>4, <2>5, <2>6 DEF RateInv
  <1>9. CASE ~WindowFull
    <2>1. WindowTotal + 1 <= GlobalLimit
      BY <1>1, <1>2, <1>9
    <2>2. zset' = [InWindow EXCEPT ![at] = InWindow[at] + 1]
      BY <1>9 DEF SlidingWindow
    <2>3. \A t \in Ticks : zset'[t] = IF t = at THEN InWindow[at] + 1 ELSE InWindow[t]
      BY <1>1, <2>2
    <2>4. zset' \in [Ticks -> 0..GlobalLimit]
      <3>1. InWindow[at] + 1 \in 0..GlobalLimit
        BY <1>1, <2>1
      <3>2. QED
        BY <1>1, <2>2, <3>1
    <2>5. \A t \in Ticks : new[t] = IF t = at THEN InWindow[at] + 1 ELSE InWindow[t]
      BY <1>3, <1>4, <1>6, <2>3
    <2>6. SumOf(new, Ticks) = WindowTotal - InWindow[at] + new[at]
      <3>1. /\ \A t \in Ticks : InWindow[t] \in Int
            /\ new[at] \in Int
            /\ \A t \in Ticks : t # at => new[t] = InWindow[t]
        BY <1>1, <2>5
      <3>2. DifferAt(Ticks, InWindow, new, at)
        BY <1>1, <3>1 DEF DifferAt
      <3>3. QED
        BY <3>2, TicksFinite, SumChanges DEF WindowTotal
    <2>7. SumOf(new, Ticks) <= GlobalLimit
      BY <1>1, <2>1, <2>5, <2>6
    <2>8. ScoresDated'
      <3>1. ASSUME NEW t \in Ticks, at < t
            PROVE  zset'[t] = 0
        <4>1. t # at /\ zset[t] = 0
          BY <1>1, <3>1, TicksFinite DEF RateInv, ScoresDated
        <4>2. QED
          BY <2>3, <3>1, <4>1 DEF InWindow
      <3>2. QED
        BY <3>1 DEF ScoresDated
    <2>9. \A t \in Ticks : InWindow[t] <= new[t]
      BY <1>1, <2>5
    <2>10. QED
      BY <1>1, <1>5, <1>7, <2>4, <2>5, <2>7, <2>8, <2>9
  <1>10. QED
    BY <1>8, <1>9

LEMMA SinceType ==
    ASSUME RateAssumption, NEW f \in [Ticks -> Nat], NEW a
    PROVE  /\ Since(f, a) \in [Ticks -> Nat]
           /\ SumOf(Since(f, a), Ticks) \in Nat
  <1>1. Since(f, a) \in [Ticks -> Nat]
    BY DEF Since
  <1>2. \A t \in Ticks : Since(f, a)[t] \in Nat
    BY <1>1
  <1>3. QED
    BY <1>1, <1>2, TicksFinite, SumAtLeast

(* A run of the second script: a token that is taken pays for the call if  *)
(* its answer arrives.                                                     *)
LEMMA BucketStep ==
    ASSUME RateAssumption, RateTypeOK, RateInv, TokenBucket, at' = at,
           NEW redis \in [Ticks -> Nat], RedisOnRecord("user", redis),
           NEW new \in [Ticks -> Nat],
           \/ new = redis
           \/ HasToken /\ new = [redis EXCEPT ![at] = redis[at] + 1]
    PROVE  /\ bucket' \in [shares : 0..Capacity, last : Ticks \cup {-1}]
           /\ bucket'.last = at
           /\ \A t \in Ticks : at < t => new[t] = 0
           /\ \A a \in Ticks : a <= at =>
                 Window * SumOf(Since(new, a), Ticks) + bucket'.shares
                     <= Capacity + (at - a) * UserLimit
  <1>1. /\ at \in Ticks /\ at \in Nat /\ Window \in Nat \ {0}
        /\ UserLimit \in Nat \ {0} /\ Capacity \in Nat
        /\ bucket.last \in Nat \cup {-1} /\ bucket.last <= at
        /\ bucket.shares \in Nat
    BY TicksFinite, RateNumbers DEF RateTypeOK, RateInv
  <1>2. /\ Refilled \in 0..Capacity
        /\ 0 <= bucket.last =>
              Refilled <= bucket.shares + (at - bucket.last) * UserLimit
    BY RefilledIs DEF RateInv
  <1>3. PICK left : left = IF HasToken THEN Refilled - Window ELSE Refilled
    OBVIOUS
  <1>4. bucket' = [shares |-> left, last |-> at]
    BY <1>3 DEF TokenBucket
  <1>5. left \in 0..Capacity
    BY <1>1, <1>2, <1>3 DEF HasToken
  <1>6. /\ bucket' \in [shares : 0..Capacity, last : Ticks \cup {-1}]
        /\ bucket'.last = at /\ bucket'.shares = left
    BY <1>1, <1>4, <1>5
  <1>7. \A t \in Ticks : at < t => new[t] = 0
    <2>1. \A t \in Ticks : at < t => redis[t] = 0 /\ t # at
      BY <1>1, TicksFinite DEF RedisOnRecord, Recent
    <2>2. QED
      BY <2>1
  <1>8. ASSUME NEW a \in Ticks, a <= at
        PROVE  Window * SumOf(Since(new, a), Ticks) + left
                   <= Capacity + (at - a) * UserLimit
    <2>1. PICK S : S = SumOf(Since(redis, a), Ticks)
      OBVIOUS
    <2>2. PICK N : N = SumOf(Since(new, a), Ticks)
      OBVIOUS
    <2>3. S \in Nat /\ N \in Nat /\ a \in Nat
      BY <2>1, <2>2, SinceType, TicksFinite
    <2>4. N = S \/ (HasToken /\ N = S + 1)
      <3>1. CASE new = redis
        BY <2>1, <2>2, <3>1
      <3>2. CASE HasToken /\ new = [redis EXCEPT ![at] = redis[at] + 1]
        <4>1. PICK f, g : f = Since(redis, a) /\ g = Since(new, a)
          OBVIOUS
        <4>2. \A t \in Ticks : f[t] \in Int
          BY <4>1, SinceType
        <4>3. ~(at < a)
          BY <1>1, <1>8, <2>3
        <4>4. /\ f[at] = redis[at] /\ g[at] = redis[at] + 1
              /\ \A t \in Ticks : t # at => g[t] = f[t]
          BY <1>1, <3>2, <4>1, <4>3 DEF Since
        <4>5. g[at] \in Int /\ redis[at] \in Int
          BY <1>1, <4>4
        <4>6. SumOf(g, Ticks) = SumOf(f, Ticks) - f[at] + g[at]
          <5>1. DifferAt(Ticks, f, g, at)
            BY <1>1, <4>2, <4>4, <4>5 DEF DifferAt
          <5>2. QED
            BY <5>1, TicksFinite, SumChanges
        <4>7. QED
          BY <2>1, <2>2, <2>3, <3>2, <4>1, <4>4, <4>5, <4>6
      <3>3. QED
        BY <3>1, <3>2
    <2>5. Window * S \in Nat /\ Window * N \in Nat
      BY <1>1, <2>3
    <2>6. Window * N + left <= Window * S + Refilled
      <3>1. Window * (S + 1) = Window * S + Window
        BY <1>1, <2>3
      <3>2. QED
        BY <1>1, <1>2, <1>3, <2>4, <2>5, <3>1
    <2>7. CASE a <= bucket.last
      <3>1. bucket.last \in Nat
        BY <1>1, <2>3, <2>7
      <3>2. Window * S + bucket.shares <= Capacity + (bucket.last - a) * UserLimit
        BY <2>1, <2>7 DEF RedisOnRecord
      <3>3. Refilled <= bucket.shares + (at - bucket.last) * UserLimit
        BY <1>2, <3>1
      <3>4. PICK x, y \in Nat : x = bucket.last - a /\ y = at - bucket.last
        BY <1>1, <2>3, <2>7, <3>1
      <3>5. at - a = x + y
        BY <1>1, <2>3, <3>1, <3>4
      <3>6. (x + y) * UserLimit = x * UserLimit + y * UserLimit
        BY <1>1
      <3>7. x * UserLimit \in Nat /\ y * UserLimit \in Nat
        BY <1>1
      <3>8. QED
        BY <1>1, <1>2, <1>5, <2>2, <2>5, <2>6, <3>2, <3>3, <3>4, <3>5, <3>6, <3>7
    <2>8. CASE bucket.last < a
      <3>1. \A t \in Ticks : Since(redis, a)[t] = 0
        <4>1. \A t \in Ticks : ~(t < a) => bucket.last < t
          BY <1>1, <2>3, <2>8, TicksFinite
        <4>2. QED
          BY <4>1 DEF Since, RedisOnRecord
      <3>2. S = 0
        BY <2>1, <3>1, TicksFinite, SumIsZero
      <3>3. at - a \in Nat /\ (at - a) * UserLimit \in Nat
        BY <1>1, <1>8, <2>3
      <3>4. Window * S = 0
        BY <1>1, <3>2
      <3>5. QED
        BY <1>1, <1>2, <1>5, <2>2, <2>5, <2>6, <3>3, <3>4
    <2>9. QED
      BY <1>1, <2>3, <2>7, <2>8
  <1>9. QED
    BY <1>6, <1>7, <1>8

LEMMA ScriptState ==
    ASSUME RateAssumption, RateTypeOK, RateInv, at' = at,
           \/ UNCHANGED <<zset, bucket>>
           \/ \E tier \in Tiers : Script(tier)
    PROVE  /\ zset' \in [Ticks -> 0..GlobalLimit]
           /\ bucket' \in [shares : 0..Capacity, last : Ticks \cup {-1}]
           /\ ScoresDated' /\ WindowTotal' <= GlobalLimit /\ bucket'.last <= at'
  <1>1. CASE UNCHANGED zset
    <2>1. InWindow' = InWindow
      BY <1>1 DEF InWindow
    <2>2. WindowTotal' <= GlobalLimit /\ ScoresDated'
      BY <1>1, <2>1 DEF WindowTotal, RateInv, ScoresDated
    <2>3. CASE UNCHANGED bucket
      BY <1>1, <2>2, <2>3 DEF RateTypeOK, RateInv
    <2>4. CASE TokenBucket
      <3>1. PICK redis \in [Ticks -> Nat] : RedisOnRecord("user", redis)
        BY DEF RateInv, Splittable, Split, Tiers
      <3>2. PICK new \in [Ticks -> Nat] : new = redis
        OBVIOUS
      <3>3. /\ bucket' \in [shares : 0..Capacity, last : Ticks \cup {-1}]
            /\ bucket'.last = at
        BY <2>4, <3>1, <3>2, BucketStep
      <3>4. at \in Nat
        BY TicksFinite DEF RateTypeOK
      <3>5. QED
        BY <1>1, <2>2, <3>3, <3>4 DEF RateTypeOK
    <2>5. QED
      BY <1>1, <2>3, <2>4 DEF Script, SlidingWindow
  <1>2. CASE SlidingWindow /\ UNCHANGED bucket
    BY <1>2, WindowStep DEF RateTypeOK, RateInv
  <1>3. QED
    BY <1>1, <1>2 DEF Script

(* What is on record of Redis stays so when a script runs, whether or not  *)
(* its answer arrives.                                                     *)
LEMMA RedisRecordKept ==
    ASSUME RateAssumption, RateTypeOK, RateInv, at' = at, NEW r \in Tiers,
           NEW redis \in [Ticks -> Nat], RedisOnRecord(r, redis),
           NEW new \in [Ticks -> Nat],
           \/ UNCHANGED <<zset, bucket>> /\ new = redis
           \/ \E tier \in Tiers :
                 /\ Script(tier)
                 /\ \/ new = redis
                    \/ /\ tier = r /\ Allows(tier)
                       /\ new = [redis EXCEPT ![at] = redis[at] + 1]
    PROVE  RedisOnRecord(r, new)'
  <1>1. /\ at \in Ticks /\ at \in Nat /\ Window \in Nat \ {0}
        /\ InWindow \in [Ticks -> Nat]
    BY TicksFinite, RateNumbers, InWindowType DEF RateTypeOK
  <1>2. \A t \in Ticks : t # at => new[t] = redis[t]
    BY <1>1
  <1>3. new[at] = redis[at] \/ new[at] = redis[at] + 1
    BY <1>1
  <1>4. Recent(new)'
    <2>1. ASSUME NEW t \in Ticks, t <= at - Window \/ at < t
          PROVE  new[t] = 0
      <3>1. t # at
        BY <1>1, <2>1
      <3>2. QED
        BY <1>2, <2>1, <3>1 DEF RedisOnRecord, Recent
    <2>2. QED
      BY <2>1 DEF Recent
  <1>5. ASSUME r = "global", NEW t \in Ticks
        PROVE  new[t] <= InWindow'[t]
    <2>1. redis[t] <= InWindow[t] /\ redis[at] <= InWindow[at]
      BY <1>1, <1>5 DEF RedisOnRecord
    <2>2. redis[t] \in Nat /\ InWindow[t] \in Nat /\ redis[at] \in Nat /\ InWindow[at] \in Nat
      BY <1>1
    <2>3. CASE UNCHANGED zset /\ new = redis
      <3>1. InWindow' = InWindow
        BY <2>3 DEF InWindow
      <3>2. QED
        BY <2>1, <2>3, <3>1
    <2>4. CASE SlidingWindow /\ (new = redis \/ ~WindowFull)
      <3>1. /\ InWindow[t] <= InWindow'[t] /\ InWindow[at] <= InWindow'[at]
            /\ ~WindowFull => InWindow'[at] = InWindow[at] + 1
            /\ zset' \in [Ticks -> 0..GlobalLimit]
        BY <1>1, <2>4, WindowStep
      <3>2. InWindow'[t] \in Int /\ InWindow'[at] \in Int
        <4>1. InWindow' = [u \in Ticks |-> IF u <= at - Window THEN 0 ELSE zset'[u]]
          BY DEF InWindow
        <4>2. zset'[t] \in Int /\ zset'[at] \in Int
          BY <1>1, <3>1
        <4>3. QED
          BY <1>1, <4>1, <4>2
      <3>3. CASE new = redis
        BY <2>1, <2>2, <3>1, <3>2, <3>3
      <3>4. CASE ~WindowFull
        BY <1>2, <1>3, <2>1, <2>2, <3>1, <3>2, <3>4
      <3>5. QED
        BY <2>4, <3>3, <3>4
    <2>5. QED
      BY <1>5, <2>3, <2>4 DEF Script, Allows
  <1>6. ASSUME r = "user"
        PROVE  /\ \A t \in Ticks : bucket'.last < t => new[t] = 0
               /\ \A a \in Ticks : a <= bucket'.last =>
                     Window * SumOf(Since(new, a), Ticks) + bucket'.shares
                         <= Capacity + (bucket'.last - a) * UserLimit
    <2>1. CASE UNCHANGED bucket /\ new = redis
      BY <1>6, <2>1 DEF RedisOnRecord
    <2>2. CASE TokenBucket /\ (new = redis \/ (HasToken
                   /\ new = [redis EXCEPT ![at] = redis[at] + 1]))
      <3>1. RedisOnRecord("user", redis)
        BY <1>6
      <3>2. QED
        BY <2>2, <3>1, BucketStep
    <2>3. QED
      BY <1>6, <2>1, <2>2 DEF Script, Allows
  <1>7. QED
    BY <1>4, <1>5, <1>6 DEF RedisOnRecord

(* What a process lets through is on its record.                           *)
LEMMA OwnRecordCounts ==
    ASSUME RateAssumption, RateTypeOK, RateInv, at' = at,
           NEW p \in Routers, NEW tier \in Tiers, FallbackCounts(p, tier),
           FallbackAllows(p, tier),
           NEW own \in [Ticks -> Nat], OwnOnRecord(p, tier, own)
    PROVE  /\ fallback' \in [Routers -> [Tiers -> FallbackEntry]]
           /\ \A q \in Routers, r \in Tiers :
                 <<q, r>> # <<p, tier>> => fallback'[q][r] = fallback[q][r]
           /\ fallback'[p][tier].count <= Limit(tier)
           /\ OwnOnRecord(p, tier, [own EXCEPT ![at] = own[at] + 1])'
  <1>1. /\ at \in Ticks /\ at \in Nat /\ Window \in Nat \ {0} /\ Ticks \in SUBSET Nat
        /\ Counted(p, tier) \in Nat /\ fallback[p][tier].until \in Nat
        /\ Limit(tier) \in Nat
    BY TicksFinite, RateNumbers, CountedIs DEF RateTypeOK
  <1>2. PICK entry : entry = [count |-> Counted(p, tier) + 1, until |-> at + Window]
    OBVIOUS
  <1>3. entry \in FallbackEntry /\ entry.count = Counted(p, tier) + 1 /\ entry.until = at + Window
    BY <1>1, <1>2 DEF FallbackEntry
  <1>4. fallback' = [fallback EXCEPT ![p] = [fallback[p] EXCEPT ![tier] = entry]]
    BY <1>2 DEF FallbackCounts
  <1>5. fallback \in [Routers -> [Tiers -> FallbackEntry]]
    BY DEF RateTypeOK
  <1>6. /\ fallback' \in [Routers -> [Tiers -> FallbackEntry]]
        /\ \A q \in Routers, r \in Tiers :
              <<q, r>> # <<p, tier>> => fallback'[q][r] = fallback[q][r]
        /\ fallback'[p][tier] = entry
    BY <1>3, <1>4, <1>5
  <1>7. entry.count <= Limit(tier)
    BY <1>1, <1>3 DEF FallbackAllows
  <1>8. PICK new : new = [own EXCEPT ![at] = own[at] + 1]
    OBVIOUS
  <1>9. /\ new \in [Ticks -> Nat] /\ new[at] = own[at] + 1
        /\ \A t \in Ticks : t # at => new[t] = own[t]
    BY <1>1, <1>8
  <1>10. Counted(p, tier)' = Counted(p, tier) + 1
    <2>1. at < at + Window
      BY <1>1
    <2>2. QED
      BY <1>3, <1>6, <2>1 DEF Counted
  <1>11. SumOf(new, Ticks) <= Counted(p, tier) + 1
    <2>1. DifferAt(Ticks, own, new, at)
      BY <1>1, <1>9 DEF DifferAt
    <2>2. SumOf(new, Ticks) = SumOf(own, Ticks) - own[at] + new[at]
      BY <2>1, TicksFinite, SumChanges
    <2>3. SumOf(own, Ticks) \in Nat /\ own[at] \in Nat
      <3>1. \A t \in Ticks : own[t] \in Nat
        OBVIOUS
      <3>2. QED
        BY <1>1, <3>1, TicksFinite, SumAtLeast
    <2>4. SumOf(own, Ticks) <= Counted(p, tier)
      BY DEF OwnOnRecord
    <2>5. QED
      BY <1>1, <1>9, <2>2, <2>3, <2>4
  <1>12. Recent(new)'
    <2>1. \A t \in Ticks : t <= at - Window \/ at < t => t # at
      BY <1>1
    <2>2. QED
      BY <1>9, <2>1 DEF Recent, OwnOnRecord
  <1>13. \A t \in Ticks : new[t] # 0 => t + Window <= at + Window
    <2>1. \A t \in Ticks : at < t => new[t] = 0
      BY <1>12 DEF Recent
    <2>2. QED
      BY <1>1, <2>1
  <1>14. OwnOnRecord(p, tier, new)'
    BY <1>3, <1>6, <1>10, <1>11, <1>12, <1>13 DEF OwnOnRecord
  <1>15. QED
    BY <1>3, <1>6, <1>7, <1>8, <1>14

LEMMA OwnRecordKept ==
    ASSUME at' = at, NEW p \in Routers, NEW r \in Tiers,
           fallback'[p][r] = fallback[p][r],
           NEW own, OwnOnRecord(p, r, own)
    PROVE  OwnOnRecord(p, r, own)'
  <1>1. Counted(p, r)' = Counted(p, r)
    BY DEF Counted
  <1>2. Recent(own)'
    BY DEF Recent, OwnOnRecord
  <1>3. QED
    BY <1>1, <1>2 DEF OwnOnRecord

(* One more call let through by p at x.                                     *)
OneMoreCall(own, new, p, x) ==
    /\ new[p][x] = own[p][x] + 1
    /\ \A t \in Ticks : t # x => new[p][t] = own[p][t]
    /\ \A q \in Routers : q # p => new[q] = own[q]

LEMMA AloneCounts ==
    ASSUME RateAssumption, NEW own \in [Routers -> [Ticks -> Nat]],
           NEW new \in [Routers -> [Ticks -> Nat]],
           NEW p \in Routers, NEW x \in Ticks, OneMoreCall(own, new, p, x)
    PROVE  /\ AloneAt(new, x) = AloneAt(own, x) + 1
           /\ \A t \in Ticks : AloneAt(own, t) \in Nat
           /\ \A t \in Ticks : t # x => AloneAt(new, t) = AloneAt(own, t)
  <1>1. ASSUME NEW t \in Ticks
        PROVE  /\ AloneAt(own, t) \in Nat
               /\ t # x => AloneAt(new, t) = AloneAt(own, t)
               /\ t = x => AloneAt(new, t) = AloneAt(own, t) + 1
    <2>1. PICK f, g : /\ f = [q \in Routers |-> own[q][t]]
                      /\ g = [q \in Routers |-> new[q][t]]
      OBVIOUS
    <2>2. AloneAt(own, t) = SumOf(f, Routers) /\ AloneAt(new, t) = SumOf(g, Routers)
      BY <2>1 DEF AloneAt
    <2>3. \A q \in Routers : f[q] \in Nat /\ g[q] \in Nat
      BY <2>1
    <2>4. \A q \in Routers : q # p => g[q] = f[q]
      BY <2>1 DEF OneMoreCall
    <2>5. g[p] = IF t = x THEN f[p] + 1 ELSE f[p]
      BY <2>1 DEF OneMoreCall
    <2>6. SumOf(f, Routers) \in Nat
      BY <2>3, RateNumbers, SumAtLeast
    <2>7. DifferAt(Routers, f, g, p)
      BY <2>3, <2>4 DEF DifferAt
    <2>8. SumOf(g, Routers) = SumOf(f, Routers) - f[p] + g[p]
      BY <2>7, RateNumbers, SumChanges
    <2>9. f[p] \in Nat
      BY <2>3
    <2>10. QED
      BY <2>2, <2>5, <2>6, <2>8, <2>9
  <1>2. QED
    BY <1>1

LEMMA AdmitCounts ==
    ASSUME RateAssumption, RateTypeOK, NEW p \in Routers, NEW tier \in Tiers,
           Admit(p, tier)
    PROVE  /\ admitted' \in [Tiers -> [Ticks -> Nat]]
           /\ passed' \subseteq Routers
           /\ \A r \in Tiers : r # tier => admitted'[r] = admitted[r]
           /\ admitted'[tier][at] = admitted[tier][at] + 1
           /\ \A t \in Ticks : t # at => admitted'[tier][t] = admitted[tier][t]
  <1>1. at \in Ticks /\ admitted \in [Tiers -> [Ticks -> Nat]]
    BY DEF RateTypeOK
  <1>2. PICK row : row = [admitted[tier] EXCEPT ![at] = admitted[tier][at] + 1]
    OBVIOUS
  <1>3. /\ row \in [Ticks -> Nat] /\ row[at] = admitted[tier][at] + 1
        /\ \A t \in Ticks : t # at => row[t] = admitted[tier][t]
    <2>1. admitted[tier] \in [Ticks -> Nat] /\ admitted[tier][at] + 1 \in Nat
      BY <1>1
    <2>2. QED
      BY <1>1, <1>2, <2>1
  <1>4. admitted' = [admitted EXCEPT ![tier] = row]
    BY <1>2 DEF Admit
  <1>5. /\ admitted' \in [Tiers -> [Ticks -> Nat]]
        /\ \A r \in Tiers : r # tier => admitted'[r] = admitted[r]
        /\ admitted'[tier] = row
    BY <1>1, <1>3, <1>4
  <1>6. passed' \subseteq Routers
    BY DEF Admit, RateTypeOK
  <1>7. QED
    BY <1>3, <1>5, <1>6

(* What a check does to a split: nothing, one more call of Redis or one     *)
(* more of the process.                                                     *)
Checked(p, tier) == CheckRedis(p, tier) \/ CheckDown(p, tier) \/ CheckLost(p, tier)

LEMMA CheckIs ==
    ASSUME RateAssumption, RateTypeOK, NEW p \in Routers, NEW tier \in Tiers,
           Checked(p, tier)
    PROVE  /\ at' = at /\ redisUp' = redisUp
           /\ UNCHANGED <<zset, bucket>> \/ Script(tier)
           /\ \/ /\ UNCHANGED <<fallback, admitted>> /\ passed' \subseteq Routers
              \/ /\ Script(tier) /\ Allows(tier)
                 /\ UNCHANGED fallback /\ Admit(p, tier)
              \/ /\ FallbackAllows(p, tier) /\ FallbackCounts(p, tier)
                 /\ Admit(p, tier)
  <1>1. Refuse(p) => passed' \subseteq Routers /\ UNCHANGED admitted
    BY DEF Refuse, RateTypeOK
  <1>2. QED
    BY <1>1 DEF Checked, CheckRedis, CheckDown, CheckLost, CheckFallback

LEMMA CheckSplits ==
    ASSUME RateAssumption, RateTypeOK, RateInv,
           NEW p \in Routers, NEW tier \in Tiers, Checked(p, tier),
           NEW r \in Tiers
    PROVE  Splittable(r)'
  <1>1. PICK redis \in [Ticks -> Nat], own \in [Routers -> [Ticks -> Nat]] :
           Split(r, redis, own)
    BY DEF RateInv, Splittable
  <1>2. /\ at \in Ticks /\ at' = at
        /\ UNCHANGED <<zset, bucket>> \/ Script(tier)
    BY CheckIs DEF RateTypeOK
  <1>3. RedisOnRecord(r, redis) /\ \A q \in Routers : OwnOnRecord(q, r, own[q])
    BY <1>1 DEF Split
  <1>4. RedisOnRecord(r, redis)'
    <2>1. PICK new \in [Ticks -> Nat] : new = redis
      OBVIOUS
    <2>2. RedisOnRecord(r, new)'
      BY <1>2, <1>3, <2>1, RedisRecordKept
    <2>3. QED
      BY <2>1, <2>2
  <1>5. ASSUME UNCHANGED fallback
        PROVE  \A q \in Routers : OwnOnRecord(q, r, own[q])'
    BY <1>2, <1>3, <1>5, OwnRecordKept
  <1>6. CASE UNCHANGED <<fallback, admitted>>
    <2>1. Split(r, redis, own)'
      BY <1>1, <1>4, <1>5, <1>6 DEF Split
    <2>2. QED
      BY <2>1 DEF Splittable
  <1>7. CASE Script(tier) /\ Allows(tier) /\ UNCHANGED fallback /\ Admit(p, tier)
    <2>1. CASE r # tier
      <3>1. admitted'[r] = admitted[r]
        BY <1>7, <2>1, AdmitCounts
      <3>2. Split(r, redis, own)'
        BY <1>1, <1>4, <1>5, <1>7, <3>1 DEF Split
      <3>3. QED
        BY <3>2 DEF Splittable
    <2>2. CASE r = tier
      <3>1. PICK new : new = [redis EXCEPT ![at] = redis[at] + 1]
        OBVIOUS
      <3>2. /\ new \in [Ticks -> Nat] /\ new[at] = redis[at] + 1
            /\ \A t \in Ticks : t # at => new[t] = redis[t]
        BY <1>2, <3>1
      <3>3. RedisOnRecord(r, new)'
        BY <1>2, <1>3, <1>7, <2>2, <3>1, <3>2, RedisRecordKept
      <3>4. ASSUME NEW t \in Ticks
            PROVE  admitted'[r][t] = new[t] + AloneAt(own, t)
        <4>1. admitted[r][t] = redis[t] + AloneAt(own, t)
          BY <1>1 DEF Split
        <4>2. admitted'[r][t] = IF t = at THEN admitted[r][t] + 1 ELSE admitted[r][t]
          BY <1>7, <2>2, AdmitCounts
        <4>3. AloneAt(own, t) \in Nat /\ redis[t] \in Nat
          <5>1. PICK f : f = [q \in Routers |-> own[q][t]]
            OBVIOUS
          <5>2. \A q \in Routers : f[q] \in Nat
            BY <5>1
          <5>3. SumOf(f, Routers) \in Nat
            BY <5>2, RateNumbers, SumAtLeast
          <5>4. QED
            BY <5>1, <5>3 DEF AloneAt
        <4>4. QED
          BY <3>2, <4>1, <4>2, <4>3
      <3>5. Split(r, new, own)'
        BY <1>5, <1>7, <3>3, <3>4 DEF Split
      <3>6. QED
        BY <3>2, <3>5 DEF Splittable
    <2>3. QED
      BY <2>1, <2>2
  <1>8. CASE FallbackAllows(p, tier) /\ FallbackCounts(p, tier) /\ Admit(p, tier)
    <2>1. OwnOnRecord(p, r, own[p]) /\ own[p] \in [Ticks -> Nat]
      BY <1>3
    <2>2. \A q \in Routers : <<q, r>> # <<p, tier>> => fallback'[q][r] = fallback[q][r]
      <3>1. PICK mine \in [Ticks -> Nat] : OwnOnRecord(p, tier, mine)
        <4>1. PICK redis2 \in [Ticks -> Nat], own2 \in [Routers -> [Ticks -> Nat]] :
                 Split(tier, redis2, own2)
          BY DEF RateInv, Splittable
        <4>2. own2[p] \in [Ticks -> Nat] /\ OwnOnRecord(p, tier, own2[p])
          BY <4>1 DEF Split
        <4>3. QED
          BY <4>2
      <3>2. QED
        BY <1>2, <1>8, <3>1, OwnRecordCounts
    <2>3. CASE r # tier
      <3>1. admitted'[r] = admitted[r]
        BY <1>8, <2>3, AdmitCounts
      <3>2. \A q \in Routers : fallback'[q][r] = fallback[q][r]
        BY <2>2, <2>3
      <3>3. \A q \in Routers : OwnOnRecord(q, r, own[q])'
        BY <1>2, <1>3, <3>2, OwnRecordKept
      <3>4. Split(r, redis, own)'
        BY <1>1, <1>4, <3>1, <3>3 DEF Split
      <3>5. QED
        BY <3>4 DEF Splittable
    <2>4. CASE r = tier
      <3>1. PICK row : row = [own[p] EXCEPT ![at] = own[p][at] + 1]
        OBVIOUS
      <3>2. row \in [Ticks -> Nat]
        BY <1>2, <2>1, <3>1
      <3>3. PICK new : new = [own EXCEPT ![p] = row]
        OBVIOUS
      <3>4. /\ new \in [Routers -> [Ticks -> Nat]]
            /\ AloneAt(new, at) = AloneAt(own, at) + 1
            /\ \A t \in Ticks : AloneAt(own, t) \in Nat
            /\ \A t \in Ticks : t # at => AloneAt(new, t) = AloneAt(own, t)
        <4>1. PICK x \in Ticks : x = at
          BY <1>2
        <4>2. new \in [Routers -> [Ticks -> Nat]] /\ OneMoreCall(own, new, p, x)
          BY <2>1, <3>1, <3>2, <3>3, <4>1 DEF OneMoreCall
        <4>3. QED
          BY <4>1, <4>2, AloneCounts
      <3>5. new[p] = row /\ \A q \in Routers : q # p => new[q] = own[q]
        BY <3>3
      <3>6. OwnOnRecord(p, r, row)'
        BY <1>2, <1>8, <2>1, <2>4, <3>1, OwnRecordCounts
      <3>7. \A q \in Routers : q # p => OwnOnRecord(q, r, own[q])'
        BY <1>2, <1>3, <2>2, OwnRecordKept
      <3>8. \A q \in Routers : OwnOnRecord(q, r, new[q])'
        BY <3>5, <3>6, <3>7
      <3>9. ASSUME NEW t \in Ticks
            PROVE  admitted'[r][t] = redis[t] + AloneAt(new, t)
        <4>1. admitted[r][t] = redis[t] + AloneAt(own, t)
          BY <1>1 DEF Split
        <4>2. admitted'[r][t] = IF t = at THEN admitted[r][t] + 1 ELSE admitted[r][t]
          BY <1>8, <2>4, AdmitCounts
        <4>3. redis[t] \in Nat /\ AloneAt(own, t) \in Nat
          BY <3>4
        <4>4. QED
          BY <3>4, <4>1, <4>2, <4>3
      <3>10. Split(r, redis, new)'
        BY <1>4, <3>8, <3>9 DEF Split
      <3>11. QED
        BY <3>4, <3>10 DEF Splittable
    <2>5. QED
      BY <2>3, <2>4
  <1>9. QED
    BY <1>6, <1>7, <1>8, CheckIs

LEMMA CheckKeeps ==
    ASSUME RateAssumption, RateTypeOK, RateInv,
           NEW p \in Routers, NEW tier \in Tiers, Checked(p, tier)
    PROVE  RateTypeOK' /\ RateInv'
  <1>1. /\ at \in Ticks /\ at' = at /\ redisUp' = redisUp
        /\ UNCHANGED <<zset, bucket>> \/ Script(tier)
    BY CheckIs DEF RateTypeOK
  <1>2. /\ zset' \in [Ticks -> 0..GlobalLimit]
        /\ bucket' \in [shares : 0..Capacity, last : Ticks \cup {-1}]
        /\ ScoresDated' /\ WindowTotal' <= GlobalLimit /\ bucket'.last <= at'
    BY <1>1, ScriptState
  <1>3. /\ fallback' \in [Routers -> [Tiers -> FallbackEntry]]
        /\ \A q \in Routers, r \in Tiers : fallback'[q][r].count <= Limit(r)
        /\ admitted' \in [Tiers -> [Ticks -> Nat]]
        /\ passed' \subseteq Routers
    <2>1. CASE UNCHANGED <<fallback, admitted>> /\ passed' \subseteq Routers
      BY <2>1 DEF RateTypeOK, RateInv
    <2>2. CASE UNCHANGED fallback /\ Admit(p, tier)
      BY <2>2, AdmitCounts DEF RateTypeOK, RateInv
    <2>3. CASE FallbackAllows(p, tier) /\ FallbackCounts(p, tier) /\ Admit(p, tier)
      <3>1. PICK redis \in [Ticks -> Nat], own \in [Routers -> [Ticks -> Nat]] :
               Split(tier, redis, own)
        BY DEF RateInv, Splittable
      <3>2. PICK mine \in [Ticks -> Nat] : mine = own[p]
        OBVIOUS
      <3>3. OwnOnRecord(p, tier, mine)
        BY <3>1, <3>2 DEF Split
      <3>4. /\ fallback' \in [Routers -> [Tiers -> FallbackEntry]]
            /\ \A q \in Routers, r \in Tiers :
                  <<q, r>> # <<p, tier>> => fallback'[q][r] = fallback[q][r]
            /\ fallback'[p][tier].count <= Limit(tier)
        BY <1>1, <2>3, <3>3, OwnRecordCounts
      <3>5. ASSUME NEW q \in Routers, NEW r \in Tiers
            PROVE  fallback'[q][r].count <= Limit(r)
        <4>1. CASE q = p /\ r = tier
          BY <3>4, <4>1
        <4>2. CASE ~(q = p /\ r = tier)
          <5>1. fallback'[q][r] = fallback[q][r]
            BY <3>4, <4>2
          <5>2. QED
            BY <5>1 DEF RateInv
        <4>3. QED
          BY <4>1, <4>2
      <3>6. QED
        BY <2>3, <3>4, <3>5, AdmitCounts
    <2>4. QED
      BY <2>1, <2>2, <2>3, CheckIs
  <1>4. RateTypeOK'
    BY <1>1, <1>2, <1>3 DEF RateTypeOK
  <1>5. \A r \in Tiers : Splittable(r)'
    BY CheckSplits
  <1>6. QED
    BY <1>2, <1>3, <1>4, <1>5 DEF RateInv

(* The clock: what was let through at a tick that leaves the window leaves  *)
(* the split too, and a process whose entry has died has nothing left in    *)
(* it.                                                                      *)
Cut(f, gone) == [t \in Ticks |-> IF t <= gone THEN 0 ELSE f[t]]

LEMMA CutType ==
    ASSUME RateAssumption, NEW f \in [Ticks -> Nat], NEW gone
    PROVE  /\ Cut(f, gone) \in [Ticks -> Nat]
           /\ \A t \in Ticks : t <= gone => Cut(f, gone)[t] = 0
           /\ \A t \in Ticks : ~(t <= gone) => Cut(f, gone)[t] = f[t]
           /\ SumOf(Cut(f, gone), Ticks) <= SumOf(f, Ticks)
  <1>1. PICK g : g = Cut(f, gone)
    OBVIOUS
  <1>2. /\ g \in [Ticks -> Nat]
        /\ \A t \in Ticks : t <= gone => g[t] = 0
        /\ \A t \in Ticks : ~(t <= gone) => g[t] = f[t]
    BY <1>1 DEF Cut
  <1>3. \A t \in Ticks : g[t] \in Int /\ f[t] \in Int /\ g[t] <= f[t]
    BY <1>2
  <1>4. SumOf(g, Ticks) <= SumOf(f, Ticks)
    BY <1>3, TicksFinite, SumGrows
  <1>5. QED
    BY <1>1, <1>2, <1>4

LEMMA CutSince ==
    ASSUME RateAssumption, NEW f \in [Ticks -> Nat], NEW gone, NEW a
    PROVE  /\ SumOf(Since(Cut(f, gone), a), Ticks) <= SumOf(Since(f, a), Ticks)
           /\ SumOf(Since(Cut(f, gone), a), Ticks) \in Nat
           /\ SumOf(Since(f, a), Ticks) \in Nat
  <1>1. PICK g : g = Cut(f, gone)
    OBVIOUS
  <1>2. /\ g \in [Ticks -> Nat]
        /\ \A t \in Ticks : g[t] = 0 \/ g[t] = f[t]
    BY <1>1, CutType
  <1>3. PICK x, y : x = Since(g, a) /\ y = Since(f, a)
    OBVIOUS
  <1>4. x \in [Ticks -> Nat] /\ y \in [Ticks -> Nat]
    BY <1>2, <1>3, SinceType
  <1>5. \A t \in Ticks : x[t] = 0 \/ x[t] = y[t]
    BY <1>2, <1>3 DEF Since
  <1>6. \A t \in Ticks : x[t] \in Int /\ y[t] \in Int /\ x[t] <= y[t]
    BY <1>4, <1>5
  <1>7. SumOf(x, Ticks) <= SumOf(y, Ticks)
    BY <1>6, TicksFinite, SumGrows
  <1>8. QED
    BY <1>1, <1>2, <1>3, <1>7, SinceType

LEMMA TickSplits ==
    ASSUME RateAssumption, RateTypeOK, RateInv, RateTick, NEW r \in Tiers
    PROVE  Splittable(r)'
  <1>1. PICK redis \in [Ticks -> Nat], own \in [Routers -> [Ticks -> Nat]] :
           Split(r, redis, own)
    BY DEF RateInv, Splittable
  <1>2. /\ at \in Nat /\ at' = at + 1 /\ Window \in Nat \ {0}
        /\ Ticks \in SUBSET Nat /\ UNCHANGED <<zset, bucket, fallback>>
    BY TicksFinite, RateNumbers DEF RateTypeOK, RateTick
  <1>3. PICK gone \in Int : gone = at + 1 - Window
    BY <1>2
  <1>4. gone = at' - Window /\ gone = at - Window + 1
    BY <1>2, <1>3
  <1>5. RedisOnRecord(r, redis) /\ \A q \in Routers : OwnOnRecord(q, r, own[q])
    BY <1>1 DEF Split
  <1>6. ASSUME NEW f \in [Ticks -> Nat], Recent(f)
        PROVE  Recent(Cut(f, gone))'
    <2>1. PICK g : g = Cut(f, gone)
      OBVIOUS
    <2>2. ASSUME NEW t \in Ticks, t <= at' - Window \/ at' < t
          PROVE  g[t] = 0
      <3>1. t <= gone \/ at < t
        BY <1>2, <1>4, <2>2
      <3>2. at < t => f[t] = 0
        BY <1>6 DEF Recent
      <3>3. QED
        BY <2>1, <3>1, <3>2, CutType
    <2>3. Recent(g)'
      BY <2>2 DEF Recent
    <2>4. QED
      BY <2>1, <2>3
  <1>7. PICK new \in [Ticks -> Nat] : new = Cut(redis, gone)
    BY CutType
  <1>8. /\ \A t \in Ticks : new[t] = 0 \/ new[t] = redis[t]
        /\ \A t \in Ticks : t <= gone => new[t] = 0
        /\ Recent(new)'
    <2>1. Recent(redis)
      BY <1>5 DEF RedisOnRecord
    <2>2. QED
      BY <1>6, <1>7, <2>1, CutType
  <1>9. RedisOnRecord(r, new)'
    <2>1. ASSUME r = "global", NEW t \in Ticks
          PROVE  new[t] <= InWindow'[t]
      <3>1. InWindow' = [u \in Ticks |-> IF u <= gone THEN 0 ELSE zset[u]]
        BY <1>2, <1>4 DEF InWindow
      <3>2. CASE t <= gone
        BY <1>8, <3>1, <3>2
      <3>3. CASE ~(t <= gone)
        <4>1. ~(t <= at - Window)
          BY <1>2, <1>4, <3>3
        <4>2. redis[t] <= zset[t]
          BY <1>5, <2>1, <4>1 DEF RedisOnRecord, InWindow
        <4>3. zset[t] \in Nat
          BY RateNumbers DEF RateTypeOK
        <4>4. InWindow'[t] = zset[t]
          BY <3>1, <3>3
        <4>5. QED
          BY <1>8, <4>2, <4>3, <4>4
      <3>4. QED
        BY <3>2, <3>3
    <2>2. ASSUME r = "user"
          PROVE  /\ \A t \in Ticks : bucket'.last < t => new[t] = 0
                 /\ \A a \in Ticks : a <= bucket'.last =>
                       Window * SumOf(Since(new, a), Ticks) + bucket'.shares
                           <= Capacity + (bucket'.last - a) * UserLimit
      <3>1. \A t \in Ticks : bucket'.last < t => new[t] = 0
        BY <1>2, <1>5, <1>8, <2>2 DEF RedisOnRecord
      <3>2. ASSUME NEW a \in Ticks, a <= bucket.last
            PROVE  Window * SumOf(Since(new, a), Ticks) + bucket.shares
                       <= Capacity + (bucket.last - a) * UserLimit
        <4>1. PICK S, N : S = SumOf(Since(redis, a), Ticks)
                          /\ N = SumOf(Since(new, a), Ticks)
          OBVIOUS
        <4>2. S \in Nat /\ N \in Nat /\ N <= S
          BY <1>7, <4>1, CutSince
        <4>3. Window * N <= Window * S
          BY <1>2, <4>2
        <4>4. Window * S + bucket.shares <= Capacity + (bucket.last - a) * UserLimit
          BY <1>5, <2>2, <3>2, <4>1 DEF RedisOnRecord
        <4>5. PICK w \in Int : w = bucket.last - a
          <5>1. bucket.last \in Nat \cup {-1} /\ a \in Nat
            BY TicksFinite DEF RateTypeOK
          <5>2. QED
            BY <5>1
        <4>6. /\ Window * N \in Int /\ Window * S \in Int /\ w * UserLimit \in Int
              /\ bucket.shares \in Int /\ Capacity \in Int
          BY <1>2, <4>2, RateNumbers DEF RateTypeOK
        <4>7. QED
          BY <4>1, <4>3, <4>4, <4>5, <4>6
      <3>3. QED
        BY <1>2, <3>1, <3>2
    <2>3. QED
      BY <1>8, <2>1, <2>2 DEF RedisOnRecord
  <1>10. PICK left : left = [q \in Routers |-> Cut(own[q], gone)]
    OBVIOUS
  <1>11. left \in [Routers -> [Ticks -> Nat]]
    BY <1>10, CutType
  <1>12. ASSUME NEW q \in Routers
         PROVE  OwnOnRecord(q, r, left[q])'
    <2>1. PICK f \in [Ticks -> Nat] : f = own[q]
      OBVIOUS
    <2>2. OwnOnRecord(q, r, f)
      BY <1>5, <2>1
    <2>3. PICK g \in [Ticks -> Nat] : g = Cut(f, gone)
      BY CutType
    <2>4. left[q] = g
      BY <1>10, <2>1, <2>3
    <2>5. Recent(g)'
      BY <1>6, <2>2, <2>3 DEF OwnOnRecord
    <2>6. /\ \A t \in Ticks : g[t] = 0 \/ g[t] = f[t]
          /\ \A t \in Ticks : t <= gone => g[t] = 0
          /\ SumOf(g, Ticks) <= SumOf(f, Ticks)
      BY <2>3, CutType
    <2>7. \A t \in Ticks : g[t] # 0 => t + Window <= fallback'[q][r].until
      BY <1>2, <2>2, <2>6 DEF OwnOnRecord
    <2>8. PICK entry : entry = fallback[q][r]
      OBVIOUS
    <2>9. entry.until \in Nat /\ entry.count \in Nat
      BY <2>8, CountedIs
    <2>10. Counted(q, r)' = IF at + 1 < entry.until THEN entry.count ELSE 0
      BY <1>2, <2>8 DEF Counted
    <2>11. SumOf(g, Ticks) <= Counted(q, r)'
      <3>1. CASE at + 1 < entry.until
        <4>1. Counted(q, r) = entry.count
          BY <1>2, <2>8, <2>9, <3>1 DEF Counted
        <4>2. SumOf(f, Ticks) <= entry.count
          BY <2>2, <4>1 DEF OwnOnRecord
        <4>3. SumOf(f, Ticks) \in Int /\ SumOf(g, Ticks) \in Int
          <5>1. \A t \in Ticks : f[t] \in Int /\ g[t] \in Int
            OBVIOUS
          <5>2. QED
            BY <5>1, TicksFinite, SumIsInt
        <4>4. QED
          BY <2>6, <2>9, <2>10, <3>1, <4>2, <4>3
      <3>2. CASE ~(at + 1 < entry.until)
        <4>1. \A t \in Ticks : g[t] = 0
          <5>1. ASSUME NEW t \in Ticks, g[t] # 0
                PROVE  FALSE
            <6>1. t + Window <= entry.until
              BY <1>2, <2>7, <2>8, <5>1
            <6>2. t <= gone
              BY <1>2, <1>3, <2>9, <3>2, <6>1
            <6>3. QED
              BY <2>6, <5>1, <6>2
          <5>2. QED
            BY <5>1
        <4>2. SumOf(g, Ticks) = 0
          BY <4>1, TicksFinite, SumIsZero
        <4>3. QED
          BY <2>10, <3>2, <4>2
      <3>3. QED
        BY <3>1, <3>2
    <2>12. OwnOnRecord(q, r, g)'
      BY <2>5, <2>7, <2>11 DEF OwnOnRecord
    <2>13. QED
      BY <2>4, <2>12
  <1>13. ASSUME NEW t \in Ticks
         PROVE  admitted'[r][t] = new[t] + AloneAt(left, t)
    <2>1. admitted'[r][t] = IF t <= gone THEN 0 ELSE admitted[r][t]
      BY <1>3 DEF RateTick
    <2>2. PICK f, g : f = [q \in Routers |-> own[q][t]] /\ g = [q \in Routers |-> left[q][t]]
      OBVIOUS
    <2>3. AloneAt(own, t) = SumOf(f, Routers) /\ AloneAt(left, t) = SumOf(g, Routers)
      BY <2>2 DEF AloneAt
    <2>4. \A q \in Routers : g[q] = Cut(own[q], gone)[t] /\ f[q] = own[q][t]
      BY <1>10, <2>2
    <2>5. CASE t <= gone
      <3>1. \A q \in Routers : g[q] = 0
        BY <2>4, <2>5, CutType
      <3>2. SumOf(g, Routers) = 0
        BY <3>1, RateNumbers, SumIsZero
      <3>3. QED
        BY <1>8, <2>1, <2>3, <2>5, <3>2
    <2>6. CASE ~(t <= gone)
      <3>1. \A q \in Routers : g[q] = f[q]
        BY <2>4, <2>6, CutType
      <3>2. SumOf(g, Routers) = SumOf(f, Routers)
        BY <3>1, RateNumbers, SumAgrees
      <3>3. new[t] = redis[t]
        BY <1>7, <2>6, CutType
      <3>4. QED
        BY <1>1, <2>1, <2>3, <2>6, <3>2, <3>3 DEF Split
    <2>7. QED
      BY <2>5, <2>6
  <1>14. Split(r, new, left)'
    BY <1>9, <1>12, <1>13 DEF Split
  <1>15. QED
    BY <1>11, <1>14 DEF Splittable

LEMMA TickKeeps ==
    ASSUME RateAssumption, RateTypeOK, RateInv, RateTick
    PROVE  RateTypeOK' /\ RateInv'
  <1>1. /\ at \in Nat /\ at \in Ticks /\ at' = at + 1 /\ at < RateHorizon
        /\ RateHorizon \in Nat /\ Window \in Nat \ {0} /\ Ticks \in SUBSET Nat
        /\ UNCHANGED <<zset, bucket, fallback, redisUp, passed>>
    BY TicksFinite, RateNumbers DEF RateTypeOK, RateTick
  <1>2. at' \in Ticks
    BY <1>1 DEF Ticks
  <1>3. admitted' \in [Tiers -> [Ticks -> Nat]]
    BY DEF RateTick, RateTypeOK
  <1>4. RateTypeOK'
    BY <1>1, <1>2, <1>3 DEF RateTypeOK
  <1>5. ScoresDated'
    <2>1. \A t \in Ticks : t \in Nat /\ (at + 1 < t => at < t)
      BY <1>1
    <2>2. QED
      BY <1>1, <2>1 DEF RateInv, ScoresDated
  <1>6. WindowTotal' <= GlobalLimit
    <2>1. PICK f, g : f = InWindow /\ g = InWindow'
      OBVIOUS
    <2>2. f \in [Ticks -> Nat] /\ WindowTotal \in Nat /\ GlobalLimit \in Nat
      BY <2>1, InWindowType, RateNumbers
    <2>3. /\ f = [t \in Ticks |-> IF t <= at - Window THEN 0 ELSE zset[t]]
          /\ g = [t \in Ticks |-> IF t <= at + 1 - Window THEN 0 ELSE zset[t]]
      BY <1>1, <2>1 DEF InWindow
    <2>4. \A t \in Ticks : g[t] = 0 \/ g[t] = f[t]
      BY <1>1, <2>3
    <2>5. \A t \in Ticks : g[t] \in Int /\ f[t] \in Int /\ g[t] <= f[t]
      BY <2>2, <2>4
    <2>6. SumOf(g, Ticks) <= SumOf(f, Ticks) /\ SumOf(g, Ticks) \in Int
      BY <2>5, TicksFinite, SumGrows, SumIsInt
    <2>7. WindowTotal' = SumOf(g, Ticks) /\ WindowTotal = SumOf(f, Ticks)
      BY <2>1 DEF WindowTotal
    <2>8. QED
      BY <2>2, <2>6, <2>7 DEF RateInv
  <1>7. bucket'.last <= at'
    <2>1. bucket.last \in Nat \cup {-1} /\ bucket.last <= at
      BY TicksFinite DEF RateTypeOK, RateInv
    <2>2. QED
      BY <1>1, <2>1
  <1>8. \A q \in Routers, r \in Tiers : fallback'[q][r].count <= Limit(r)
    BY <1>1 DEF RateInv
  <1>9. \A r \in Tiers : Splittable(r)'
    BY TickSplits
  <1>10. QED
    BY <1>4, <1>5, <1>6, <1>7, <1>8, <1>9 DEF RateInv

(* The record and the window are those of the state: a step that leaves the *)
(* counters, the time and the admitted calls alone leaves the split alone.  *)
LEMMA IdleKeeps ==
    ASSUME RateTypeOK, RateInv, redisUp' \in BOOLEAN,
           UNCHANGED <<zset, bucket, fallback, passed, at, admitted>>
    PROVE  RateTypeOK' /\ RateInv'
  <1>1. RateTypeOK'
    BY DEF RateTypeOK
  <1>2. InWindow' = InWindow
    BY DEF InWindow
  <1>3. WindowTotal' <= GlobalLimit /\ ScoresDated'
    BY <1>2 DEF WindowTotal, RateInv, ScoresDated
  <1>4. ASSUME NEW r \in Tiers
        PROVE  Splittable(r)'
    <2>1. PICK redis \in [Ticks -> Nat], own \in [Routers -> [Ticks -> Nat]] :
             Split(r, redis, own)
      BY DEF RateInv, Splittable
    <2>2. RedisOnRecord(r, redis)'
      <3>1. Recent(redis)'
        BY <2>1 DEF Split, RedisOnRecord, Recent
      <3>2. QED
        BY <1>2, <2>1, <3>1 DEF Split, RedisOnRecord
    <2>3. \A q \in Routers : OwnOnRecord(q, r, own[q])'
      BY <2>1, OwnRecordKept DEF Split
    <2>4. Split(r, redis, own)'
      BY <2>1, <2>2, <2>3 DEF Split
    <2>5. QED
      BY <2>4 DEF Splittable
  <1>5. QED
    BY <1>1, <1>3, <1>4 DEF RateInv

(* However often Redis goes away and comes back, and whichever answers are  *)
(* lost, no minute lets through more than a limit of the shared counters    *)
(* (two for the bucket, full and refilled) and a limit for each process.    *)
THEOREM RatesAreBounded == RateSpec => [](RateTypeOK /\ RatesBounded)
  <1>1. RateInit => RateTypeOK /\ RateInv
    BY RateAssumption, InitRates
  <1>2. RateTypeOK /\ RateInv /\ [NextRate]_rateVars => (RateTypeOK /\ RateInv)'
    <2>1. SUFFICES ASSUME RateTypeOK, RateInv, [NextRate]_rateVars
                   PROVE  RateTypeOK' /\ RateInv'
      OBVIOUS
    <2>2. ASSUME NEW p \in Routers, NEW tier \in Tiers, Checked(p, tier)
          PROVE  RateTypeOK' /\ RateInv'
      BY <2>1, <2>2, RateAssumption, CheckKeeps
    <2>3. CASE RedisTurns
      <3>1. redisUp' \in BOOLEAN
        BY <2>3 DEF RedisTurns
      <3>2. QED
        BY <2>1, <2>3, <3>1, IdleKeeps DEF RedisTurns
    <2>4. CASE RateTick
      BY <2>1, <2>4, RateAssumption, TickKeeps
    <2>5. CASE UNCHANGED rateVars
      <3>1. redisUp' \in BOOLEAN
        BY <2>1, <2>5 DEF rateVars, RateTypeOK
      <3>2. QED
        BY <2>1, <2>5, <3>1, IdleKeeps DEF rateVars
    <2>6. QED
      BY <2>1, <2>2, <2>3, <2>4, <2>5 DEF NextRate, Checked
  <1>3. RateTypeOK /\ RateInv => RatesBounded
    BY RateAssumption, RateInvBounds
  <1>4. QED
    BY <1>1, <1>2, <1>3, PTL DEF RateSpec
=============================================================================

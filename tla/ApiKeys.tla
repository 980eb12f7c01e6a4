------------------------------- MODULE ApiKeys -------------------------------
(***************************************************************************)
(* API keys of user-service (services/api_key_service.py) and the router's *)
(* cache of validated keys (core/dependencies.py of router-service).       *)
(*                                                                         *)
(* Every request of user-service runs in a transaction of its own.  It     *)
(* reads a snapshot when it begins, without row locks, and its UPDATE,     *)
(* flushed at the commit, writes the columns it changed and no others.     *)
(* Between the two other requests commit.                                  *)
(*                                                                         *)
(* The router keeps what a validation returned for KeyTTL ticks and admits *)
(* calls with it without asking again.  A validation must be answered      *)
(* within KeyTimeout ticks, or the router gives up on it.                  *)
(***************************************************************************)
EXTENDS Integers, FiniteSets

CONSTANTS Keys, KeyUsers,
          Owner,        \* Owner[k] : the user who may create the key k
          KeyRequests,  \* requests user-service may be serving at a time
          MaxKeys,      \* MAX_API_KEYS_PER_USER
          Limits,       \* quota limits asked for; 0 is MODE_UNLIMITED
          Expiries,     \* values of expires_at; Never stands for NULL
          Never, None,
          KeyTTL,       \* _API_KEY_CACHE_TTL
          KeyTimeout,   \* IDENTITY_TIMEOUT_SECONDS
          KeyHorizon,   \* bound: the last tick of the clock
          KeyBudget     \* bound: the number of requests and other events

ASSUME KeysAssumption ==
    /\ IsFiniteSet(Keys) /\ Owner \in [Keys -> KeyUsers]
    /\ IsFiniteSet(KeyRequests) /\ KeyRequests # {}
    /\ MaxKeys \in Nat \ {0}
    /\ Limits \subseteq Nat
    /\ KeyHorizon \in Nat /\ Never \in Nat /\ Never > KeyHorizon
    /\ Expiries \subseteq Nat
    /\ KeyTTL \in Nat \ {0} /\ KeyTimeout \in Nat \ {0}
    /\ KeyBudget \in Nat

VARIABLES
    key,      \* user_api_keys rows
    owner,    \* users rows: [active, funded]
    keyReq,   \* what each request is doing
    cache,    \* _api_key_cache of the router, by key
    clock,
    issued,   \* number of requests and other events so far
    seen      \* seen[k][f] : when k was last usable with funded = f, or -1

keyVars == <<key, owner, keyReq, cache, clock, issued, seen>>

-----------------------------------------------------------------------------
Statuses == {"active", "disabled", "expired", "exhausted"}

KeyRow == [stored : {"no", "yes", "deleted"}, status : Statuses,
           limit : Nat, used : Nat, expires : Nat]

NoKey == [stored |-> "no", status |-> "active", limit |-> 0, used |-> 0,
          expires |-> Never]

NewKey(limit, expires) ==
    [NoKey EXCEPT !.stored = "yes", !.limit = limit, !.expires = expires]

NoEntry == [until |-> 0, funded |-> FALSE]

OwnerRow == [active : BOOLEAN, funded : BOOLEAN]

KeyOps == {"create", "update", "disable", "delete", "enable", "validate"}
KeyStages == {"sent", "read", "accepted", "refused"}

NewKeys == [limit : Limits, expires : Expiries]

(* PATCH /keys/{id}: one of a new quota_limit (0: not given), a new        *)
(* expires_at (0: not given) and reset_quota_used.                         *)
Patches == {[limit |-> l, expires |-> 0, reset |-> FALSE] : l \in Limits}
           \cup {[limit |-> 0, expires |-> e, reset |-> FALSE] : e \in Expiries}
           \cup {[limit |-> 0, expires |-> 0, reset |-> TRUE]}

KeyRequest == [op : KeyOps, k : Keys, arg : NewKeys \cup Patches \cup {None},
               stage : KeyStages, row : KeyRow, user : OwnerRow,
               room : BOOLEAN, sent : Nat, heard : BOOLEAN]

KeyIdle == [op |-> "none"]
Busy(q) == keyReq[q].op # "none"

Live(row) == row.stored = "yes"
LiveKeys(u) == {k \in Keys : Owner[k] = u /\ Live(key[k])}

Exhausted(row) == row.limit > 0 /\ row.used >= row.limit

(* Variant: no early return for a disabled key. *)
RefreshedAlways(row, t) ==
    [row EXCEPT !.status = IF row.expires <= t THEN "expired"
                           ELSE IF Exhausted(row) THEN "exhausted" ELSE "active"]

(* _refresh_status, at time t. *)
Refreshed(row, t) ==
    [row EXCEPT !.status =
        CASE row.status = "disabled" -> "disabled"
          [] row.status # "disabled" /\ row.expires <= t -> "expired"
          [] row.status # "disabled" /\ row.expires > t ->
                IF Exhausted(row) THEN "exhausted" ELSE "active"]

(* What a flush makes of a row: the columns that differ from what the      *)
(* session loaded get their new value.                                     *)
Flushed(row, loaded, computed) ==
    [c \in DOMAIN row |->
        IF computed[c] # loaded[c] THEN computed[c] ELSE row[c]]

Usable(k, t) == /\ Live(key[k])
                /\ owner[Owner[k]].active
                /\ Refreshed(key[k], t).status = "active"

(* Ghost: remembers the instants a key was usable. *)
Observe ==
    seen' = [k \in Keys |-> [f \in BOOLEAN |->
                IF Usable(k, clock)' /\ owner'[Owner[k]].funded = f
                THEN clock' ELSE seen[k][f]]]

Cached(k) == clock < cache[k].until

KeysInit ==
    /\ key \in [Keys -> {NoKey} \cup
                          {NewKey(l, e) : l \in Limits, e \in Expiries}]
    /\ \A u \in KeyUsers : Cardinality(LiveKeys(u)) <= MaxKeys
    /\ owner = [u \in KeyUsers |-> [active |-> TRUE, funded |-> TRUE]]
    /\ keyReq = [q \in KeyRequests |-> KeyIdle]
    /\ cache = [k \in Keys |-> NoEntry]
    /\ clock = 0
    /\ issued = 0
    /\ seen = [k \in Keys |-> [f \in BOOLEAN |->
                  IF Usable(k, 0) /\ f THEN 0 ELSE -1]]

-----------------------------------------------------------------------------
(* Requests begin. *)

(* Variant: the count is compared with > instead of >=. *)
SnapshotOneMore(op, k, arg, stage) ==
    [op |-> op, k |-> k, arg |-> arg, stage |-> stage, row |-> key[k],
     user |-> owner[Owner[k]],
     room |-> Cardinality(LiveKeys(Owner[k])) <= MaxKeys,
     sent |-> clock, heard |-> TRUE]

(* "sent": a validation that has not read anything yet; "read": a request  *)
(* with its snapshot.                                                      *)
Snapshot(op, k, arg, stage) ==
    [op |-> op, k |-> k, arg |-> arg, stage |-> stage, row |-> key[k],
     user |-> owner[Owner[k]],
     room |-> Cardinality(LiveKeys(Owner[k])) < MaxKeys,
     sent |-> clock, heard |-> TRUE]

(* Bound on what users, administrators and callers ask for. *)
Count == issued < KeyBudget /\ issued' = issued + 1

Begin(q, op, k, arg, stage) ==
    /\ ~Busy(q) /\ Count
    /\ keyReq' = [keyReq EXCEPT ![q] = Snapshot(op, k, arg, stage)]
    /\ UNCHANGED <<key, owner, cache, clock, seen>>

(* POST /keys: ids are fresh. *)
BeginCreate(q, k, limit, expires) ==
    /\ key[k].stored = "no" /\ owner[Owner[k]].active
    /\ \A p \in KeyRequests : Busy(p) => keyReq[p].k # k
    /\ Begin(q, "create", k, [limit |-> limit, expires |-> expires], "read")

BeginUpdate(q, k, patch) ==
    /\ Live(key[k]) /\ owner[Owner[k]].active
    /\ Begin(q, "update", k, patch, "read")

(* DELETE /keys/{id} by their owner, POST /keys/{id}/disable by the owner  *)
(* or an administrator, and enable by an administrator, who act whatever   *)
(* the owner's status.                                                     *)
BeginChange(q, k, op) ==
    /\ Live(key[k]) /\ (op = "delete" => owner[Owner[k]].active)
    /\ Begin(q, op, k, None, "read")

(* A miss of the cache: the router asks user-service, which reads the key  *)
(* and the user some time later.                                           *)
BeginValidate(q, k) ==
    /\ key[k].stored # "no" /\ ~Cached(k)
    /\ Begin(q, "validate", k, None, "sent")

ReadKey(q) ==
    /\ Busy(q) /\ keyReq[q].stage = "sent"
    /\ keyReq' = [keyReq EXCEPT ![q] =
          [Snapshot(@.op, @.k, @.arg, "read") EXCEPT !.sent = keyReq[q].sent,
                                                     !.heard = keyReq[q].heard]]
    /\ UNCHANGED <<key, owner, cache, clock, issued, seen>>

-----------------------------------------------------------------------------
(* Requests commit. *)

(* The router is waiting for the answer. *)
Awaited(q) == Busy(q) /\ keyReq[q].op = "validate" /\ keyReq[q].heard

End(q) == keyReq' = [keyReq EXCEPT ![q] = KeyIdle]

Doing(q, op) == Busy(q) /\ keyReq[q].op = op /\ keyReq[q].stage = "read"

Write(q, computed) ==
    key' = [key EXCEPT ![keyReq[q].k] =
              Flushed(@, keyReq[q].row, computed)]

Rest == UNCHANGED <<owner, cache, clock, issued>> /\ Observe

(* ApiKeyService.create: refused when the user had MaxKeys keys. *)
Create(q) ==
    /\ Doing(q, "create")
    /\ LET r == keyReq[q] IN
       IF r.room
       THEN key' = [key EXCEPT ![r.k] = NewKey(r.arg.limit, r.arg.expires)]
       ELSE UNCHANGED key
    /\ End(q) /\ Rest

Patched(row, patch) ==
    [row EXCEPT !.limit = IF patch.limit > 0 THEN patch.limit ELSE @,
                !.expires = IF patch.expires > 0 THEN patch.expires ELSE @,
                !.used = IF patch.reset THEN 0 ELSE @]

(* ApiKeyService.update: a limit is refused for a key without one. *)
Update(q) ==
    /\ Doing(q, "update")
    /\ LET r == keyReq[q] IN
       IF r.arg.limit > 0 /\ r.row.limit = 0
       THEN UNCHANGED key
       ELSE Write(q, Refreshed(Patched(r.row, r.arg), clock))
    /\ End(q) /\ Rest

Disable(q) ==
    /\ Doing(q, "disable")
    /\ Write(q, [keyReq[q].row EXCEPT !.status = "disabled"])
    /\ End(q) /\ Rest

Enable(q) ==
    /\ Doing(q, "enable")
    /\ Write(q, Refreshed([keyReq[q].row EXCEPT !.status = "active"], clock))
    /\ End(q) /\ Rest

Delete(q) ==
    /\ Doing(q, "delete")
    /\ Write(q, [keyReq[q].row EXCEPT !.stored = "deleted"])
    /\ End(q) /\ Rest

(* ApiKeyService.validate_by_hash: the status is brought up to date, and   *)
(* the answer carries the balance the transaction has read.                *)
Validate(q) ==
    /\ Doing(q, "validate")
    /\ LET r == keyReq[q]
           found == Live(r.row) /\ r.user.active
           computed == Refreshed(r.row, clock)
       IN  /\ IF found THEN Write(q, computed) ELSE UNCHANGED key
           /\ keyReq' = [keyReq EXCEPT ![q] =
                 IF ~r.heard THEN KeyIdle
                 ELSE IF found /\ computed.status = "active"
                 THEN [@ EXCEPT !.stage = "accepted"]
                 ELSE [@ EXCEPT !.stage = "refused"]]
    /\ Rest

(* A call of the key is billed (BalanceService.consume), under a row lock. *)
Bill(k) ==
    /\ Live(key[k]) /\ Count
    /\ key' = [key EXCEPT ![k].used = @ + 1]
    /\ UNCHANGED <<owner, keyReq, cache, clock>> /\ Observe

(* update_user_status: keys that are active are disabled with the user.    *)
(* The UPDATE sees the latest rows.  They stay disabled when the user is   *)
(* enabled again.                                                          *)
SetUserStatus(u, on) ==
    /\ owner[u].active # on /\ Count
    /\ owner' = [owner EXCEPT ![u].active = on]
    /\ key' = [k \in Keys |->
                  IF ~on /\ Owner[k] = u /\ Live(key[k])
                     /\ key[k].status = "active"
                  THEN [key[k] EXCEPT !.status = "disabled"] ELSE key[k]]
    /\ UNCHANGED <<keyReq, cache, clock>> /\ Observe

(* The balance reaches zero, or is topped up. *)
Fund(u) ==
    /\ Count
    /\ owner' = [owner EXCEPT ![u].funded = ~@]
    /\ UNCHANGED <<key, keyReq, cache, clock>> /\ Observe

-----------------------------------------------------------------------------
(* The router. *)

(* The answer arrives: the principal is cached, and the call goes on. *)
CacheAnswer(q) ==
    /\ Busy(q) /\ keyReq[q].stage \in {"accepted", "refused"}
    /\ cache' = IF keyReq[q].stage = "accepted"
                THEN [cache EXCEPT ![keyReq[q].k] =
                        [until |-> clock + KeyTTL,
                         funded |-> keyReq[q].user.funded]]
                ELSE cache
    /\ End(q)
    /\ UNCHANGED <<key, owner, clock, issued>> /\ Observe

(* The router gives up on a validation; user-service may still perform it. *)
GiveUp(q) ==
    /\ Awaited(q)
    /\ keyReq' = [keyReq EXCEPT ![q] =
                     IF @.stage \in {"sent", "read"}
                     THEN [@ EXCEPT !.heard = FALSE] ELSE KeyIdle]
    /\ UNCHANGED <<key, owner, cache, clock, issued, seen>>

(* Variant: a hit renews the entry. *)
CacheHitRenewing(k) ==
    /\ Cached(k)
    /\ cache' = [cache EXCEPT ![k].until = clock + KeyTTL]
    /\ UNCHANGED <<key, owner, keyReq, clock, issued, seen>>

(* A hit: the call is admitted on the cached principal. *)
CacheHit(k) ==
    /\ Cached(k)
    /\ UNCHANGED keyVars

Tick ==
    /\ clock < KeyHorizon
    /\ \A q \in KeyRequests :
          Awaited(q) => clock - keyReq[q].sent < KeyTimeout
    /\ clock' = clock + 1
    /\ UNCHANGED <<key, owner, keyReq, cache, issued>> /\ Observe

NextKeys ==
    \/ \E q \in KeyRequests, k \in Keys :
          \/ \E l \in Limits, e \in Expiries : BeginCreate(q, k, l, e)
          \/ \E patch \in Patches : BeginUpdate(q, k, patch)
          \/ \E op \in {"disable", "enable", "delete"} : BeginChange(q, k, op)
          \/ BeginValidate(q, k)
    \/ \E q \in KeyRequests :
          \/ Create(q) \/ Update(q) \/ Disable(q) \/ Enable(q) \/ Delete(q)
          \/ ReadKey(q) \/ Validate(q) \/ CacheAnswer(q) \/ GiveUp(q)
    \/ \E k \in Keys : Bill(k) \/ CacheHit(k)
    \/ \E u \in KeyUsers : Fund(u) \/ \E on \in BOOLEAN : SetUserStatus(u, on)
    \/ Tick

KeysSpec == KeysInit /\ [][NextKeys]_keyVars

-----------------------------------------------------------------------------
KeysTypeOK ==
    /\ key \in [Keys -> KeyRow]
    /\ owner \in [KeyUsers -> OwnerRow]
    /\ keyReq \in [KeyRequests -> KeyRequest \cup {KeyIdle}]
    /\ cache \in [Keys -> [until : Nat, funded : BOOLEAN]]
    /\ clock \in 0..KeyHorizon /\ issued \in 0..KeyBudget
    /\ seen \in [Keys -> [BOOLEAN -> Int]]

RevivedKnowingly ==
    \A k \in Keys :
       key[k].status = "disabled" /\ key'[k].status # "disabled" =>
          \E q \in KeyRequests :
             /\ Busy(q) /\ keyReq'[q] # keyReq[q] /\ keyReq[q].k = k
             /\ \/ keyReq[q].op = "enable"
                \/ keyReq[q].row.status # "disabled"

(* A disabled key becomes anything else only through an enable of the      *)
(* administrator, or through a request that had read the key before it was *)
(* disabled: no refresh of the status that sees the key disabled revives   *)
(* it, by a new limit, a reset of the quota or a validation.               *)
DisabledStays == [][RevivedKnowingly]_keyVars

(* The number of keys of a user exceeds MAX_API_KEYS_PER_USER by less than *)
(* the number of requests served at a time, whatever is created, disabled  *)
(* and deleted: the count and the insert are not one step.                 *)
KeysBounded ==
    \A u \in KeyUsers :
       Cardinality(LiveKeys(u)) < MaxKeys + Cardinality(KeyRequests)

(* What the router admits a call on is recent: a key it serves from the    *)
(* cache was usable, and its user's balance was on the side of zero the    *)
(* cached principal says, less than KeyTTL + KeyTimeout ticks ago.  So a   *)
(* disabled, deleted, expired or exhausted key is refused, and a topped-up *)
(* user is served, after that time at the latest.                          *)
CacheIsRecent ==
    \A k \in Keys :
       Cached(k) => /\ seen[k][cache[k].funded] >= 0
                    /\ clock - seen[k][cache[k].funded] < KeyTTL + KeyTimeout
=============================================================================

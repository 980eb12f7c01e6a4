------------------------------- MODULE Wallet -------------------------------
(***************************************************************************)
(* The wallet of user-service: users.balance and users.used_amount, the    *)
(* balance_transactions ledger, top-up orders, voucher codes and API-key   *)
(* quota, under concurrent requests.  Every request runs in a database     *)
(* transaction of its own (one SQLAlchemy session per request).            *)
(*                                                                         *)
(* Two facts of the runtime decide what can happen:                        *)
(*  - row locks: SELECT ... FOR UPDATE takes an exclusive lock on the row, *)
(*    an INSERT with a foreign key to users a shared one, both held to the *)
(*    end of the transaction;                                              *)
(*  - the identity map: a row a session has already loaded is NOT loaded   *)
(*    again by a later SELECT ... FOR UPDATE of that session.  The admin   *)
(*    endpoints (_get_user_or_404) and voucher redemption                  *)
(*    (require_active_user) load the user before they lock it, so they     *)
(*    compute with the balance they first saw.  Billing does not.          *)
(*                                                                         *)
(* An UPDATE writes the new value of the columns that changed, and only    *)
(* those.  Amounts are in micro-yuan.                                      *)
(***************************************************************************)
EXTENDS Integers, FiniteSets, FiniteSetsExt

CONSTANTS Users, Sessions, Orders, Vouchers, Calls, Keys,
          Amounts,     \* amounts of orders, vouchers and adjustments
          CallUser,    \* CallUser[c] : the user of the api_call_logs row c
          CallKey,     \* CallKey[c]  : its api_key_id, or None
          CallCost,    \* CallCost[c] : its cost, as the router computed it
          Opening,     \* Opening[u]  : credited to u by earlier top-ups
          Mix,         \* the kinds of request the deployment is serving
          None

Kinds == {"TOPUP", "VOUCHER_REDEEM", "ADMIN_ADJUST", "CONSUME"}

ASSUME WalletAssumption ==
    /\ Amounts \subseteq Nat \ {0}
    /\ CallUser \in [Calls -> Users]
    /\ CallKey \in [Calls -> Keys \cup {None}]
    /\ CallCost \in [Calls -> Nat \ {0}]
    /\ Opening \in [Users -> Nat]
    /\ Mix \subseteq Kinds
    /\ None \notin Keys \cup Orders \cup Vouchers \cup Calls

VARIABLES
    user,      \* committed users rows: [balance, used]
    ledger,    \* the (type, ref) keys of committed balance_transactions
    booked,    \* booked[u][t] : SUM(amount) of u's committed rows of type t
    order,     \* order[o] : status of the topup_orders row, or "none"
    voucher,   \* voucher[v] : [status, amount], status "none" before issue
    quota,     \* quota[k] : user_api_keys.quota_used
    liveKeys,  \* keys whose deleted_at is NULL
    sess       \* sess[s] : the request the session is serving

vars == <<user, ledger, booked, order, voucher, quota, liveKeys, sess>>
tables == <<user, ledger, booked, order, voucher, quota, liveKeys>>

-----------------------------------------------------------------------------
(* The stages of a request.  "open": it has run its unlocked reads.        *)
(* "shared": it has flushed a row that refers to the user, and holds a     *)
(* shared lock on the user's row.  "code": it holds the voucher's row.     *)
(* "exclusive": it holds the user's row FOR UPDATE (and "code", if it      *)
(* redeems).  The commit ends the request and releases its locks.          *)
Idle == [stage |-> "idle"]

Refs == Orders \cup Vouchers \cup Calls \cup {None}

Row == [balance : Nat, used : Nat]

Busy == [stage : {"open", "shared", "code", "exclusive"}, kind : Kinds,
         user : Users, ref : Refs, amount : Int, copy : Row]

(* Kinds of request that load the user before they lock it. *)
Preloading == {"TOPUP", "VOUCHER_REDEEM", "ADMIN_ADJUST"}

Total(u) == booked[u]["TOPUP"] + booked[u]["VOUCHER_REDEEM"]
            + booked[u]["ADMIN_ADJUST"] + booked[u]["CONSUME"]

Request(k, u, r, a) ==
    [stage |-> "open", kind |-> k, user |-> u, ref |-> r, amount |-> a,
     copy |-> IF k \in Preloading THEN user[u]
              ELSE [balance |-> 0, used |-> 0]]

At(s, stage) == sess[s].stage = stage
Is(s, kind)  == sess[s].kind = kind

Serves(s, r) == ~At(s, "idle") /\ sess[s].ref = r
HoldsUser(s, u) == At(s, "exclusive") /\ sess[s].user = u
SharesUser(s, u) == At(s, "shared") /\ sess[s].user = u
HoldsCode(s, v) == /\ sess[s].stage \in {"code", "exclusive"}
                   /\ Is(s, "VOUCHER_REDEEM")
                   /\ sess[s].ref = v

Others(s) == Sessions \ {s}

Init ==
    /\ user = [u \in Users |-> [balance |-> Opening[u], used |-> 0]]
    /\ ledger = {}
    /\ booked = [u \in Users |->
                    [t \in Kinds |-> IF t = "TOPUP" THEN Opening[u] ELSE 0]]
    /\ order = [o \in Orders |-> "none"]
    /\ voucher = [v \in Vouchers |-> [status |-> "none", amount |-> 0]]
    /\ quota = [k \in Keys |-> 0]
    /\ liveKeys = Keys
    /\ sess = [s \in Sessions |-> Idle]

-----------------------------------------------------------------------------
(* Requests arriving. *)

Open(s, request) ==
    /\ At(s, "idle")
    /\ request.kind \in Mix
    /\ sess' = [sess EXCEPT ![s] = request]
    /\ UNCHANGED tables

(* POST /users/{uid}/topup: a fresh order number is drawn. *)
BeginTopup(s, u, o, a) ==
    /\ order[o] = "none"
    /\ \A t \in Others(s) : ~Serves(t, o)
    /\ Open(s, Request("TOPUP", u, o, a))

(* POST /billing/vouchers/redeem: the code must exist. *)
BeginRedeem(s, u, v) ==
    /\ voucher[v].status # "none"
    /\ Open(s, Request("VOUCHER_REDEEM", u, v, voucher[v].amount))

(* POST /users/{uid}/adjust-balance, upwards or downwards. *)
BeginAdjust(s, u, a) ==
    Open(s, Request("ADMIN_ADJUST", u, None, a))

(* A call is billed; a row for it is already there => nothing to do.       *)
(* The router may deliver the same call twice, and two sessions may both   *)
(* find no row.                                                            *)
BeginConsume(s, c) ==
    /\ <<"CONSUME", c>> \notin ledger
    /\ Open(s, Request("CONSUME", CallUser[c], c, CallCost[c]))

-----------------------------------------------------------------------------
(* Locking. *)

(* Flush of a row that refers to the user: the order of a top-up, or the   *)
(* api_call_logs row a batch entry inserts just before it is billed.       *)
InsertChild(s) ==
    /\ At(s, "open")
    /\ Is(s, "TOPUP") \/ Is(s, "CONSUME")
    /\ \A t \in Others(s) : ~HoldsUser(t, sess[s].user)
    /\ sess' = [sess EXCEPT ![s].stage = "shared"]
    /\ UNCHANGED tables

(* The code is locked before the user, and must be active. *)
LockCode(s) ==
    /\ At(s, "open") /\ Is(s, "VOUCHER_REDEEM")
    /\ \A t \in Others(s) : ~HoldsCode(t, sess[s].ref)
    /\ voucher[sess[s].ref].status = "active"
    /\ sess' = [sess EXCEPT ![s].stage = "code"]
    /\ UNCHANGED tables

ReadyToLock(s) ==
    \/ Is(s, "TOPUP") /\ At(s, "shared")
    \/ Is(s, "VOUCHER_REDEEM") /\ At(s, "code")
    \/ Is(s, "ADMIN_ADJUST") /\ At(s, "open")
    \/ Is(s, "CONSUME") /\ sess[s].stage \in {"open", "shared"}

UserFree(s) == \A t \in Others(s) : /\ ~HoldsUser(t, sess[s].user)
                                    /\ ~SharesUser(t, sess[s].user)

(* Variant: the row is read without FOR UPDATE.                            *)
LockUserWithoutLock(s) ==
    /\ ~At(s, "idle") /\ ReadyToLock(s)
    /\ sess' = [sess EXCEPT ![s].stage = "exclusive",
                            ![s].copy = IF sess[s].kind \in Preloading
                                        THEN @ ELSE user[sess[s].user]]
    /\ UNCHANGED tables

(* UserRepository.get_by_id(for_update=True): the row is loaded only if    *)
(* the session has not loaded it before.                                   *)
LockUser(s) ==
    /\ ~At(s, "idle") /\ ReadyToLock(s)
    /\ UserFree(s)
    /\ sess' = [sess EXCEPT ![s].stage = "exclusive",
                            ![s].copy = IF sess[s].kind \in Preloading
                                        THEN @ ELSE user[sess[s].user]]
    /\ UNCHANGED tables

-----------------------------------------------------------------------------
(* Ends of a request. *)

End(s) == sess' = [sess EXCEPT ![s] = Idle]

(* Variant: no unique key on (type, ref_type, ref_id).                     *)
PostWithoutUniqueKey(s, amount) ==
    /\ ledger' = ledger \cup {<<sess[s].kind, sess[s].ref>>}
    /\ booked' = [booked EXCEPT ![sess[s].user][sess[s].kind] = @ + amount]

(* The ledger row of the request, inserted at flush.  *)
Post(s, amount) ==
    LET u == sess[s].user
        k == sess[s].kind
    IN  /\ <<k, sess[s].ref>> \notin ledger
        /\ ledger' = ledger \cup {<<k, sess[s].ref>>}
        /\ booked' = [booked EXCEPT ![u][k] = @ + amount]

(* Variant: the UPDATE writes every column of the loaded row.              *)
CommitTopupAllColumns(s) ==
    /\ At(s, "exclusive") /\ Is(s, "TOPUP")
    /\ Post(s, sess[s].amount)
    /\ user' = [user EXCEPT ![sess[s].user] =
                  [balance |-> sess[s].copy.balance + sess[s].amount,
                   used |-> sess[s].copy.used]]
    /\ order' = [order EXCEPT ![sess[s].ref] = "paid"]
    /\ End(s)
    /\ UNCHANGED <<voucher, quota, liveKeys>>

(* BalanceService.topup, from the lock to the commit. *)
CommitTopup(s) ==
    /\ At(s, "exclusive") /\ Is(s, "TOPUP")
    /\ Post(s, sess[s].amount)
    /\ user' = [user EXCEPT ![sess[s].user].balance =
                                sess[s].copy.balance + sess[s].amount]
    /\ order' = [order EXCEPT ![sess[s].ref] = "paid"]
    /\ End(s)
    /\ UNCHANGED <<voucher, quota, liveKeys>>

(* VoucherService.redeem_code, from the lock to the commit.                *)
CommitRedeem(s) ==
    /\ At(s, "exclusive") /\ Is(s, "VOUCHER_REDEEM")
    /\ Post(s, sess[s].amount)
    /\ user' = [user EXCEPT ![sess[s].user].balance =
                                sess[s].copy.balance + sess[s].amount]
    /\ voucher' = [voucher EXCEPT ![sess[s].ref].status = "redeemed"]
    /\ End(s)
    /\ UNCHANGED <<order, quota, liveKeys>>

(* The code is not active, or its validity window does not contain now. *)
RejectRedeem(s) ==
    /\ At(s, "open") /\ Is(s, "VOUCHER_REDEEM")
    /\ \A t \in Others(s) : ~HoldsCode(t, sess[s].ref)
    /\ End(s)
    /\ UNCHANGED tables

(* A negative result is refused; otherwise the BalanceTransaction          *)
(* constructor raises for want of ref_type and ref_id.  Both roll back.    *)
FailAdjust(s) ==
    /\ At(s, "exclusive") /\ Is(s, "ADMIN_ADJUST")
    /\ End(s)
    /\ UNCHANGED tables

(* Quota is charged if the call's key has not been deleted. *)
Charge(c) ==
    IF CallKey[c] \in liveKeys
    THEN quota' = [quota EXCEPT ![CallKey[c]] = @ + CallCost[c]]
    ELSE quota' = quota

(* Variant: the call happened, so it is charged whatever the balance.      *)
CommitConsumeUnchecked(s) ==
    /\ At(s, "exclusive") /\ Is(s, "CONSUME")
    /\ Post(s, -sess[s].amount)
    /\ user' = [user EXCEPT
                  ![sess[s].user] =
                     [balance |-> sess[s].copy.balance - sess[s].amount,
                      used |-> sess[s].copy.used + sess[s].amount]]
    /\ Charge(sess[s].ref)
    /\ End(s)
    /\ UNCHANGED <<order, voucher, liveKeys>>

(* BalanceService.consume_for_call_log, from the lock to the commit of its *)
(* caller.  A balance that does not cover the cost is left alone.          *)
CommitConsume(s) ==
    /\ At(s, "exclusive") /\ Is(s, "CONSUME")
    /\ sess[s].copy.balance >= sess[s].amount
    /\ Post(s, -sess[s].amount)
    /\ user' = [user EXCEPT
                  ![sess[s].user] =
                     [balance |-> sess[s].copy.balance - sess[s].amount,
                      used |-> sess[s].copy.used + sess[s].amount]]
    /\ Charge(sess[s].ref)
    /\ End(s)
    /\ UNCHANGED <<order, voucher, liveKeys>>

(* Insufficient balance: False is returned and nothing is charged. *)
RejectConsume(s) ==
    /\ At(s, "exclusive") /\ Is(s, "CONSUME")
    /\ sess[s].copy.balance < sess[s].amount
    /\ End(s)
    /\ UNCHANGED tables

(* The other session's row is there: the flush fails on the unique key.    *)
DuplicateConsume(s) ==
    /\ At(s, "exclusive") /\ Is(s, "CONSUME")
    /\ <<"CONSUME", sess[s].ref>> \in ledger
    /\ End(s)
    /\ UNCHANGED tables

(* An exception, a deadlock or lock-wait timeout reported by the database, *)
(* or the death of the process: the transaction is rolled back.            *)
Abort(s) ==
    /\ ~At(s, "idle")
    /\ End(s)
    /\ UNCHANGED tables

-----------------------------------------------------------------------------
(* Operations that take a single lock and commit at once. *)

GenerateCode(v, a) ==
    /\ "VOUCHER_REDEEM" \in Mix
    /\ voucher[v].status = "none"
    /\ voucher' = [voucher EXCEPT ![v] = [status |-> "active", amount |-> a]]
    /\ UNCHANGED <<user, ledger, booked, order, quota, liveKeys, sess>>

(* Variant: a redeemed code can be disabled.                               *)
DisableAnyCode(v) ==
    /\ voucher[v].status # "none"
    /\ \A t \in Sessions : ~HoldsCode(t, v)
    /\ voucher' = [voucher EXCEPT ![v].status = "disabled"]
    /\ UNCHANGED <<user, ledger, booked, order, quota, liveKeys, sess>>

DisableCode(v) ==
    /\ voucher[v].status \in {"active", "disabled"}
    /\ \A t \in Sessions : ~HoldsCode(t, v)
    /\ voucher' = [voucher EXCEPT ![v].status = "disabled"]
    /\ UNCHANGED <<user, ledger, booked, order, quota, liveKeys, sess>>

DeleteKey(k) ==
    /\ k \in liveKeys
    /\ liveKeys' = liveKeys \ {k}
    /\ UNCHANGED <<user, ledger, booked, order, voucher, quota, sess>>

Next ==
    \/ \E s \in Sessions, u \in Users, o \in Orders, a \in Amounts :
          BeginTopup(s, u, o, a)
    \/ \E s \in Sessions, u \in Users, v \in Vouchers : BeginRedeem(s, u, v)
    \/ \E s \in Sessions, u \in Users, a \in Amounts :
          BeginAdjust(s, u, a) \/ BeginAdjust(s, u, -a)
    \/ \E s \in Sessions, c \in Calls : BeginConsume(s, c)
    \/ \E s \in Sessions :
          \/ InsertChild(s) \/ LockCode(s) \/ LockUser(s)
          \/ CommitTopup(s) \/ CommitRedeem(s) \/ RejectRedeem(s)
          \/ FailAdjust(s)
          \/ CommitConsume(s) \/ RejectConsume(s) \/ DuplicateConsume(s)
          \/ Abort(s)
    \/ \E v \in Vouchers, a \in Amounts : GenerateCode(v, a)
    \/ \E v \in Vouchers : DisableCode(v)
    \/ \E k \in Keys : DeleteKey(k)

Spec == Init /\ [][Next]_vars

-----------------------------------------------------------------------------
(* Properties. *)

(* Every variable has its type; in particular no balance is ever negative, *)
(* which the CHECK constraint on users.balance only backs up.              *)
TypeOK ==
    /\ user \in [Users -> Row]
    /\ ledger \subseteq Kinds \X Refs
    /\ booked \in [Users -> [Kinds -> Int]]
    /\ order \in [Orders -> {"none", "paid"}]
    /\ voucher \in [Vouchers ->
                      [status : {"none", "active", "redeemed", "disabled"},
                       amount : Nat]]
    /\ quota \in [Keys -> Nat]
    /\ liveKeys \subseteq Keys
    /\ sess \in [Sessions -> {Idle} \cup Busy]

(* The balance of every user is the sum of the user's ledger rows: what    *)
(* reconcile_balance_ledger looks for drift from.                          *)
Conservation == \A u \in Users : user[u].balance = Total(u)

(* No top-up or redemption is open on a user while another request is. *)
NoOverlap ==
    \A s, t \in Sessions :
        /\ s # t
        /\ ~At(s, "idle") /\ ~At(t, "idle")
        /\ sess[s].user = sess[t].user
        => sess[s].kind \notin {"TOPUP", "VOUCHER_REDEEM"}

(* users.used_amount is what the ledger says the user has consumed, also   *)
(* when a top-up or a redemption has overwritten a charge in the balance:  *)
(* an UPDATE leaves the columns it did not change alone.                   *)
UsedMatchesLedger ==
    \A u \in Users : user[u].used = -booked[u]["CONSUME"]

(* The calls of S with a ledger row, and what they cost.                   *)
BilledOf(S) == {c \in S : <<"CONSUME", c>> \in ledger}

Billed(S) == MapThenSumSet(LAMBDA c : CallCost[c], BilledOf(S))

(* Each call is billed to its user at most once and at its cost, whatever  *)
(* the number of deliveries; and its key's quota_used counts exactly the   *)
(* billed calls of the key, as long as the key has not been deleted.       *)
ChargesMatchLedger ==
    /\ \A u \in Users :
          booked[u]["CONSUME"] = -Billed({c \in Calls : CallUser[c] = u})
    /\ \A k \in Keys :
          LET due == Billed({c \in Calls : CallKey[c] = k})
          IN  quota[k] <= due /\ (k \in liveKeys => quota[k] = due)

(* A top-up order is paid, and a voucher redeemed, exactly when its ledger *)
(* row is there: neither is lost or applied twice by a crash, a disable    *)
(* that races a redemption, or two redemptions of one code.                *)
DocumentsMatchLedger ==
    /\ \A o \in Orders : order[o] = "paid" <=> <<"TOPUP", o>> \in ledger
    /\ \A v \in Vouchers : voucher[v].status = "redeemed"
                                <=> <<"VOUCHER_REDEEM", v>> \in ledger

(* An adjustment that found the row and leaves no negative balance is      *)
(* booked, unless the transaction is rolled back from outside: what the    *)
(* endpoint "Adjust user balance" and the ADMIN_ADJUST row type promise.   *)
AdjustmentIsBooked ==
    [][\A s \in Sessions :
          FailAdjust(s) => sess[s].copy.balance + sess[s].amount < 0]_vars

(* The ledger a user of the service sees: balances, rows and row sums.     *)
RowAmounts == Amounts \cup {-CallCost[c] : c \in Calls}

Promise == INSTANCE WalletSpec WITH
              RowKeys <- Kinds \X Refs,
              balance <- [u \in Users |-> user[u].balance],
              rows    <- ledger,
              total   <- [u \in Users |-> Total(u)]

(* Every step of the wallet is one posting of the promised ledger, or      *)
(* leaves it alone.                                                        *)
KeepsPromise == Promise!Spec
=============================================================================

---------------------------- MODULE WalletProofs ----------------------------
(***************************************************************************)
(* Theorems about Wallet for every set of users, sessions and documents.   *)
(*                                                                         *)
(* The inductive invariant Inv adds to TypeOK what a request in progress   *)
(* looks like (Shape), that locks exclude (RowLocks), that a billing       *)
(* transaction that holds the user's row computes with the committed row   *)
(* (Fresh), and that a code being redeemed was issued with an amount        *)
(* (Issued).  What Fresh says of billing, top-ups and redemptions lack:    *)
(* for them it needs the hypothesis NoOverlap.                             *)
(***************************************************************************)
EXTENDS Wallet, NumberFacts

ShapeOf(r) ==
    /\ r.kind \in {"TOPUP", "VOUCHER_REDEEM"} => r.amount \in Amounts
    /\ r.kind = "TOPUP" => r.ref \in Orders
    /\ r.kind = "VOUCHER_REDEEM" => r.ref \in Vouchers
    /\ r.kind = "CONSUME" => r.ref \in Calls /\ r.amount = CallCost[r.ref]

Shape == \A s \in Sessions : ~At(s, "idle") => ShapeOf(sess[s])

(* No two transactions hold one user's row, and none holds it while        *)
(* another has a child row of it in flight.                                *)
RowLocks ==
    \A s, t \in Sessions, u \in Users :
        s # t /\ HoldsUser(s, u) => ~HoldsUser(t, u) /\ ~SharesUser(t, u)

Fresh == \A s \in Sessions :
            At(s, "exclusive") /\ Is(s, "CONSUME")
                => sess[s].copy = user[sess[s].user]

Issued ==
    /\ \A v \in Vouchers :
          voucher[v].status # "none" => voucher[v].amount \in Amounts
    /\ \A s \in Sessions :
          ~At(s, "idle") /\ Is(s, "VOUCHER_REDEEM")
              => voucher[sess[s].ref].status # "none"

Inv == TypeOK /\ Shape /\ RowLocks /\ Fresh /\ Issued

-----------------------------------------------------------------------------
(* A new record for one session leaves the others what they were. *)
LEMMA SessionUpdate ==
    ASSUME NEW f, NEW g, NEW s \in Sessions, NEW r,
           f \in [Sessions -> {Idle} \cup Busy], r \in {Idle} \cup Busy,
           g = [f EXCEPT ![s] = r]
    PROVE  /\ g \in [Sessions -> {Idle} \cup Busy]
           /\ g[s] = r
           /\ \A t \in Sessions : t # s => g[t] = f[t]
  OBVIOUS

LEMMA InitInv == WalletAssumption /\ Init => Inv
  <1> SUFFICES ASSUME WalletAssumption, Init PROVE Inv
    OBVIOUS
  <1>1. TypeOK
    BY DEF Init, TypeOK, WalletAssumption, Row, Kinds
  <1>2. \A s \in Sessions : At(s, "idle")
    BY DEF Init, At, Idle
  <1>3. QED
    BY <1>1, <1>2 DEF Inv, Shape, RowLocks, Fresh, HoldsUser, SharesUser, At,
                      Issued, Init

(* A step that only moves one session keeps the invariant, if the session  *)
(* respects the locks of the others and has loaded what it has locked.     *)
LEMMA MoveInv ==
    ASSUME Inv, WalletAssumption, NEW s \in Sessions, NEW r \in {Idle} \cup Busy,
           sess' = [sess EXCEPT ![s] = r], UNCHANGED tables,
           r.stage # "idle" => ShapeOf(r),
           r.stage # "idle" /\ r.kind = "VOUCHER_REDEEM" =>
               voucher[r.ref].status # "none",
           r.stage = "shared" =>
               \A t \in Others(s) : ~HoldsUser(t, r.user),
           r.stage = "exclusive" =>
               /\ \A t \in Others(s) :
                     ~HoldsUser(t, r.user) /\ ~SharesUser(t, r.user)
               /\ r.kind = "CONSUME" => r.copy = user[r.user]
    PROVE  Inv'
  <1>1. /\ sess' \in [Sessions -> {Idle} \cup Busy]
        /\ sess'[s] = r
        /\ \A t \in Sessions : t # s => sess'[t] = sess[t]
    BY SessionUpdate DEF Inv, TypeOK
  <1>2. TypeOK'
    BY <1>1 DEF Inv, TypeOK, tables
  <1>3. Shape'
    BY <1>1 DEF Inv, Shape, At, ShapeOf
  <1>4. RowLocks'
    BY <1>1 DEF Inv, RowLocks, HoldsUser, SharesUser, At, Others
  <1>5. Fresh'
    BY <1>1 DEF Inv, Fresh, At, Is, tables
  <1>6. Issued'
    BY <1>1 DEF Inv, Issued, tables, At, Is
  <1>7. QED
    BY <1>2, <1>3, <1>4, <1>5, <1>6 DEF Inv

(* A commit ends its session; the row it wrote was locked by no other. *)
LEMMA CommitInv ==
    ASSUME Inv, NEW s \in Sessions, At(s, "exclusive"), End(s), TypeOK',
           \A u \in Users : u # sess[s].user => user'[u] = user[u],
           \A v \in Vouchers : /\ voucher'[v].amount = voucher[v].amount
                               /\ voucher[v].status = "none"
                                      <=> voucher'[v].status = "none"
    PROVE  Inv'
  <1>1. /\ sess' \in [Sessions -> {Idle} \cup Busy]
        /\ sess'[s] = Idle
        /\ \A t \in Sessions : t # s => sess'[t] = sess[t]
    BY SessionUpdate DEF Inv, TypeOK, End
  <1>2. Shape'
    BY <1>1 DEF Inv, Shape, At, ShapeOf, Idle
  <1>3. RowLocks'
    BY <1>1 DEF Inv, RowLocks, HoldsUser, SharesUser, At, Idle
  <1>4. \A t \in Sessions : t # s /\ At(t, "exclusive")
                             => sess[t].user # sess[s].user
    BY DEF Inv, RowLocks, HoldsUser, TypeOK, At, Busy, Idle
  <1>5. Fresh'
    BY <1>1, <1>4, SMTT(30) DEF Inv, Fresh, TypeOK, At, Is, Idle, Busy
  <1>6. Issued'
    BY <1>1 DEF Inv, Issued, Shape, ShapeOf, At, Is, Idle
  <1>7. QED
    BY <1>2, <1>3, <1>5, <1>6 DEF Inv

LEMMA RequestShape ==
    ASSUME TypeOK, NEW k \in Kinds, NEW u \in Users, NEW r \in Refs, NEW a \in Int
    PROVE  /\ Request(k, u, r, a) \in Busy
           /\ Request(k, u, r, a).stage = "open"
           /\ Request(k, u, r, a).kind = k
           /\ Request(k, u, r, a).user = u
           /\ Request(k, u, r, a).ref = r
           /\ Request(k, u, r, a).amount = a
           /\ k \in Preloading => Request(k, u, r, a).copy = user[u]
  BY DEF TypeOK, Request, Busy, Row

LEMMA OpenInv ==
    ASSUME Inv, WalletAssumption, NEW s \in Sessions, NEW k \in Kinds,
           NEW u \in Users, NEW r \in Refs, NEW a \in Int,
           ShapeOf(Request(k, u, r, a)), Open(s, Request(k, u, r, a)),
           k = "VOUCHER_REDEEM" => voucher[r].status # "none"
    PROVE  Inv'
  <1>1. TypeOK
    BY DEF Inv
  <1> DEFINE new == Request(k, u, r, a)
  <1>2. /\ new \in Busy /\ new.stage = "open"
        /\ new.kind = k /\ new.ref = r
    BY <1>1, RequestShape
  <1>3. sess' = [sess EXCEPT ![s] = new] /\ UNCHANGED tables /\ ShapeOf(new)
    BY DEF Open
  <1> HIDE DEF new
  <1>4. QED
    BY <1>2, <1>3, MoveInv

-----------------------------------------------------------------------------
(* What the state of a session that is serving a request looks like. *)
LEMMA BusyShape ==
    ASSUME Inv, NEW s \in Sessions, ~At(s, "idle")
    PROVE  /\ sess[s] \in Busy
           /\ ShapeOf(sess[s])
           /\ sess[s].kind = "VOUCHER_REDEEM" =>
                  voucher[sess[s].ref].status # "none"
           /\ sess[s].user \in Users
           /\ sess[s].kind \in Kinds
           /\ sess[s].ref \in Refs
           /\ sess[s].amount \in Int
           /\ sess[s].copy \in Row
  BY DEF Inv, TypeOK, Shape, Issued, At, Is, Busy, Idle

LEMMA PostType ==
    ASSUME Inv, NEW s \in Sessions, ~At(s, "idle"), NEW a \in Int, Post(s, a)
    PROVE  /\ ledger' \subseteq Kinds \X Refs
           /\ booked' \in [Users -> [Kinds -> Int]]
  <1>1. /\ sess[s].user \in Users
        /\ sess[s].kind \in Kinds
        /\ sess[s].ref \in Refs
    BY BusyShape
  <1>2. ledger' \subseteq Kinds \X Refs
    BY <1>1 DEF Post, Inv, TypeOK
  <1>3. booked' \in [Users -> [Kinds -> Int]]
    BY <1>1 DEF Post, Inv, TypeOK
  <1>4. QED
    BY <1>2, <1>3

LEMMA EndType ==
    ASSUME TypeOK, NEW s \in Sessions, End(s)
    PROVE  sess' \in [Sessions -> {Idle} \cup Busy]
  BY SessionUpdate DEF TypeOK, End

LEMMA CommitTopupType ==
    ASSUME Inv, WalletAssumption, NEW s \in Sessions, CommitTopup(s)
    PROVE  TypeOK'
  <1>1. ~At(s, "idle")
    BY DEF CommitTopup, At
  <1>2. /\ sess[s].amount \in Nat
        /\ sess[s].copy \in Row
        /\ sess[s].user \in Users
        /\ sess[s].ref \in Orders
    BY <1>1, BusyShape, WalletAssumption DEF CommitTopup, Is, ShapeOf, WalletAssumption
  <1>3. /\ ledger' \subseteq Kinds \X Refs
        /\ booked' \in [Users -> [Kinds -> Int]]
    BY <1>1, <1>2, PostType DEF CommitTopup
  <1>4. user' \in [Users -> Row]
    <2>1. sess[s].copy.balance + sess[s].amount \in Nat
      BY <1>2 DEF Row
    <2>2. user[sess[s].user] \in Row
      BY <1>2 DEF Inv, TypeOK
    <2>3. [user[sess[s].user] EXCEPT
              !.balance = sess[s].copy.balance + sess[s].amount] \in Row
      BY <2>1, <2>2 DEF Row
    <2>4. QED
      BY <1>2, <2>3 DEF CommitTopup, Inv, TypeOK
  <1>5. order' \in [Orders -> {"none", "paid"}]
    BY <1>2 DEF CommitTopup, Inv, TypeOK
  <1>6. sess' \in [Sessions -> {Idle} \cup Busy]
    BY EndType DEF CommitTopup, Inv
  <1>7. QED
    BY <1>3, <1>4, <1>5, <1>6 DEF CommitTopup, Inv, TypeOK

LEMMA CommitRedeemType ==
    ASSUME Inv, WalletAssumption, NEW s \in Sessions, CommitRedeem(s)
    PROVE  TypeOK'
  <1>1. ~At(s, "idle")
    BY DEF CommitRedeem, At
  <1>2. /\ sess[s].amount \in Nat
        /\ sess[s].copy \in Row
        /\ sess[s].user \in Users
        /\ sess[s].ref \in Vouchers
    BY <1>1, BusyShape, WalletAssumption DEF CommitRedeem, Is, ShapeOf, WalletAssumption
  <1>3. /\ ledger' \subseteq Kinds \X Refs
        /\ booked' \in [Users -> [Kinds -> Int]]
    BY <1>1, <1>2, PostType DEF CommitRedeem
  <1>4. user' \in [Users -> Row]
    <2>1. sess[s].copy.balance + sess[s].amount \in Nat
      BY <1>2 DEF Row
    <2>2. user[sess[s].user] \in Row
      BY <1>2 DEF Inv, TypeOK
    <2>3. [user[sess[s].user] EXCEPT
              !.balance = sess[s].copy.balance + sess[s].amount] \in Row
      BY <2>1, <2>2 DEF Row
    <2>4. QED
      BY <1>2, <2>3 DEF CommitRedeem, Inv, TypeOK
  <1>5. voucher' \in [Vouchers ->
                        [status : {"none", "active", "redeemed", "disabled"},
                         amount : Nat]]
    BY <1>2 DEF CommitRedeem, Inv, TypeOK
  <1>6. sess' \in [Sessions -> {Idle} \cup Busy]
    BY EndType DEF CommitRedeem, Inv
  <1>7. QED
    BY <1>3, <1>4, <1>5, <1>6 DEF CommitRedeem, Inv, TypeOK

LEMMA ChargeType ==
    ASSUME TypeOK, WalletAssumption, NEW c \in Calls, Charge(c)
    PROVE  quota' \in [Keys -> Nat]
  <1>1. CASE CallKey[c] \in liveKeys
    <2>1. CallKey[c] \in Keys /\ CallCost[c] \in Nat
      BY <1>1 DEF TypeOK, WalletAssumption
    <2>2. QED
      BY <1>1, <2>1 DEF Charge, TypeOK
  <1>2. CASE CallKey[c] \notin liveKeys
    BY <1>2 DEF Charge, TypeOK
  <1>3. QED
    BY <1>1, <1>2

LEMMA CommitConsumeType ==
    ASSUME Inv, WalletAssumption, NEW s \in Sessions, CommitConsume(s)
    PROVE  TypeOK'
  <1>1. ~At(s, "idle")
    BY DEF CommitConsume, At
  <1>2. /\ sess[s].ref \in Calls
        /\ sess[s].amount = CallCost[sess[s].ref]
        /\ sess[s].copy \in Row
        /\ sess[s].user \in Users
    BY <1>1, BusyShape DEF CommitConsume, Is, ShapeOf
  <1>3. sess[s].amount \in Nat /\ -sess[s].amount \in Int
    BY <1>2 DEF WalletAssumption
  <1>4. /\ ledger' \subseteq Kinds \X Refs
        /\ booked' \in [Users -> [Kinds -> Int]]
    BY <1>1, <1>3, PostType DEF CommitConsume
  <1>5. [balance |-> sess[s].copy.balance - sess[s].amount,
         used |-> sess[s].copy.used + sess[s].amount] \in Row
    BY <1>2, <1>3 DEF CommitConsume, Row
  <1>6. user' \in [Users -> Row]
    BY <1>2, <1>5 DEF CommitConsume, Inv, TypeOK
  <1>7. quota' \in [Keys -> Nat]
    BY <1>2, ChargeType DEF CommitConsume, Inv
  <1>8. sess' \in [Sessions -> {Idle} \cup Busy]
    BY EndType DEF CommitConsume, Inv
  <1>9. QED
    BY <1>4, <1>6, <1>7, <1>8 DEF CommitConsume, Inv, TypeOK

-----------------------------------------------------------------------------
(* One lemma per action that opens or moves a request. *)

LEMMA BeginInv ==
    ASSUME Inv, WalletAssumption, NEW s \in Sessions,
           \/ \E u \in Users, o \in Orders, a \in Amounts : BeginTopup(s, u, o, a)
           \/ \E u \in Users, v \in Vouchers : BeginRedeem(s, u, v)
           \/ \E u \in Users, a \in Amounts :
                 BeginAdjust(s, u, a) \/ BeginAdjust(s, u, -a)
           \/ \E c \in Calls : BeginConsume(s, c)
    PROVE  Inv'
  <1> TypeOK
    BY DEF Inv
  <1>1. ASSUME NEW u \in Users, NEW o \in Orders, NEW a \in Amounts,
               BeginTopup(s, u, o, a)
        PROVE  Inv'
    <2>1. "TOPUP" \in Kinds /\ o \in Refs /\ a \in Int
      BY DEF Kinds, Refs, WalletAssumption
    <2>2. ShapeOf(Request("TOPUP", u, o, a))
      BY <2>1, RequestShape DEF ShapeOf
    <2>3. QED
      BY <1>1, <2>1, <2>2, OpenInv DEF BeginTopup
  <1>2. ASSUME NEW u \in Users, NEW v \in Vouchers, BeginRedeem(s, u, v)
        PROVE  Inv'
    <2>1. /\ "VOUCHER_REDEEM" \in Kinds /\ v \in Refs
          /\ voucher[v].amount \in Int /\ voucher[v].amount \in Amounts
      BY <1>2 DEF Kinds, Refs, TypeOK, BeginRedeem, Inv, Issued
    <2>2. ShapeOf(Request("VOUCHER_REDEEM", u, v, voucher[v].amount))
      BY <2>1, RequestShape DEF ShapeOf
    <2>3. QED
      BY <1>2, <2>1, <2>2, OpenInv DEF BeginRedeem
  <1>3. ASSUME NEW u \in Users, NEW a \in Int, BeginAdjust(s, u, a)
        PROVE  Inv'
    <2>1. "ADMIN_ADJUST" \in Kinds /\ None \in Refs
      BY DEF Kinds, Refs
    <2>2. ShapeOf(Request("ADMIN_ADJUST", u, None, a))
      BY <2>1, RequestShape DEF ShapeOf
    <2>3. QED
      BY <1>3, <2>1, <2>2, OpenInv DEF BeginAdjust
  <1>4. ASSUME NEW c \in Calls, BeginConsume(s, c)
        PROVE  Inv'
    <2>1. /\ "CONSUME" \in Kinds /\ c \in Refs
          /\ CallUser[c] \in Users /\ CallCost[c] \in Int
      BY DEF Kinds, Refs, WalletAssumption
    <2>2. ShapeOf(Request("CONSUME", CallUser[c], c, CallCost[c]))
      BY <2>1, RequestShape DEF ShapeOf
    <2>3. QED
      BY <1>4, <2>1, <2>2, OpenInv DEF BeginConsume
  <1>5. \A a \in Amounts : a \in Int /\ -a \in Int
    BY DEF WalletAssumption
  <1>6. QED
    BY <1>1, <1>2, <1>3, <1>4, <1>5

LEMMA InsertChildInv ==
    ASSUME Inv, WalletAssumption, NEW s \in Sessions, InsertChild(s)
    PROVE  Inv'
  <1> DEFINE r == [sess[s] EXCEPT !.stage = "shared"]
  <1>1. /\ sess[s] \in Busy /\ ShapeOf(sess[s])
        /\ sess[s].kind = "VOUCHER_REDEEM" => voucher[sess[s].ref].status # "none"
    BY BusyShape DEF InsertChild, At
  <1>2. /\ r \in Busy /\ ShapeOf(r) /\ r.stage = "shared"
        /\ r.user = sess[s].user /\ r.kind = sess[s].kind /\ r.ref = sess[s].ref
    BY <1>1 DEF Busy, ShapeOf
  <1>3. sess' = [sess EXCEPT ![s] = r] /\ UNCHANGED tables
    BY DEF InsertChild
  <1>4. \A t \in Others(s) : ~HoldsUser(t, r.user)
    BY <1>2 DEF InsertChild
  <1> HIDE DEF r
  <1>5. QED
    BY <1>1, <1>2, <1>3, <1>4, MoveInv

LEMMA LockCodeInv ==
    ASSUME Inv, WalletAssumption, NEW s \in Sessions, LockCode(s)
    PROVE  Inv'
  <1> DEFINE r == [sess[s] EXCEPT !.stage = "code"]
  <1>1. /\ sess[s] \in Busy /\ ShapeOf(sess[s])
        /\ sess[s].kind = "VOUCHER_REDEEM" => voucher[sess[s].ref].status # "none"
    BY BusyShape DEF LockCode, At
  <1>2. /\ r \in Busy /\ ShapeOf(r) /\ r.stage = "code"
        /\ r.kind = sess[s].kind /\ r.ref = sess[s].ref
    BY <1>1 DEF Busy, ShapeOf
  <1>3. sess' = [sess EXCEPT ![s] = r] /\ UNCHANGED tables
    BY DEF LockCode
  <1> HIDE DEF r
  <1>4. QED
    BY <1>1, <1>2, <1>3, MoveInv

LEMMA LockUserInv ==
    ASSUME Inv, WalletAssumption, NEW s \in Sessions, LockUser(s)
    PROVE  Inv'
  <1> DEFINE row == IF sess[s].kind \in Preloading
                    THEN sess[s].copy ELSE user[sess[s].user]
             r == [sess[s] EXCEPT !.stage = "exclusive", !.copy = row]
  <1>1. /\ sess[s] \in Busy /\ ShapeOf(sess[s])
        /\ sess[s].kind = "VOUCHER_REDEEM" => voucher[sess[s].ref].status # "none"
    BY BusyShape DEF LockUser
  <1>2. row \in Row
    BY <1>1 DEF Inv, TypeOK, Busy
  <1>3. "CONSUME" \notin Preloading
    BY DEF Preloading
  <1>4. /\ r \in Busy /\ ShapeOf(r) /\ r.stage = "exclusive"
        /\ r.user = sess[s].user /\ r.kind = sess[s].kind /\ r.ref = sess[s].ref
        /\ r.kind = "CONSUME" => r.copy = user[r.user]
    BY <1>1, <1>2, <1>3 DEF Busy, ShapeOf
  <1>5. sess' = [sess EXCEPT ![s] = r] /\ UNCHANGED tables
    BY DEF LockUser
  <1>6. \A t \in Others(s) : ~HoldsUser(t, r.user) /\ ~SharesUser(t, r.user)
    BY <1>4 DEF LockUser, UserFree
  <1> HIDE DEF r, row
  <1>7. QED
    BY <1>1, <1>4, <1>5, <1>6, MoveInv

LEMMA RollbackInv ==
    ASSUME Inv, WalletAssumption, NEW s \in Sessions, End(s), UNCHANGED tables
    PROVE  Inv'
  <1>1. sess' = [sess EXCEPT ![s] = Idle]
    BY DEF End
  <1>2. Idle.stage = "idle"
    BY DEF Idle
  <1>3. QED
    BY <1>1, <1>2, MoveInv

LEMMA CommitActionInv ==
    ASSUME Inv, WalletAssumption, NEW s \in Sessions,
           CommitTopup(s) \/ CommitRedeem(s) \/ CommitConsume(s)
    PROVE  Inv'
  <1>1. TypeOK'
    BY CommitTopupType, CommitRedeemType, CommitConsumeType
  <1>2. At(s, "exclusive") /\ End(s)
    BY DEF CommitTopup, CommitRedeem, CommitConsume
  <1>3. \A u \in Users : u # sess[s].user => user'[u] = user[u]
    BY DEF CommitTopup, CommitRedeem, CommitConsume, Inv, TypeOK
  <1>4. \A v \in Vouchers : /\ voucher'[v].amount = voucher[v].amount
                            /\ voucher[v].status = "none"
                                   <=> voucher'[v].status = "none"
    <2>1. CASE CommitRedeem(s)
      <3>1. /\ sess[s].ref \in Vouchers
            /\ voucher[sess[s].ref].status # "none"
        BY <2>1, BusyShape DEF CommitRedeem, At, Is, ShapeOf
      <3>2. /\ voucher' = [voucher EXCEPT ![sess[s].ref].status = "redeemed"]
            /\ voucher \in [Vouchers ->
                  [status : {"none", "active", "redeemed", "disabled"}, amount : Nat]]
        BY <2>1 DEF CommitRedeem, Inv, TypeOK
      <3>3. QED
        BY <3>1, <3>2
    <2>2. CASE CommitTopup(s) \/ CommitConsume(s)
      BY <2>2 DEF CommitTopup, CommitConsume
    <2>3. QED
      BY <2>1, <2>2
  <1>5. QED
    BY <1>1, <1>2, <1>3, <1>4, CommitInv

(* The operations that touch neither users nor sessions. *)
LEMMA CatalogueInv ==
    ASSUME Inv, WalletAssumption,
           \/ \E v \in Vouchers, a \in Amounts : GenerateCode(v, a)
           \/ \E v \in Vouchers : DisableCode(v)
           \/ \E k \in Keys : DeleteKey(k)
    PROVE  Inv'
  <1>1. UNCHANGED <<user, ledger, booked, order, quota, sess>>
    BY DEF GenerateCode, DisableCode, DeleteKey
  <1>2. /\ liveKeys' \subseteq Keys
        /\ voucher' \in [Vouchers ->
                           [status : {"none", "active", "redeemed", "disabled"},
                            amount : Nat]]
    <2>1. ASSUME NEW v \in Vouchers, NEW a \in Amounts, GenerateCode(v, a)
          PROVE  <1>2!:
      <3>1. [status |-> "active", amount |-> a] \in
               [status : {"none", "active", "redeemed", "disabled"}, amount : Nat]
        BY DEF WalletAssumption
      <3>2. QED
        BY <2>1, <3>1 DEF GenerateCode, Inv, TypeOK
    <2>2. ASSUME NEW v \in Vouchers, DisableCode(v)
          PROVE  <1>2!:
      BY <2>2 DEF DisableCode, Inv, TypeOK
    <2>3. ASSUME NEW k \in Keys, DeleteKey(k)
          PROVE  <1>2!:
      BY <2>3 DEF DeleteKey, Inv, TypeOK
    <2>4. QED
      BY <2>1, <2>2, <2>3
  <1>3. TypeOK'
    BY <1>1, <1>2 DEF Inv, TypeOK
  <1>4. Issued'
    <2>1. ASSUME NEW v \in Vouchers, NEW a \in Amounts, GenerateCode(v, a)
          PROVE  Issued'
      <3>1. \A w \in Vouchers :
               voucher'[w] = IF w = v THEN [status |-> "active", amount |-> a]
                             ELSE voucher[w]
        BY <2>1 DEF GenerateCode, Inv, TypeOK
      <3>2. QED
        BY <1>1, <3>1 DEF Inv, Issued, Shape, ShapeOf, At, Is
    <2>2. ASSUME NEW v \in Vouchers, DisableCode(v)
          PROVE  Issued'
      <3>1. \A w \in Vouchers :
               /\ voucher'[w].amount = voucher[w].amount
               /\ voucher'[w].status = IF w = v THEN "disabled"
                                       ELSE voucher[w].status
        BY <2>2 DEF DisableCode, Inv, TypeOK
      <3>2. voucher[v].status # "none"
        BY <2>2 DEF DisableCode
      <3>3. QED
        BY <1>1, <3>1, <3>2 DEF Inv, Issued, Shape, ShapeOf, At, Is
    <2>3. ASSUME NEW k \in Keys, DeleteKey(k)
          PROVE  Issued'
      BY <1>1, <2>3 DEF DeleteKey, Inv, Issued, At, Is
    <2>4. QED
      BY <2>1, <2>2, <2>3
  <1>5. QED
    BY <1>1, <1>3, <1>4 DEF Inv, Shape, RowLocks, Fresh, At, Is, HoldsUser,
                            SharesUser, ShapeOf

LEMMA StepInv == ASSUME Inv, WalletAssumption, [Next]_vars PROVE Inv'
  <1>1. CASE UNCHANGED vars
    BY <1>1 DEF vars, Inv, TypeOK, Shape, RowLocks, Fresh, At, Is, HoldsUser,
                SharesUser, ShapeOf, Issued
  <1>2. ASSUME NEW s \in Sessions,
               \/ InsertChild(s) \/ LockCode(s) \/ LockUser(s)
               \/ CommitTopup(s) \/ CommitRedeem(s) \/ RejectRedeem(s)
               \/ FailAdjust(s)
               \/ CommitConsume(s) \/ RejectConsume(s) \/ DuplicateConsume(s)
               \/ Abort(s)
        PROVE  Inv'
    <2>1. CASE InsertChild(s) \/ LockCode(s) \/ LockUser(s)
      BY <2>1, InsertChildInv, LockCodeInv, LockUserInv
    <2>2. CASE CommitTopup(s) \/ CommitRedeem(s) \/ CommitConsume(s)
      BY <2>2, CommitActionInv
    <2>3. CASE \/ RejectRedeem(s) \/ FailAdjust(s) \/ RejectConsume(s)
               \/ DuplicateConsume(s) \/ Abort(s)
      BY <2>3, RollbackInv DEF RejectRedeem, FailAdjust, RejectConsume,
                               DuplicateConsume, Abort
    <2>4. QED
      BY <1>2, <2>1, <2>2, <2>3
  <1>3. CASE Next
    BY <1>2, <1>3, BeginInv, CatalogueInv DEF Next
  <1>4. QED
    BY <1>1, <1>3

(* TypeOK holds of every wallet; in particular no balance, no used_amount  *)
(* and no quota_used is ever negative.                                     *)
THEOREM TypeCorrect == Spec => []TypeOK
  <1>1. Inv => TypeOK
    BY DEF Inv
  <1>2. QED
    BY <1>1, InitInv, StepInv, WalletAssumption, PTL DEF Spec

-----------------------------------------------------------------------------
(* What one step can do to the tables. *)

LEMMA StepTables ==
    ASSUME [Next]_vars
    PROVE  \/ \E s \in Sessions : \/ CommitTopup(s)
                                  \/ CommitRedeem(s)
                                  \/ CommitConsume(s)
           \/ \E v \in Vouchers, a \in Amounts : GenerateCode(v, a)
           \/ \E v \in Vouchers : DisableCode(v)
           \/ UNCHANGED <<user, ledger, booked, order, voucher>>
  <1>1. CASE UNCHANGED vars
    BY <1>1 DEF vars
  <1>2. CASE Next
    BY <1>2 DEF Next, tables, BeginTopup, BeginRedeem, BeginAdjust, BeginConsume,
                Open, InsertChild, LockCode, LockUser, RejectRedeem, FailAdjust,
                RejectConsume, DuplicateConsume, Abort, DeleteKey
  <1>3. QED
    BY <1>1, <1>2

(* How a commit changes the sums of the ledger. *)
LEMMA PostSums ==
    ASSUME Inv, NEW s \in Sessions, ~At(s, "idle"), NEW a \in Int, Post(s, a)
    PROVE  /\ booked'[sess[s].user][sess[s].kind]
                  = booked[sess[s].user][sess[s].kind] + a
           /\ \A t \in Kinds : t # sess[s].kind =>
                 booked'[sess[s].user][t] = booked[sess[s].user][t]
           /\ \A u \in Users : u # sess[s].user => booked'[u] = booked[u]
           /\ \A u \in Users : Total(u)' = IF u = sess[s].user
                                           THEN Total(u) + a ELSE Total(u)
  <1>1. /\ sess[s].user \in Users
        /\ sess[s].kind \in Kinds
    BY BusyShape
  <1>2. /\ booked'[sess[s].user][sess[s].kind]
                  = booked[sess[s].user][sess[s].kind] + a
        /\ \A t \in Kinds : t # sess[s].kind =>
              booked'[sess[s].user][t] = booked[sess[s].user][t]
        /\ \A u \in Users : u # sess[s].user => booked'[u] = booked[u]
    BY <1>1 DEF Post, Inv, TypeOK
  <1>3. \A u \in Users : u # sess[s].user => Total(u)' = Total(u)
    BY <1>2 DEF Total
  <1>4. /\ booked[sess[s].user]["TOPUP"] \in Int
        /\ booked[sess[s].user]["VOUCHER_REDEEM"] \in Int
        /\ booked[sess[s].user]["ADMIN_ADJUST"] \in Int
        /\ booked[sess[s].user]["CONSUME"] \in Int
    BY <1>1 DEF Inv, TypeOK, Kinds
  <1>5. ASSUME NEW u \in Users, u = sess[s].user
        PROVE  Total(u)' = Total(u) + a
    <2>1. /\ booked'[u]["TOPUP"] \in Int
          /\ booked'[u]["VOUCHER_REDEEM"] \in Int
          /\ booked'[u]["ADMIN_ADJUST"] \in Int
          /\ booked'[u]["CONSUME"] \in Int
      BY PostType, <1>5 DEF Kinds
    <2>2. QED
      BY <1>1, <1>2, <1>4, <1>5, <2>1 DEF Total, Kinds
  <1>6. QED
    BY <1>2, <1>3, <1>5

-----------------------------------------------------------------------------
(* used_amount and the ledger. *)

LEMMA StepUsed ==
    ASSUME Inv, UsedMatchesLedger, WalletAssumption, [Next]_vars
    PROVE  UsedMatchesLedger'
  <1>1. ASSUME NEW s \in Sessions, CommitTopup(s) \/ CommitRedeem(s)
        PROVE  UsedMatchesLedger'
    <2>1. ~At(s, "idle") /\ sess[s].kind # "CONSUME"
      BY <1>1 DEF CommitTopup, CommitRedeem, At, Is
    <2>2. sess[s].user \in Users /\ sess[s].amount \in Int
      BY <2>1, BusyShape
    <2>3. \A u \in Users : booked'[u]["CONSUME"] = booked[u]["CONSUME"]
      BY <1>1, <2>1, <2>2, PostSums DEF CommitTopup, CommitRedeem, Kinds
    <2>4. \A u \in Users : user'[u].used = user[u].used
      <3>1. user' = [user EXCEPT ![sess[s].user] = [@ EXCEPT
                        !.balance = sess[s].copy.balance + sess[s].amount]]
        BY <1>1 DEF CommitTopup, CommitRedeem
      <3>2. user \in [Users -> [balance : Nat, used : Nat]]
        BY DEF Inv, TypeOK, Row
      <3>3. QED
        BY <2>2, <3>1, <3>2
    <2>5. QED
      BY <2>3, <2>4 DEF UsedMatchesLedger
  <1>2. ASSUME NEW s \in Sessions, CommitConsume(s)
        PROVE  UsedMatchesLedger'
    <2>1. ~At(s, "idle") /\ sess[s].kind = "CONSUME"
      BY <1>2 DEF CommitConsume, At, Is
    <2>2. sess[s].user \in Users /\ sess[s].amount \in Int
      BY <2>1, BusyShape
    <2>3. sess[s].copy = user[sess[s].user]
      BY <1>2 DEF CommitConsume, Inv, Fresh
    <2>4. /\ booked'[sess[s].user]["CONSUME"]
               = booked[sess[s].user]["CONSUME"] - sess[s].amount
          /\ \A u \in Users : u # sess[s].user => booked'[u] = booked[u]
      <3>1. -sess[s].amount \in Int
        BY <2>2
      <3>2. /\ booked'[sess[s].user]["CONSUME"]
                  = booked[sess[s].user]["CONSUME"] + (-sess[s].amount)
            /\ \A u \in Users : u # sess[s].user => booked'[u] = booked[u]
        BY <1>2, <2>1, <3>1, PostSums DEF CommitConsume
      <3>3. booked[sess[s].user]["CONSUME"] \in Int
        BY <2>2 DEF Inv, TypeOK, Kinds
      <3>4. QED
        BY <2>2, <3>2, <3>3
    <2>5. /\ user'[sess[s].user].used = user[sess[s].user].used + sess[s].amount
          /\ \A u \in Users : u # sess[s].user => user'[u] = user[u]
      BY <1>2, <2>2, <2>3 DEF CommitConsume, Inv, TypeOK, Row
    <2>6. booked[sess[s].user]["CONSUME"] \in Int
      BY <2>2 DEF Inv, TypeOK, Kinds
    <2>7. user[sess[s].user].used = -booked[sess[s].user]["CONSUME"]
      BY <2>2 DEF UsedMatchesLedger
    <2>8. user'[sess[s].user].used = -booked'[sess[s].user]["CONSUME"]
      BY <2>2, <2>4, <2>5, <2>6, <2>7
    <2>9. QED
      BY <2>4, <2>5, <2>8 DEF UsedMatchesLedger
  <1>3. ASSUME UNCHANGED <<user, booked>>
        PROVE  UsedMatchesLedger'
    BY <1>3 DEF UsedMatchesLedger
  <1>4. QED
    BY <1>1, <1>2, <1>3, StepTables DEF GenerateCode, DisableCode

(* users.used_amount is the consumption in the ledger, for any number of   *)
(* concurrent top-ups, redemptions, charges, duplicates and rollbacks.     *)
THEOREM UsedIsLedger == Spec => []UsedMatchesLedger
  <1>1. Init => UsedMatchesLedger
    BY DEF Init, UsedMatchesLedger, Kinds
  <1>2. QED
    BY <1>1, InitInv, StepInv, StepUsed, WalletAssumption, PTL DEF Spec

-----------------------------------------------------------------------------
(* Orders, vouchers and the ledger. *)

LEMMA StepDocuments ==
    ASSUME Inv, DocumentsMatchLedger, WalletAssumption, [Next]_vars
    PROVE  DocumentsMatchLedger'
  <1>1. ASSUME NEW s \in Sessions, CommitTopup(s)
        PROVE  DocumentsMatchLedger'
    <2>1. sess[s].ref \in Orders /\ sess[s].kind = "TOPUP"
      BY <1>1, BusyShape DEF CommitTopup, At, Is, ShapeOf
    <2>2. /\ ledger' = ledger \cup {<<"TOPUP", sess[s].ref>>}
          /\ order' = [order EXCEPT ![sess[s].ref] = "paid"]
          /\ voucher' = voucher
      BY <1>1, <2>1 DEF CommitTopup, Post
    <2>3. QED
      BY <2>1, <2>2 DEF DocumentsMatchLedger, Inv, TypeOK
  <1>2. ASSUME NEW s \in Sessions, CommitRedeem(s)
        PROVE  DocumentsMatchLedger'
    <2>1. sess[s].ref \in Vouchers /\ sess[s].kind = "VOUCHER_REDEEM"
      BY <1>2, BusyShape DEF CommitRedeem, At, Is, ShapeOf
    <2>2. /\ ledger' = ledger \cup {<<"VOUCHER_REDEEM", sess[s].ref>>}
          /\ order' = order
          /\ voucher' = [voucher EXCEPT ![sess[s].ref].status = "redeemed"]
      BY <1>2, <2>1 DEF CommitRedeem, Post
    <2>3. \A v \in Vouchers :
             voucher'[v].status = IF v = sess[s].ref THEN "redeemed"
                                  ELSE voucher[v].status
      BY <2>1, <2>2 DEF Inv, TypeOK
    <2>4. QED
      BY <2>1, <2>2, <2>3 DEF DocumentsMatchLedger
  <1>3. ASSUME NEW s \in Sessions, CommitConsume(s)
        PROVE  DocumentsMatchLedger'
    BY <1>3 DEF CommitConsume, Post, Is, DocumentsMatchLedger
  <1>4. ASSUME NEW v \in Vouchers, NEW a \in Amounts, GenerateCode(v, a)
        PROVE  DocumentsMatchLedger'
    <2>1. \A w \in Vouchers :
             voucher'[w].status = IF w = v THEN "active" ELSE voucher[w].status
      BY <1>4 DEF GenerateCode, Inv, TypeOK
    <2>2. QED
      BY <1>4, <2>1 DEF GenerateCode, DocumentsMatchLedger
  <1>5. ASSUME NEW v \in Vouchers, DisableCode(v)
        PROVE  DocumentsMatchLedger'
    <2>1. \A w \in Vouchers :
             voucher'[w].status = IF w = v THEN "disabled" ELSE voucher[w].status
      BY <1>5 DEF DisableCode, Inv, TypeOK
    <2>2. QED
      BY <1>5, <2>1 DEF DisableCode, DocumentsMatchLedger
  <1>6. ASSUME UNCHANGED <<ledger, order, voucher>>
        PROVE  DocumentsMatchLedger'
    BY <1>6 DEF DocumentsMatchLedger
  <1>7. QED
    BY <1>1, <1>2, <1>3, <1>4, <1>5, <1>6, StepTables

(* An order is paid, and a voucher redeemed, exactly when booked: however  *)
(* many sessions present one code, and whoever disables it meanwhile.      *)
THEOREM DocumentsAreBookedOnce == Spec => []DocumentsMatchLedger
  <1>1. Init => DocumentsMatchLedger
    BY DEF Init, DocumentsMatchLedger
  <1>2. QED
    BY <1>1, InitInv, StepInv, StepDocuments, WalletAssumption, PTL DEF Spec
-----------------------------------------------------------------------------
(* Calls, charges and quotas.                                              *)

(* What the sums need besides: the ledger stays finite, and a call is      *)
(* billed to the user whose call it is.                                    *)
Payers ==
    /\ IsFiniteSet(ledger)
    /\ \A s \in Sessions : ~At(s, "idle") /\ Is(s, "CONSUME")
                              => sess[s].user = CallUser[sess[s].ref]

LEMMA BilledIsSum == \A S : Billed(S) = SumOf(CallCost, BilledOf(S))
  BY DEF Billed, SumOf

LEMMA BilledIsSumNext == \A S : Billed(S)' = SumOf(CallCost, BilledOf(S)')
  <1>1. (\A S : Billed(S) = SumOf(CallCost, BilledOf(S)))'
    BY BilledIsSum, PTL
  <1>2. QED
    BY <1>1

(* Only finitely many calls are billed, each with a row of its own.        *)
LEMMA BilledFinite ==
    ASSUME IsFiniteSet(ledger), NEW S
    PROVE  IsFiniteSet(BilledOf(S))
  <1> DEFINE Of == {key[2] : key \in ledger}
  <1>1. IsFiniteSet(Of)
    <2> DEFINE second == [key \in ledger |-> key[2]]
    <2>1. IsFiniteSet({second[key] : key \in ledger})
      BY FiniteImage
    <2>2. {second[key] : key \in ledger} = Of
      OBVIOUS
    <2>3. QED
      BY <2>1, <2>2
  <1>2. BilledOf(S) \in SUBSET Of
    <2>1. ASSUME NEW c \in BilledOf(S)
          PROVE  c \in Of
      <3>1. <<"CONSUME", c>> \in ledger /\ <<"CONSUME", c>>[2] = c
        BY DEF BilledOf
      <3>2. QED
        BY <3>1
    <2>2. QED
      BY <2>1
  <1>3. QED
    BY <1>1, <1>2, FS_Subset

LEMMA BilledNat ==
    ASSUME WalletAssumption, IsFiniteSet(ledger), NEW S \in SUBSET Calls
    PROVE  Billed(S) \in Int
  <1>1. \A c \in BilledOf(S) : CallCost[c] \in Int
    BY DEF BilledOf, WalletAssumption
  <1>2. QED
    BY <1>1, BilledFinite, BilledIsSum, SumIsInt

(* A row of another type leaves what is billed alone.                      *)
LEMMA BilledKept ==
    ASSUME NEW S, \A c \in S : <<"CONSUME", c>> \in ledger' <=> <<"CONSUME", c>> \in ledger
    PROVE  Billed(S)' = Billed(S)
  <1>1. BilledOf(S)' = BilledOf(S)
    BY DEF BilledOf
  <1>2. QED
    BY <1>1, BilledIsSum, BilledIsSumNext

(* The row of a call adds its cost to what is billed of it, and nothing to *)
(* what is billed of others.                                               *)
LEMMA BilledAdds ==
    ASSUME WalletAssumption, IsFiniteSet(ledger), NEW S \in SUBSET Calls,
           NEW b \in Calls, <<"CONSUME", b>> \notin ledger,
           ledger' = ledger \cup {<<"CONSUME", b>>}
    PROVE  Billed(S)' = IF b \in S THEN Billed(S) + CallCost[b] ELSE Billed(S)
  <1>1. CASE b \in S
    <2>1. BilledOf(S)' = BilledOf(S) \cup {b} /\ b \notin BilledOf(S)
      BY <1>1 DEF BilledOf
    <2>2. /\ \A c \in BilledOf(S) : CallCost[c] \in Int
          /\ CallCost[b] \in Int
      BY DEF BilledOf, WalletAssumption
    <2>3. SumOf(CallCost, BilledOf(S) \cup {b})
             = SumOf(CallCost, BilledOf(S)) + CallCost[b]
      BY <2>1, <2>2, BilledFinite, SumWith
    <2>4. Billed(S)' = SumOf(CallCost, BilledOf(S) \cup {b})
      BY <2>1, BilledIsSumNext
    <2>5. QED
      BY <1>1, <2>3, <2>4, BilledIsSum
  <1>2. CASE b \notin S
    <2>1. BilledOf(S)' = BilledOf(S)
      BY <1>2 DEF BilledOf
    <2>2. QED
      BY <1>2, <2>1, BilledIsSum, BilledIsSumNext
  <1>3. QED
    BY <1>1, <1>2

LEMMA InitCharges == WalletAssumption /\ Init => Payers /\ ChargesMatchLedger
  <1> SUFFICES ASSUME WalletAssumption, Init PROVE Payers /\ ChargesMatchLedger
    OBVIOUS
  <1>1. ledger = {} /\ \A s \in Sessions : At(s, "idle")
    BY DEF Init, At, Idle
  <1>2. Payers
    BY <1>1, FS_EmptySet DEF Payers
  <1>3. ASSUME NEW S PROVE Billed(S) = 0
    <2>1. BilledOf(S) = {}
      BY <1>1 DEF BilledOf
    <2>2. QED
      BY <2>1, BilledIsSum, SumOfNone
  <1>4. /\ \A u \in Users : booked[u]["CONSUME"] = 0
        /\ \A k \in Keys : quota[k] = 0
    BY DEF Init, Kinds
  <1>5. \A n \in Int : -n = 0 - n
    OBVIOUS
  <1>6. \A S : Billed(S) = 0 /\ 0 = -Billed(S) /\ 0 <= Billed(S)
    BY <1>3, <1>5
  <1>7. QED
    BY <1>2, <1>4, <1>6 DEF ChargesMatchLedger

LEMMA StepPayers ==
    ASSUME Inv, Payers, WalletAssumption, [Next]_vars
    PROVE  Payers'
  <1>1. IsFiniteSet(ledger')
    <2>1. ASSUME NEW s \in Sessions,
                 CommitTopup(s) \/ CommitRedeem(s) \/ CommitConsume(s)
          PROVE  IsFiniteSet(ledger')
      <3>1. ledger' = ledger \cup {<<sess[s].kind, sess[s].ref>>}
        BY <2>1 DEF CommitTopup, CommitRedeem, CommitConsume, Post
      <3>2. QED
        BY <3>1, FS_AddElement DEF Payers
    <2>2. QED
      BY <2>1, StepTables DEF Payers, GenerateCode, DisableCode
  <1>2. ASSUME NEW t \in Sessions, sess'[t].stage # "idle", sess'[t].kind = "CONSUME"
        PROVE  sess'[t].user = CallUser[sess'[t].ref]
    <2> DEFINE Goal == sess'[t].user = CallUser[sess'[t].ref]
               Kept == /\ ~At(t, "idle")
                       /\ sess'[t].kind = sess[t].kind
                       /\ sess'[t].user = sess[t].user
                       /\ sess'[t].ref = sess[t].ref
    <2>1. Kept => Goal
      BY <1>2 DEF Payers, Is
    <2>2. sess'[t] = sess[t] => Kept
      BY <1>2 DEF At
    <2>3. sess \in [Sessions -> {Idle} \cup Busy]
      BY DEF Inv, TypeOK
    <2>4. ASSUME NEW s \in Sessions, NEW k \in Kinds, NEW u \in Users,
                 NEW r \in Refs, NEW a \in Int, Open(s, Request(k, u, r, a)),
                 k = "CONSUME" => u = CallUser[r]
          PROVE  Goal
      <3>1. /\ Request(k, u, r, a) \in Busy
            /\ Request(k, u, r, a).kind = k
            /\ Request(k, u, r, a).user = u
            /\ Request(k, u, r, a).ref = r
        BY RequestShape DEF Inv
      <3>2. /\ sess'[s] = Request(k, u, r, a)
            /\ \A x \in Sessions : x # s => sess'[x] = sess[x]
        BY <2>3, <2>4, <3>1, SessionUpdate DEF Open
      <3>3. QED
        BY <1>2, <2>1, <2>2, <2>4, <3>1, <3>2
    <2>5. ASSUME NEW s \in Sessions, InsertChild(s) \/ LockCode(s) \/ LockUser(s)
          PROVE  Goal
      <3>1. ~At(s, "idle") /\ sess[s] \in Busy
        BY <2>5, <2>3 DEF InsertChild, LockCode, LockUser, At, Idle
      <3>2. /\ sess'[s].kind = sess[s].kind
            /\ sess'[s].user = sess[s].user
            /\ sess'[s].ref = sess[s].ref
            /\ \A x \in Sessions : x # s => sess'[x] = sess[x]
        BY <2>3, <2>5, <3>1 DEF InsertChild, LockCode, LockUser, Busy
      <3>3. QED
        BY <2>1, <2>2, <3>1, <3>2
    <2>6. ASSUME NEW s \in Sessions, End(s)
          PROVE  Goal
      <3>1. t # s => sess'[t] = sess[t]
        BY <2>6 DEF End
      <3>2. sess'[s].stage = "idle"
        BY <2>3, <2>6 DEF End, Idle
      <3>3. QED
        BY <1>2, <2>1, <2>2, <3>1, <3>2
    <2>7. ASSUME NEW s \in Sessions, NEW u \in Users, NEW o \in Orders,
                 NEW a \in Amounts, BeginTopup(s, u, o, a)
          PROVE  Goal
      <3>1. "TOPUP" \in Kinds /\ "TOPUP" # "CONSUME" /\ o \in Refs /\ a \in Int
        BY DEF Kinds, Refs, WalletAssumption
      <3>2. QED
        BY <2>4, <2>7, <3>1 DEF BeginTopup
    <2>8. ASSUME NEW s \in Sessions, NEW u \in Users, NEW v \in Vouchers,
                 BeginRedeem(s, u, v)
          PROVE  Goal
      <3>1. /\ "VOUCHER_REDEEM" \in Kinds /\ "VOUCHER_REDEEM" # "CONSUME"
            /\ v \in Refs /\ voucher[v].amount \in Int
        BY DEF Kinds, Refs, Inv, TypeOK
      <3>2. QED
        BY <2>4, <2>8, <3>1 DEF BeginRedeem
    <2>9. ASSUME NEW s \in Sessions, NEW u \in Users, NEW a \in Int,
                 BeginAdjust(s, u, a)
          PROVE  Goal
      <3>1. "ADMIN_ADJUST" \in Kinds /\ "ADMIN_ADJUST" # "CONSUME" /\ None \in Refs
        BY DEF Kinds, Refs
      <3>2. QED
        BY <2>4, <2>9, <3>1 DEF BeginAdjust
    <2>10. ASSUME NEW s \in Sessions, NEW c \in Calls, BeginConsume(s, c)
           PROVE  Goal
      <3>1. /\ "CONSUME" \in Kinds /\ c \in Refs
            /\ CallUser[c] \in Users /\ CallCost[c] \in Int
        BY DEF Kinds, Refs, WalletAssumption
      <3>2. QED
        BY <2>4, <2>10, <3>1 DEF BeginConsume
    <2> HIDE DEF Goal
    <2>11. ASSUME UNCHANGED sess
           PROVE  Goal
      BY <2>1, <2>2, <2>11
    <2>12. \A a \in Amounts : a \in Int /\ -a \in Int
      BY DEF WalletAssumption
    <2>13. ASSUME Next
           PROVE  Goal
      BY <2>5, <2>6, <2>7, <2>8, <2>9, <2>10, <2>11, <2>12, <2>13
         DEF Next, CommitTopup, CommitRedeem, RejectRedeem, FailAdjust,
             CommitConsume, RejectConsume, DuplicateConsume, Abort,
             GenerateCode, DisableCode, DeleteKey
    <2>14. QED
      BY <2>11, <2>13 DEF vars, Goal
  <1>3. QED
    BY <1>1, <1>2 DEF Payers, At, Is

LEMMA StepCharges ==
    ASSUME Inv, Payers, ChargesMatchLedger, WalletAssumption, [Next]_vars
    PROVE  ChargesMatchLedger'
  <1> DEFINE CallsOf(u) == {c \in Calls : CallUser[c] = u}
             CallsBy(k) == {c \in Calls : CallKey[c] = k}
  <1>1. /\ \A u \in Users : CallsOf(u) \in SUBSET Calls /\ Billed(CallsOf(u)) \in Int
        /\ \A k \in Keys : CallsBy(k) \in SUBSET Calls /\ Billed(CallsBy(k)) \in Int
    BY BilledNat DEF Payers
  <1>2. /\ \A u \in Users : booked[u]["CONSUME"] = -Billed(CallsOf(u))
        /\ \A k \in Keys : /\ quota[k] <= Billed(CallsBy(k))
                           /\ k \in liveKeys => quota[k] = Billed(CallsBy(k))
    BY DEF ChargesMatchLedger
  <1>3. ASSUME \A u \in Users : booked'[u]["CONSUME"] = booked[u]["CONSUME"],
               \A c \in Calls : <<"CONSUME", c>> \in ledger'
                                     <=> <<"CONSUME", c>> \in ledger,
               quota' = quota, liveKeys' \subseteq liveKeys
        PROVE  ChargesMatchLedger'
    <2>1. /\ \A u \in Users : Billed(CallsOf(u))' = Billed(CallsOf(u))
          /\ \A k \in Keys : Billed(CallsBy(k))' = Billed(CallsBy(k))
      BY <1>3, BilledKept
    <2>2. QED
      BY <1>2, <1>3, <2>1 DEF ChargesMatchLedger
  <1>4. ASSUME NEW s \in Sessions, CommitTopup(s) \/ CommitRedeem(s)
        PROVE  ChargesMatchLedger'
    <2>1. ~At(s, "idle") /\ sess[s].kind # "CONSUME"
      BY <1>4 DEF CommitTopup, CommitRedeem, At, Is
    <2>2. sess[s].user \in Users /\ sess[s].amount \in Int
      BY <2>1, BusyShape
    <2>3. \A u \in Users : booked'[u]["CONSUME"] = booked[u]["CONSUME"]
      BY <1>4, <2>1, <2>2, PostSums DEF CommitTopup, CommitRedeem, Kinds
    <2>4. \A c \in Calls : <<"CONSUME", c>> \in ledger'
                                <=> <<"CONSUME", c>> \in ledger
      BY <1>4, <2>1 DEF CommitTopup, CommitRedeem, Post
    <2>5. QED
      BY <1>3, <1>4, <2>3, <2>4 DEF CommitTopup, CommitRedeem
  <1>5. ASSUME NEW s \in Sessions, CommitConsume(s)
        PROVE  ChargesMatchLedger'
    <2>1. ~At(s, "idle") /\ sess[s].kind = "CONSUME"
      BY <1>5 DEF CommitConsume, At, Is
    <2>2. PICK b \in Calls : b = sess[s].ref
      BY <2>1, BusyShape DEF ShapeOf
    <2>3. /\ sess[s].user = CallUser[b] /\ sess[s].amount = CallCost[b]
          /\ CallUser[b] \in Users /\ CallCost[b] \in Nat
      BY <2>1, <2>2, BusyShape DEF ShapeOf, Payers, Is, WalletAssumption
    <2>4. <<"CONSUME", b>> \notin ledger /\ ledger' = ledger \cup {<<"CONSUME", b>>}
      BY <1>5, <2>1, <2>2 DEF CommitConsume, Post
    <2>5. ASSUME NEW u \in Users
          PROVE  booked'[u]["CONSUME"] = -Billed(CallsOf(u))'
      <3>1. Billed(CallsOf(u))' = IF b \in CallsOf(u) THEN Billed(CallsOf(u)) + CallCost[b]
                                  ELSE Billed(CallsOf(u))
        BY <1>1, <2>4, BilledAdds DEF Payers
      <3>2. -sess[s].amount \in Int
        BY <2>3
      <3>3. /\ u = CallUser[b] => booked'[u]["CONSUME"]
                                      = booked[u]["CONSUME"] + (-CallCost[b])
            /\ u # CallUser[b] => booked'[u]["CONSUME"] = booked[u]["CONSUME"]
        BY <1>5, <2>1, <2>3, <3>2, PostSums DEF CommitConsume
      <3>4. b \in CallsOf(u) <=> u = CallUser[b]
        OBVIOUS
      <3>5. Billed(CallsOf(u)) \in Int /\ booked[u]["CONSUME"] = -Billed(CallsOf(u))
        BY <1>1, <1>2
      <3>6. QED
        BY <2>3, <3>1, <3>3, <3>4, <3>5
    <2>6. ASSUME NEW k \in Keys
          PROVE  /\ quota'[k] <= Billed(CallsBy(k))'
                 /\ k \in liveKeys' => quota'[k] = Billed(CallsBy(k))'
      <3>1. Billed(CallsBy(k))' = IF b \in CallsBy(k) THEN Billed(CallsBy(k)) + CallCost[b]
                                  ELSE Billed(CallsBy(k))
        BY <1>1, <2>4, BilledAdds DEF Payers
      <3>2. quota'[k] = IF CallKey[b] \in liveKeys /\ k = CallKey[b]
                        THEN quota[k] + CallCost[b] ELSE quota[k]
        BY <1>5, <2>2 DEF CommitConsume, Charge, Inv, TypeOK
      <3>3. liveKeys' = liveKeys
        BY <1>5 DEF CommitConsume
      <3>4. b \in CallsBy(k) <=> k = CallKey[b]
        OBVIOUS
      <3>5. /\ Billed(CallsBy(k)) \in Int /\ quota[k] \in Nat
            /\ quota[k] <= Billed(CallsBy(k))
            /\ k \in liveKeys => quota[k] = Billed(CallsBy(k))
        <4> HIDE DEF CallsBy
        <4>1. quota[k] \in Nat
          BY DEF Inv, TypeOK
        <4>2. Billed(CallsBy(k)) \in Int
          BY <1>1
        <4>3. /\ quota[k] <= Billed(CallsBy(k))
              /\ k \in liveKeys => quota[k] = Billed(CallsBy(k))
          BY <1>2
        <4>4. QED
          BY <4>1, <4>2, <4>3
      <3> HIDE DEF CallsBy
      <3>6. PICK due : due = Billed(CallsBy(k))
        OBVIOUS
      <3>7. PICK next : next = Billed(CallsBy(k))'
        OBVIOUS
      <3>8. CASE k = CallKey[b]
        <4>1. next = due + CallCost[b]
          BY <3>1, <3>4, <3>6, <3>7, <3>8
        <4>2. quota'[k] = IF k \in liveKeys THEN quota[k] + CallCost[b] ELSE quota[k]
          BY <3>2, <3>8
        <4>3. /\ quota'[k] <= next
              /\ k \in liveKeys => quota'[k] = next
          BY <2>3, <3>5, <3>6, <4>1, <4>2
        <4>4. QED
          BY <3>3, <3>7, <4>3
      <3>9. CASE k # CallKey[b]
        BY <3>1, <3>2, <3>3, <3>4, <3>5, <3>9
      <3>10. QED
        BY <3>8, <3>9
    <2>7. QED
      BY <2>5, <2>6 DEF ChargesMatchLedger
  <1>6. CASE UNCHANGED <<ledger, booked, quota, liveKeys>>
    BY <1>3, <1>6
  <1>7. ASSUME NEW k \in Keys, DeleteKey(k)
        PROVE  ChargesMatchLedger'
    BY <1>3, <1>7 DEF DeleteKey
  <1>8. CASE Next
    BY <1>4, <1>5, <1>6, <1>7, <1>8
       DEF Next, tables, BeginTopup, BeginRedeem, BeginAdjust, BeginConsume,
           Open, InsertChild, LockCode, LockUser, RejectRedeem, FailAdjust,
           RejectConsume, DuplicateConsume, Abort, GenerateCode, DisableCode
  <1>9. QED
    BY <1>6, <1>8 DEF vars

(* Each call is billed once and to its user at its cost, and its key's     *)
(* quota counts it while the key lives: for any number of calls delivered  *)
(* any number of times, billed by any number of sessions at once.          *)
THEOREM CallsAreBilledOnce == Spec => []ChargesMatchLedger
  <1>1. QED
    BY InitInv, InitCharges, StepInv, StepPayers, StepCharges,
       WalletAssumption, PTL DEF Spec

-----------------------------------------------------------------------------
(* Balances and the ledger, when top-ups and redemptions do not overlap    *)
(* another request of their user.                                          *)

(* What a top-up or a redemption computes with is the committed row. *)
Current == \A s \in Sessions :
              ~At(s, "idle") /\ sess[s].kind \in {"TOPUP", "VOUCHER_REDEEM"}
                  => sess[s].copy = user[sess[s].user]

Admitted == \A s \in Sessions : ~At(s, "idle") => sess[s].kind \in Mix

(* A request that is open after a step was open before it, with the same   *)
(* user and the same preloaded row, or it has just read the user's row.    *)
LEMMA StepSessions ==
    ASSUME Inv, WalletAssumption, [Next]_vars,
           NEW t \in Sessions, sess'[t].stage # "idle"
    PROVE  \/ /\ ~At(t, "idle")
              /\ sess'[t].kind = sess[t].kind
              /\ sess'[t].user = sess[t].user
              /\ sess[t].kind \in Preloading => sess'[t].copy = sess[t].copy
           \/ /\ user' = user
              /\ sess'[t].kind \in Mix
              /\ sess'[t].kind \in Preloading =>
                     sess'[t].copy = user[sess'[t].user]
  <1> DEFINE Goal == \/ /\ ~At(t, "idle")
                        /\ sess'[t].kind = sess[t].kind
                        /\ sess'[t].user = sess[t].user
                        /\ sess[t].kind \in Preloading =>
                               sess'[t].copy = sess[t].copy
                     \/ /\ user' = user
                        /\ sess'[t].kind \in Mix
                        /\ sess'[t].kind \in Preloading =>
                               sess'[t].copy = user[sess'[t].user]
  <1>1. ASSUME sess'[t] = sess[t] PROVE Goal
    BY <1>1 DEF At
  <1>2. ASSUME NEW s \in Sessions, NEW k \in Kinds, NEW u \in Users,
               NEW r \in Refs, NEW a \in Int, Open(s, Request(k, u, r, a))
        PROVE  Goal
    <2>1. /\ \A x \in Sessions : x # s => sess'[x] = sess[x]
          /\ sess'[s] = Request(k, u, r, a)
          /\ user' = user /\ Request(k, u, r, a).kind \in Mix
      BY <1>2 DEF Open, tables, Inv, TypeOK
    <2>2. /\ Request(k, u, r, a).kind = k
          /\ Request(k, u, r, a).user = u
          /\ k \in Preloading => Request(k, u, r, a).copy = user[u]
      BY RequestShape DEF Inv
    <2>3. QED
      BY <1>1, <2>1, <2>2
  <1>3. ASSUME NEW s \in Sessions, InsertChild(s) \/ LockCode(s) \/ LockUser(s)
        PROVE  Goal
    <2>1. ~At(s, "idle")
      BY <1>3 DEF InsertChild, LockCode, LockUser, At
    <2>2. sess[s] \in Busy
      BY <2>1, BusyShape
    <2>3. PICK stage, copy :
              /\ sess' = [sess EXCEPT ![s] = [sess[s] EXCEPT !.stage = stage,
                                                             !.copy = copy]]
              /\ sess[s].kind \in Preloading => copy = sess[s].copy
      <3>1. CASE LockUser(s)
        <4> DEFINE row == IF sess[s].kind \in Preloading
                          THEN sess[s].copy ELSE user[sess[s].user]
        <4>1. sess' = [sess EXCEPT ![s] = [sess[s] EXCEPT !.stage = "exclusive",
                                                          !.copy = row]]
          BY <3>1 DEF LockUser
        <4>2. sess[s].kind \in Preloading => row = sess[s].copy
          OBVIOUS
        <4> HIDE DEF row
        <4>3. QED
          BY <4>1, <4>2
      <3>2. CASE InsertChild(s) \/ LockCode(s)
        <4>1. \A x : [sess[s] EXCEPT !.stage = x]
                        = [sess[s] EXCEPT !.stage = x, !.copy = sess[s].copy]
          BY <2>2 DEF Busy
        <4>2. PICK x : sess' = [sess EXCEPT ![s] = [sess[s] EXCEPT !.stage = x]]
          BY <3>2 DEF InsertChild, LockCode
        <4>3. QED
          BY <4>1, <4>2
      <3>3. QED
        BY <1>3, <3>1, <3>2
    <2>4. /\ \A x \in Sessions : x # s => sess'[x] = sess[x]
          /\ sess'[s] = [sess[s] EXCEPT !.stage = stage, !.copy = copy]
      BY <2>3 DEF Inv, TypeOK
    <2>5. /\ sess'[s].kind = sess[s].kind
          /\ sess'[s].user = sess[s].user
          /\ sess'[s].copy = copy
      BY <2>2, <2>4 DEF Busy
    <2>6. QED
      BY <1>1, <2>1, <2>3, <2>4, <2>5
  <1>4. ASSUME NEW s \in Sessions, End(s)
        PROVE  Goal
    <2>1. /\ \A x \in Sessions : x # s => sess'[x] = sess[x]
          /\ sess'[s].stage = "idle"
      BY <1>4 DEF End, Idle, Inv, TypeOK
    <2>2. QED
      BY <1>1, <2>1
  <1>5. ASSUME sess' = sess PROVE Goal
    BY <1>1, <1>5
  <1> HIDE DEF Goal
  <1>6. ASSUME NEW s \in Sessions,
               \/ \E u \in Users, o \in Orders, a \in Amounts :
                     BeginTopup(s, u, o, a)
               \/ \E u \in Users, v \in Vouchers : BeginRedeem(s, u, v)
               \/ \E u \in Users, a \in Amounts :
                     BeginAdjust(s, u, a) \/ BeginAdjust(s, u, -a)
               \/ \E c \in Calls : BeginConsume(s, c)
        PROVE  Goal
    <2>1. /\ Kinds = {"TOPUP", "VOUCHER_REDEEM", "ADMIN_ADJUST", "CONSUME"}
          /\ \A a \in Amounts : a \in Int /\ -a \in Int
          /\ \A c \in Calls : CallUser[c] \in Users /\ CallCost[c] \in Int
          /\ \A v \in Vouchers : voucher[v].amount \in Int
          /\ Refs = Orders \cup Vouchers \cup Calls \cup {None}
      BY DEF Kinds, Refs, WalletAssumption, Inv, TypeOK
    <2>2. QED
      BY <1>2, <1>6, <2>1 DEF BeginTopup, BeginRedeem, BeginAdjust, BeginConsume
  <1>7. ASSUME Next PROVE Goal
    <2>1. ASSUME NEW s \in Sessions,
                 \/ CommitTopup(s) \/ CommitRedeem(s) \/ RejectRedeem(s)
                 \/ FailAdjust(s)
                 \/ CommitConsume(s) \/ RejectConsume(s) \/ DuplicateConsume(s)
                 \/ Abort(s)
          PROVE  Goal
      BY <1>4, <2>1 DEF CommitTopup, CommitRedeem, RejectRedeem, FailAdjust,
                        CommitConsume, RejectConsume, DuplicateConsume, Abort
    <2>2. ASSUME \/ \E v \in Vouchers, a \in Amounts : GenerateCode(v, a)
                 \/ \E v \in Vouchers : DisableCode(v)
                 \/ \E k \in Keys : DeleteKey(k)
          PROVE  Goal
      BY <1>5, <2>2 DEF GenerateCode, DisableCode, DeleteKey
    <2>3. QED
      BY <1>3, <1>6, <1>7, <2>1, <2>2 DEF Next
  <1>8. Goal
    BY <1>5, <1>7 DEF vars
  <1>9. QED
    BY <1>8 DEF Goal

LEMMA StepAdmitted ==
    ASSUME Inv, Admitted, WalletAssumption, [Next]_vars
    PROVE  Admitted'
  BY StepSessions DEF Admitted, At

LEMMA StepCurrent ==
    ASSUME Inv, Current, NoOverlap, WalletAssumption, [Next]_vars
    PROVE  Current'
  <1> SUFFICES ASSUME NEW t \in Sessions, sess'[t].stage # "idle",
                      sess'[t].kind \in {"TOPUP", "VOUCHER_REDEEM"}
               PROVE  sess'[t].copy = user'[sess'[t].user]
    BY DEF Current, At
  <1>1. sess'[t].kind \in Preloading
    BY DEF Preloading
  <1>2. CASE user' = user
    BY <1>1, <1>2, StepSessions DEF Current, At
  <1>3. ASSUME NEW s \in Sessions,
               CommitTopup(s) \/ CommitRedeem(s) \/ CommitConsume(s)
        PROVE  sess'[t].copy = user'[sess'[t].user]
    <2>1. ~At(s, "idle") /\ End(s) /\ sess[s].user \in Users
      BY <1>3, BusyShape DEF CommitTopup, CommitRedeem, CommitConsume, At
    <2>2. t # s /\ sess'[t] = sess[t]
      BY <2>1 DEF End, Idle, Inv, TypeOK
    <2>3. sess[t].user # sess[s].user /\ sess[t].user \in Users
      BY <2>1, <2>2, BusyShape DEF NoOverlap, At
    <2>4. user'[sess[t].user] = user[sess[t].user]
      BY <1>3, <2>1, <2>3 DEF CommitTopup, CommitRedeem, CommitConsume,
                              Inv, TypeOK
    <2>5. QED
      BY <2>2, <2>4 DEF Current, At
  <1>4. QED
    BY <1>2, <1>3, StepTables DEF GenerateCode, DisableCode

(* A commit that computes with the committed row is one promised posting. *)
Posting(u, key, a) ==
    /\ key \notin ledger
    /\ ledger' = ledger \cup {key}
    /\ user[u].balance + a >= 0
    /\ \A w \in Users :
          /\ user'[w].balance = IF w = u THEN user[w].balance + a
                                ELSE user[w].balance
          /\ Total(w)' = IF w = u THEN Total(w) + a ELSE Total(w)

LEMMA CommitPosts ==
    ASSUME Inv, Current, WalletAssumption, NEW s \in Sessions,
           CommitTopup(s) \/ CommitRedeem(s) \/ CommitConsume(s)
    PROVE  \E u \in Users, key \in Kinds \X Refs, a \in RowAmounts :
              Posting(u, key, a)
  <1>1. At(s, "exclusive") /\ ~At(s, "idle")
    BY DEF CommitTopup, CommitRedeem, CommitConsume, At
  <1>2. /\ sess[s].user \in Users /\ sess[s].ref \in Refs
        /\ sess[s].kind \in Kinds /\ sess[s].amount \in Int
        /\ ShapeOf(sess[s])
    BY <1>1, BusyShape
  <1>3. sess[s].copy = user[sess[s].user]
    BY <1>1, <1>2 DEF CommitTopup, CommitRedeem, CommitConsume, Is, Current,
                      Inv, Fresh
  <1>4. user \in [Users -> [balance : Nat, used : Nat]]
    BY DEF Inv, TypeOK, Row
  <1>5. CASE CommitTopup(s) \/ CommitRedeem(s)
    <2>1. Post(s, sess[s].amount) /\ sess[s].amount \in Amounts
      BY <1>2, <1>5 DEF CommitTopup, CommitRedeem, Is, ShapeOf
    <2>2. \A w \in Users : user'[w].balance =
              IF w = sess[s].user THEN user[w].balance + sess[s].amount
              ELSE user[w].balance
      <3>1. user' = [user EXCEPT ![sess[s].user] = [user[sess[s].user] EXCEPT
                        !.balance = user[sess[s].user].balance + sess[s].amount]]
        BY <1>3, <1>5 DEF CommitTopup, CommitRedeem
      <3>2. QED
        BY <1>2, <1>4, <3>1
    <2>3. user[sess[s].user].balance + sess[s].amount >= 0
      BY <1>2, <1>4, <2>1 DEF WalletAssumption
    <2>4. \A w \in Users : Total(w)' = IF w = sess[s].user
                           THEN Total(w) + sess[s].amount ELSE Total(w)
      BY <1>1, <1>2, <2>1, PostSums
    <2>5. Posting(sess[s].user, <<sess[s].kind, sess[s].ref>>, sess[s].amount)
      BY <2>1, <2>2, <2>3, <2>4 DEF Posting, Post
    <2>6. QED
      BY <1>2, <2>1, <2>5 DEF RowAmounts
  <1>6. CASE CommitConsume(s)
    <2>1. /\ Post(s, -sess[s].amount)
          /\ sess[s].amount = CallCost[sess[s].ref] /\ sess[s].ref \in Calls
          /\ user[sess[s].user].balance >= sess[s].amount
      BY <1>2, <1>3, <1>6 DEF CommitConsume, Is, ShapeOf
    <2>2. -sess[s].amount \in Int /\ -sess[s].amount \in RowAmounts
      BY <1>2, <2>1 DEF RowAmounts
    <2>3. \A w \in Users : user'[w].balance =
              IF w = sess[s].user THEN user[w].balance + (-sess[s].amount)
              ELSE user[w].balance
      <3>1. user' = [user EXCEPT ![sess[s].user] =
                        [balance |-> user[sess[s].user].balance - sess[s].amount,
                         used |-> user[sess[s].user].used + sess[s].amount]]
        BY <1>3, <1>6 DEF CommitConsume
      <3>2. user[sess[s].user].balance - sess[s].amount
                = user[sess[s].user].balance + (-sess[s].amount)
        BY <1>2, <1>4
      <3>3. QED
        BY <1>2, <1>4, <3>1, <3>2
    <2>4. user[sess[s].user].balance + (-sess[s].amount) >= 0
      BY <1>2, <1>4, <2>1
    <2>5. \A w \in Users : Total(w)' = IF w = sess[s].user
                           THEN Total(w) + (-sess[s].amount) ELSE Total(w)
      BY <1>1, <1>2, <2>1, <2>2, PostSums
    <2>6. Posting(sess[s].user, <<sess[s].kind, sess[s].ref>>, -sess[s].amount)
      BY <2>1, <2>3, <2>4, <2>5 DEF Posting, Post
    <2>7. QED
      BY <1>2, <2>2, <2>6
  <1>7. QED
    BY <1>5, <1>6

LEMMA StepConservation ==
    ASSUME Inv, Current, Conservation, WalletAssumption, [Next]_vars
    PROVE  Conservation'
  <1>1. ASSUME NEW u \in Users, NEW key, NEW a, Posting(u, key, a)
        PROVE  Conservation'
    BY <1>1 DEF Posting, Conservation
  <1>2. ASSUME UNCHANGED <<user, booked>>
        PROVE  Conservation'
    BY <1>2 DEF Conservation, Total
  <1>3. QED
    BY <1>1, <1>2, CommitPosts, StepTables DEF GenerateCode, DisableCode

LEMMA StepPromise ==
    ASSUME Inv, Current, WalletAssumption, [Next]_vars
    PROVE  [Promise!Next]_(Promise!vars)
  <1>1. ASSUME NEW u \in Users, NEW key \in Kinds \X Refs,
               NEW a \in RowAmounts, Posting(u, key, a)
        PROVE  Promise!Next
    <2>1. Promise!Post(u, key, a)
      BY <1>1 DEF Posting, Promise!Post
    <2>2. QED
      BY <2>1 DEF Promise!Next
  <1>2. ASSUME UNCHANGED <<user, booked, ledger>>
        PROVE  UNCHANGED Promise!vars
    BY <1>2 DEF Promise!vars, Total
  <1>3. QED
    BY <1>1, <1>2, CommitPosts, StepTables DEF GenerateCode, DisableCode

LEMMA InitPromise == WalletAssumption /\ Init => Promise!Init
  <1> SUFFICES ASSUME WalletAssumption, Init PROVE Promise!Init
    OBVIOUS
  <1>1. \A u \in Users : user[u].balance = Opening[u] /\ Total(u) = Opening[u]
    BY DEF Init, Total, Kinds, WalletAssumption
  <1>2. QED
    BY <1>1 DEF Promise!Init, Init, WalletAssumption

LEMMA InitCurrent == Init => Current /\ Admitted /\ Conservation
  <1> SUFFICES ASSUME Init PROVE Current /\ Admitted /\ Conservation
    OBVIOUS
  <1>1. \A s \in Sessions : At(s, "idle")
    BY DEF Init, At, Idle
  <1>2. \A u \in Users : user[u].balance = Opening[u] /\ Total(u) = Opening[u]
    BY WalletAssumption DEF Init, Total, Kinds, WalletAssumption
  <1>3. QED
    BY <1>1, <1>2 DEF Current, Admitted, Conservation

(* The balance of every user stays the sum of the user's ledger rows, as   *)
(* long as no top-up or redemption overlaps another request of its user.   *)
THEOREM SerialConservation == Spec /\ []NoOverlap => []Conservation
  <1>1. QED
    BY InitInv, InitCurrent, StepInv, StepCurrent, StepConservation,
       WalletAssumption, PTL DEF Spec

(* Under the same hypothesis, every step of the wallet is one posting of   *)
(* the promised ledger, or leaves it alone.                                *)
THEOREM SerialRefinement == Spec /\ []NoOverlap => KeepsPromise
  <1>1. QED
    BY InitInv, InitCurrent, InitPromise, StepInv, StepCurrent, StepPromise,
       WalletAssumption, PTL DEF Spec, KeepsPromise, Promise!Spec

LEMMA BillingOnly ==
    ASSUME Mix \cap {"TOPUP", "VOUCHER_REDEEM"} = {}, Admitted
    PROVE  NoOverlap
  BY DEF Admitted, NoOverlap

(* A deployment that serves neither top-ups nor redemptions needs no       *)
(* hypothesis: billing and adjustments alone never make the balance drift, *)
(* however many sessions bill the same call.                               *)
THEOREM BillingRefinement ==
    ASSUME Mix \cap {"TOPUP", "VOUCHER_REDEEM"} = {}
    PROVE  Spec => []Conservation /\ KeepsPromise
  <1>1. Admitted => NoOverlap
    BY BillingOnly
  <1>2. QED
    BY <1>1, InitInv, InitCurrent, StepInv, StepAdmitted,
       SerialConservation, SerialRefinement, WalletAssumption, PTL DEF Spec

=============================================================================

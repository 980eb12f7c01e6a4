----------------------------- MODULE WalletSpec -----------------------------
(***************************************************************************)
(* What the wallet of user-service promises to its callers: a balance per  *)
(* user that is moved only by posting a row to an append-only ledger, at   *)
(* most one row per (type, document), and never below zero.                *)
(***************************************************************************)
EXTENDS Integers

CONSTANTS Users,     \* the accounts
          RowKeys,   \* (type, ref) keys a ledger row can have
          RowAmounts,\* amounts a ledger row can have, integers
          Opening    \* Opening[u] in Nat : what u was credited before the start

VARIABLES balance,   \* balance[u] : what u can spend
          rows,      \* the keys of the rows posted so far
          total      \* total[u] : sum of the amounts of the rows of u

vars == <<balance, rows, total>>

Init ==
    /\ balance = Opening
    /\ rows = {}
    /\ total = Opening

(* One posting: a fresh row, and the balance moves by the row's amount. *)
Post(u, key, amount) ==
    /\ key \notin rows
    /\ balance[u] + amount >= 0
    /\ balance' = [balance EXCEPT ![u] = @ + amount]
    /\ total' = [total EXCEPT ![u] = @ + amount]
    /\ rows' = rows \cup {key}

Next == \E u \in Users, key \in RowKeys, amount \in RowAmounts :
            Post(u, key, amount)

Spec == Init /\ [][Next]_vars
=============================================================================

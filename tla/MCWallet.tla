------------------------------ MODULE MCWallet ------------------------------
(* Instances of the wallet for TLC. *)
EXTENDS Wallet, TLC

CONSTANTS u1, u2, c1, c2, c3, k1

(* Two calls of one user, only the first with a key. *)
MCCallUser == (c1 :> u1) @@ (c2 :> u1)
MCCallKey  == (c1 :> k1) @@ (c2 :> None)
MCCallCost == (c1 :> 1) @@ (c2 :> 2)
MCOpening1 == (u1 :> 2)

(* The same with one key for both, and a call of another user without. *)
MCCallUser3 == (c1 :> u1) @@ (c2 :> u1) @@ (c3 :> u2)
MCCallKey3  == (c1 :> k1) @@ (c2 :> k1) @@ (c3 :> None)
MCCallCost3 == (c1 :> 1) @@ (c2 :> 2) @@ (c3 :> 1)
MCOpening2  == (u1 :> 2) @@ (u2 :> 1)
=============================================================================

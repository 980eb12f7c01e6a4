----------------------------- MODULE MCCallLog -----------------------------
(* Instances of the call-log pipeline for TLC. *)
EXTENDS CallLogPipeline, TLC

CONSTANTS r1, r2, u1, u2

(* Two calls of one user, and of two. *)
MCOneOwner  == (r1 :> u1) @@ (r2 :> u1)
MCTwoOwners == (r1 :> u1) @@ (r2 :> u2)

(* Calls, and workers, can be exchanged if they have the same owner. *)
Symmetry == Permutations(Workers) \cup Permutations(Requests)
=============================================================================

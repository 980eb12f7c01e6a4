---------------------------- MODULE MCUpstream ----------------------------
(* Instances of selection and retry for TLC. *)
EXTENDS UpstreamRetry, TLC

CONSTANTS r1, r2, k1

(* Two channels share the first tier; the second has a weight of 0, which  *)
(* counts as 1; the third is the tier below.                               *)
MCPriority  == <<2, 2, 1>>
MCWeight    == <<2, 0, 1>>
MCLimit     == <<0, 1, 0>>
MCLists     == {{1, 2, 3}, {2}}

(* Both calls of one conversation. *)
MCConversation == (r1 :> k1) @@ (r2 :> k1)

(* One tier per channel, one call. *)
MCThreeTiers == <<3, 2, 1>>
MCNoLimit    == <<0, 0, 0>>
MCOneList    == {{1, 2, 3}}
MCNone       == (r1 :> None)

Symmetry == Permutations({r1, r2})
=============================================================================

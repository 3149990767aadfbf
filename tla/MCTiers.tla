------------------------------ MODULE MCTiers ------------------------------
(***************************************************************************)
(* A node that derives its tiers and one with an explicit list; a plain    *)
(* task that never stops coming, and one that the router places, unless    *)
(* its label names a tier whose consumer the bootstrap does not create.    *)
(***************************************************************************)
EXTENDS Tiers, TLC

CONSTANTS n1, n2, t0, t1, q9, b9, q35

MCNeed == (q9 :> 8000) @@ (b9 :> 22000) @@ (q35 :> 24000)
MCRank == (Default :> 0) @@ (q9 :> 1) @@ (b9 :> 2) @@ (q35 :> 3)
MCListed == (n1 :> {}) @@ (n2 :> {q35})
MCLabels == (t0 :> {NoTier}) @@ (t1 :> {NoTier, b9})
MCBootTiers == <<Plain, q9, q35>>
=============================================================================

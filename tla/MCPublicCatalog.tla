-------------------------- MODULE MCPublicCatalog --------------------------
(***************************************************************************)
(* Small instances of PublicCatalog: one account with a LiteLLM and a      *)
(* direct binding, one tenant, one writer and one listing.                 *)
(***************************************************************************)
EXTENDS PublicCatalog, TLC

CONSTANTS a1, b1, b2

MCAccountOf == [b \in Bindings |-> a1]
MCTransportOf == [b \in Bindings |-> IF b = b1 THEN "litellm" ELSE "direct"]
MCLabelSets == {Labels}
MCPriorities == {1}
FeatureSymmetry == Permutations(Features)
=============================================================================

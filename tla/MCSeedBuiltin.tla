--------------------------- MODULE MCSeedBuiltin ---------------------------
(***************************************************************************)
(* A small instance of SeedBuiltin: one account with one LiteLLM binding,  *)
(* which is the builtin one.                                               *)
(***************************************************************************)
EXTENDS SeedBuiltin, TLC

CONSTANTS a1, b1, l1, g1, f1

MCAccountOf == [b \in Bindings |-> a1]
LiteLLMOnly == [b \in Bindings |-> "litellm"]
MCLabelSets == {{l1}}
MCPriorities == {1}
CallerSymmetry == Permutations(Callers)
=============================================================================

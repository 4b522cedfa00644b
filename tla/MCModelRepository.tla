------------------------ MODULE MCModelRepository ------------------------
(***************************************************************************)
(* Small instances of ModelRepository: one account with one LiteLLM        *)
(* binding; a run enables the methods whose interleavings it is about.     *)
(***************************************************************************)
EXTENDS ModelRepository, TLC

CONSTANTS a1, b1, l1

MCAccountOf == [b \in Bindings |-> a1]
LiteLLMOnly == [b \in Bindings |-> "litellm"]
MCLabelSets == {{l1}}
MCPriorities == {1}
CallerSymmetry == Permutations(Callers)
==========================================================================

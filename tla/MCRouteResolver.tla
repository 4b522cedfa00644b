-------------------------- MODULE MCRouteResolver --------------------------
(***************************************************************************)
(* Small instances of RouteResolver: one account with two LiteLLM bindings *)
(* for one label of one tenant, one writer and one reader.                 *)
(***************************************************************************)
EXTENDS RouteResolver

CONSTANTS a1, b1, b2, l1

MCAccountOf == [b \in Bindings |-> a1]
MCTransportOf == [b \in Bindings |-> "litellm"]
MCLabelSets == {{l1}}
MCPriorities == {1}

=============================================================================

----------------------------- MODULE HttpRoutes -----------------------------
(***************************************************************************)
(* The routes kokoro-model registers, the levels it declares for them, and *)
(* the actions its admin contract announces, each as the table it is.      *)
(*                                                                         *)
(* A route names its verb, its path, the method its handler calls, how its *)
(* handler answers a method that throws (errors), and the parameters a     *)
(* schema asks of its path, Null where no schema is asked.  The errors are *)
(* "mapped" by handleModelError, handleAdminModelError or the replies of   *)
(* target-server.ts, answered by one "code" whatever was thrown, or left   *)
(* to the error "hook" of the server.                                      *)
(***************************************************************************)
EXTENDS RouteAccess

CONSTANT Null

At(verb, path, calls, errors, params) ==
  [verb |-> verb, path |-> path, calls |-> calls, errors |-> errors, params |-> params]

AccountId == {":providerAccountId"}
BindingId == {":modelBindingId"}
Parameters == AccountId \cup BindingId \cup {":id"}

ASSUME RoutesAssumption == Null \notin {AccountId, BindingId}

-----------------------------------------------------------------------------
(* registerModelRoutes.                                                    *)

ProbeRoutes ==
  {At("GET", <<"healthz">>, "none", "hook", Null),
   At("GET", <<"metrics">>, "none", "hook", Null)}

ProviderAccountRoutes ==
  {At("POST", <<"provider-accounts", "ensure">>, "ensureProviderAccount", "mapped", Null),
   At("DELETE", <<"provider-accounts", ":providerAccountId">>,
      "deleteProviderAccount", "mapped", AccountId),
   At("POST", <<"provider-accounts", ":providerAccountId", "restore">>,
      "restoreProviderAccount", "mapped", AccountId)}

EnsureRoutes ==
  {At("POST", <<"model-bindings", "ensure">>, "ensureModelBinding", "mapped", Null),
   At("POST", <<"model-labels", "ensure">>, "ensureModelLabel", "mapped", Null)}

CatalogRoutes ==
  {At("GET", <<"model-labels">>, "listActiveModelLabelsPage", "mapped", Null),
   At("GET", <<"bff", "model-catalog">>, "listPublicModelCatalog", "mapped", Null)}

BindingRoutes ==
  {At("DELETE", <<"model-bindings", ":modelBindingId">>,
      "deleteModelBinding", "mapped", BindingId),
   At("POST", <<"model-bindings", ":modelBindingId", "restore">>,
      "restoreModelBinding", "mapped", BindingId),
   At("GET", <<"model-bindings">>, "listModelBindingsPage", "mapped", Null),
   At("GET", <<"model-bindings", "resolve">>, "resolveModelBindings", "mapped", Null)}

-----------------------------------------------------------------------------
(* registerModelAdminRoutes.                                               *)

AdminListRoutes ==
  {At("GET", <<"admin", "models", "manifest">>, "none", "hook", Null),
   At("GET", <<"admin", "models", "provider-accounts">>, "listProviderAccounts", "mapped", Null),
   At("GET", <<"admin", "models", "bindings">>, "listAllModelBindings", "mapped", Null),
   At("GET", <<"admin", "models", "labels">>, "listModelLabels", "mapped", Null),
   At("GET", <<"admin", "models", "tenant-policies">>, "listTenantModelPolicies", "mapped", Null)}

PolicyRoutes ==
  {At("POST", <<"admin", "models", "tenant-policies">>, "upsertTenantModelPolicy", "code", Null)}

\* enable and disable have no try of their own.
StatusRoutes ==
  {At("POST", <<"admin", "models", "provider-accounts", ":id", a>>,
      "setProviderAccountStatus", "hook", Null) :
     a \in {"disable", "enable"}}
  \cup
  {At("POST", <<"admin", "models", "bindings", ":id", a>>,
      "setModelBindingStatus", "hook", Null) :
     a \in {"disable", "enable"}}

HealthRoutes ==
  {At("POST", <<"admin", "models", "provider-accounts", ":id", "health">>,
      "setProviderHealthStatus", "mapped", AccountId)}

LifecycleRoutes ==
  {At("DELETE", <<"admin", "models", "provider-accounts", ":providerAccountId">>,
      "deleteProviderAccount", "mapped", AccountId),
   At("POST", <<"admin", "models", "provider-accounts", ":providerAccountId", "restore">>,
      "restoreProviderAccount", "mapped", AccountId),
   At("DELETE", <<"admin", "models", "bindings", ":modelBindingId">>,
      "deleteModelBinding", "mapped", BindingId),
   At("POST", <<"admin", "models", "bindings", ":modelBindingId", "restore">>,
      "restoreModelBinding", "mapped", BindingId)}

-----------------------------------------------------------------------------
(* The target routes, the whole surface and the RPC service.               *)

TargetRoutes ==
  {At("GET", <<"readyz">>, "checks", "mapped", Null),
   At("POST", <<"resolve">>, "resolve", "mapped", Null)}

HttpSurface ==
  UNION {ProbeRoutes, TargetRoutes, ProviderAccountRoutes, EnsureRoutes, CatalogRoutes,
         BindingRoutes, AdminListRoutes, PolicyRoutes, StatusRoutes, HealthRoutes,
         LifecycleRoutes}

RpcSurface == {At("RPC", <<"ModelCatalogService", "ResolveModel">>, "resolve", "mapped", Null)}

Routes == HttpSurface \cup RpcSurface

\* A path satisfies the schema asked of it if it has the parameters required.
ParamsOf(path) == {path[i] : i \in DOMAIN path} \cap Parameters
ParamsAccepted(route) == route.params # Null => route.params \subseteq ParamsOf(route.path)

-----------------------------------------------------------------------------
(* createModelServer: the declarations, in their order.                    *)

Declarations ==
  <<DeclaredRoute(<<"healthz">>, TRUE, "public"),
    DeclaredRoute(<<"metrics">>, TRUE, "public"),
    DeclaredRoute(<<"admin">>, FALSE, "admin"),
    DeclaredRoute(<<"provider-accounts">>, FALSE, "runtime-internal"),
    DeclaredRoute(<<"model-bindings">>, FALSE, "runtime-internal"),
    DeclaredRoute(<<"model-labels">>, FALSE, "runtime-internal"),
    DeclaredRoute(<<"bff", "model-catalog">>, FALSE, "web-bff"),
    DeclaredRoute(<<"docs">>, FALSE, "runtime-internal"),
    DeclaredRoute(<<"readyz">>, TRUE, "public"),
    DeclaredRoute(<<"resolve">>, TRUE, "runtime-internal")>>

DefaultLevel == "runtime-internal"

LevelOf(path) == ResolveLevel(Declarations, path, DefaultLevel)

\* Mutant of RequiredCallers: without the caller of the catalogue.
RequiredCallersFewer == {"agent", "admin"}

RequiredCallers == {"agent", "admin", "web-bff"}

-----------------------------------------------------------------------------
(* The actions the admin contract announces to an admin shell.             *)

Action(verb, path) == [verb |-> verb, path |-> path]

ProviderAccountActions ==
  {Action("POST", <<"provider-accounts", "ensure">>),
   Action("DELETE", <<"admin", "models", "provider-accounts", ":providerAccountId">>),
   Action("POST", <<"admin", "models", "provider-accounts", ":providerAccountId", "restore">>)}
  \cup {Action("POST", <<"admin", "models", "provider-accounts", ":id", a>>) :
          a \in {"disable", "enable", "health"}}

BindingActions ==
  {Action("POST", <<"model-bindings", "ensure">>),
   Action("DELETE", <<"admin", "models", "bindings", ":modelBindingId">>),
   Action("POST", <<"admin", "models", "bindings", ":modelBindingId", "restore">>)}
  \cup {Action("POST", <<"admin", "models", "bindings", ":id", a>>) : a \in {"disable", "enable"}}

\* Every page an admin shell opens and every action it offers on it.
ContractRoutes ==
  ProviderAccountActions \cup BindingActions
  \cup {Action("POST", <<"model-labels", "ensure">>),
        Action("POST", <<"admin", "models", "tenant-policies">>)}
  \cup {Action("GET", <<"admin", "models", page>>) :
          page \in {"provider-accounts", "bindings", "labels", "tenant-policies"}}

Announced(route) == Action(route.verb, route.path) \in ContractRoutes
=============================================================================

----------------------------- MODULE RouteAccess -----------------------------
(***************************************************************************)
(* route-access.ts of service-kit: the access level of a path, from the    *)
(* declarations a server makes at start, and what a request is answered    *)
(* that may not pass.                                                      *)
(*                                                                         *)
(* A path is the sequence of its segments; of two declarations that match  *)
(* one path, the longer string is the one with more segments.  A secret is *)
(* reduced to whether it is configured and whether the request carries it. *)
(* insecureLocal, a switch for tests that no program sets, is left out.    *)
(***************************************************************************)
EXTENDS Naturals, Sequences

ServiceCallers ==
  {"agent", "web-bff", "admin", "hub", "payment", "credit", "model", "site", "user"}

AccessLevels == {"public", "runtime-internal", "web-bff", "admin"}

RuntimeInternalCallers ==
  {"agent", "credit", "payment", "model", "site", "user", "hub", "admin"}

\* LEVEL_ALLOWED_CALLERS, without public, which asks for no caller.
AllowedCallers(level) ==
  CASE level = "runtime-internal" -> RuntimeInternalCallers
    [] level = "web-bff" -> {"web-bff"}
    [] level = "admin" -> {"admin"}

\* A declared route: a path, whether it must match exactly, and a level.
DeclaredRoute(path, exact, level) == [path |-> path, exact |-> exact, level |-> level]

Matches(d, path) ==
  IF d.exact THEN path = d.path
  ELSE Len(d.path) <= Len(path) /\ SubSeq(path, 1, Len(d.path)) = d.path

-----------------------------------------------------------------------------
(* resolveLevel keeps the first of the longest declarations that match.    *)

Matching(declared, path) == {i \in DOMAIN declared : Matches(declared[i], path)}

Best(declared, path) ==
  CHOOSE i \in Matching(declared, path) :
    \A j \in Matching(declared, path) :
      \/ Len(declared[j].path) < Len(declared[i].path)
      \/ Len(declared[j].path) = Len(declared[i].path) /\ i <= j

ResolveLevel(declared, path, defaultLevel) ==
  IF Matching(declared, path) = {} THEN defaultLevel
  ELSE declared[Best(declared, path)].level

\* No two declarations give one path different levels.
Consistent(declared) ==
  \A i, j \in DOMAIN declared :
    declared[i].path = declared[j].path => declared[i].level = declared[j].level

-----------------------------------------------------------------------------
(* registerRouteAccess: what stops the start, and what stops a request.    *)

\* Production refuses to start without the secrets of these callers.
MissingCallers(secrets, production, required) ==
  IF production THEN required \ secrets ELSE {}

Unauthorized == 401
Forbidden == 403
NotConfigured == 503

\* Mutant of Refusal: whoever is authenticated is let in at any level.
RefusalAtNoLevel(level, secrets, caller, genuine) ==
  CASE level = "public" -> {}
    [] level # "public" /\ secrets = {} -> {NotConfigured}
    [] level # "public" /\ secrets # {} /\ ~(caller \in secrets /\ genuine) -> {Unauthorized}
    [] OTHER -> {}

\* The onRequest hook: the status it answers, none if the request passes.
\* caller is whom the request names, genuine whether it carries the caller's secret.
Refusal(level, secrets, caller, genuine) ==
  CASE level = "public" -> {}
    [] level # "public" /\ secrets = {} -> {NotConfigured}
    [] level # "public" /\ secrets # {} /\ ~(caller \in secrets /\ genuine) -> {Unauthorized}
    [] level # "public" /\ caller \in secrets /\ genuine /\ caller \notin AllowedCallers(level) ->
         {Forbidden}
    [] OTHER -> {}
=============================================================================

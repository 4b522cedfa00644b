---------------------------- MODULE MCRouteCache ----------------------------
(***************************************************************************)
(* Small instances of RouteCache.  d1 is a route, Null the answer "no      *)
(* route", which is cached as well.                                        *)
(***************************************************************************)
EXTENDS RouteCache, TLC

CONSTANTS d1

MCDecisions == {d1, Null}
Symmetric == Permutations(Readers) \cup Permutations(Writers) \cup Permutations(Keys)
=============================================================================

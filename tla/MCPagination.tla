---------------------------- MODULE MCPagination ----------------------------
(***************************************************************************)
(* Small instances of Pagination.  Keys are the ranks of the rows, so that *)
(* a row may be inserted at any place of a list.                           *)
(***************************************************************************)
EXTENDS Pagination

MCCreatedAt == [k \in Keys |-> k]
=============================================================================

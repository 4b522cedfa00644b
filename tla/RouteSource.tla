---------------------------- MODULE RouteSource ----------------------------
(***************************************************************************)
(* What the route cache may assume of the resolver behind it.  Every key   *)
(* has a true decision, which commits change.  A query takes time; one     *)
(* that no commit overlaps returns the true decision, one that a commit    *)
(* overlaps may return anything.  The word for this is a safe register,    *)
(* and it is all that four separate database queries give.                 *)
(***************************************************************************)
CONSTANTS Keys, Decisions, Readers, Null

ASSUME SourceAssumption == Null \notin Keys

VARIABLES
  truth,   \* the decision the database stands for, by key
  query    \* a reader's query: what it asked, whether it has returned, and
           \* whether no commit has happened since it began

Queries ==
  [key : Keys, at : {"asked"}, clean : BOOLEAN, value : {Null}]
    \cup [key : Keys, at : {"returned"}, clean : BOOLEAN, value : Decisions]

SourceTypeOK ==
  /\ truth \in [Keys -> Decisions]
  /\ query \in [Readers -> Queries \cup {Null}]

Ask(r, k) ==
  /\ query[r] = Null
  /\ query' = [query EXCEPT ![r] =
                 [key |-> k, at |-> "asked", clean |-> TRUE, value |-> Null]]
  /\ UNCHANGED truth

Return(r) ==
  /\ query[r] # Null /\ query[r].at = "asked"
  /\ \E v \in IF query[r].clean THEN {truth[query[r].key]} ELSE Decisions :
       query' = [query EXCEPT ![r].at = "returned", ![r].value = v]
  /\ UNCHANGED truth

\* The reader is done with what its query returned, or its query failed.
Leave(r) ==
  /\ query[r] # Null
  /\ query' = [query EXCEPT ![r] = Null]
  /\ UNCHANGED truth

\* A write to the database; it may leave every decision as it was.
Commit ==
  /\ truth' \in [Keys -> Decisions]
  /\ query' = [r \in Readers |->
                 IF query[r] = Null THEN Null ELSE [query[r] EXCEPT !.clean = FALSE]]

SourceInit ==
  /\ truth \in [Keys -> Decisions]
  /\ query = [r \in Readers |-> Null]

SourceNext ==
  \/ Commit
  \/ \E r \in Readers : Return(r) \/ Leave(r) \/ \E k \in Keys : Ask(r, k)

SourceSpec == SourceInit /\ [][SourceNext]_<<truth, query>>

\* A decision that came back from a query no commit has overlapped is true now.
CleanReturnIsTrue ==
  \A r \in Readers :
    query[r] # Null /\ query[r].at = "returned" /\ query[r].clean =>
      query[r].value = truth[query[r].key]
=============================================================================

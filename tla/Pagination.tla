----------------------------- MODULE Pagination -----------------------------
(***************************************************************************)
(* pageWindow, and the lists cut by it: a client follows cursors through a *)
(* list that is queried afresh for every page while its rows are written.  *)
(*                                                                         *)
(* A cursor carries the resource it was issued for, an offset, and a scope *)
(* that stands for the list: its length, its first and its last row.  It   *)
(* is accepted by a list of the same resource and the same scope.          *)
(*                                                                         *)
(* The rows are those of one table; each resource lists all of them or     *)
(* those shown (active, not deleted, matching the filter in its name), in  *)
(* an order of its own.  A list composed from several reads is taken as    *)
(* read at once.                                                           *)
(***************************************************************************)
EXTENDS Naturals, FiniteSets

CONSTANTS
  Keys,          \* rows that may be inserted
  CreatedAt,     \* the rank of a row in ORDER BY createdAt, id
  Priorities, Contents,
  Resources,     \* the lists clients walk through
  Walkers,       \* clients
  Limits,        \* page sizes they ask for
  MaxLimit,      \* MAX_LIMIT
  Null

VARIABLES
  row,    \* the table: a row, or Null where none was inserted
  walk    \* how far a client has got, or Null before its first page

vars == <<row, walk>>

\* The lists that are queried whole and cut into pages.  The public catalogue,
\* composed from many reads before it is cut, is left to PublicCatalog.
AllResources ==
  {"admin-provider-accounts", "admin-model-bindings", "admin-model-labels",
   "admin-tenant-policies", "tenant-model-policies", "model-bindings", "model-labels"}

\* Lists of every row there is: no row is ever taken out of the table.
Unfiltered ==
  {"admin-provider-accounts", "admin-model-bindings", "admin-model-labels",
   "admin-tenant-policies", "tenant-model-policies"}

\* Lists ordered by a column that is written, before createdAt.
ByPriority == {"admin-provider-accounts", "model-bindings"}

\* Lists that no row leaves and in which no two rows change places.
Kept == Unfiltered \ ByPriority

Row == [priority : Priorities, shown : BOOLEAN, content : Contents]
Edge == [key : Keys, row : Row] \cup {Null}
Scope == [size : Nat, first : Edge, last : Edge]
Cursor == [resource : Resources, scope : Scope, offset : Nat]

\* served counts the rows given so far, seen collects them; calm is history,
\* read by no guard: no row has been written since the first page.
Walk ==
  [resource : Resources, cursor : Cursor \cup {Null}, seen : SUBSET Keys, served : Nat,
   answer : {"page", "invalid_cursor", "invalid_page"}, calm : BOOLEAN]

ASSUME PaginationAssumption ==
  /\ IsFiniteSet(Keys)
  /\ CreatedAt \in [Keys -> Nat]
  /\ \A j, k \in Keys : CreatedAt[j] = CreatedAt[k] => j = k
  /\ Priorities \subseteq Nat
  /\ Resources \subseteq AllResources
  /\ Limits \subseteq Nat /\ MaxLimit \in Nat
  /\ Null \notin Row \cup Cursor \cup Walk

TypeOK ==
  /\ row \in [Keys -> Row \cup {Null}]
  /\ walk \in [Walkers -> Walk \cup {Null}]

-----------------------------------------------------------------------------
(* The lists.                                                              *)

Listed(res) == {k \in Keys : row[k] # Null /\ (res \in Unfiltered \/ row[k].shown)}

Size(res) == Cardinality(Listed(res))

\* The order of the routed bindings is oldest first, of every other list newest.
Older(res, j, k) ==
  IF res = "model-bindings" THEN CreatedAt[j] < CreatedAt[k] ELSE CreatedAt[j] > CreatedAt[k]

Before(res, j, k) ==
  IF res \in ByPriority /\ row[j].priority # row[k].priority
  THEN row[j].priority < row[k].priority
  ELSE Older(res, j, k)

\* The index of a listed row, and values.slice(from, to).
Place(res, k) ==
  LET listed == Listed(res) IN Cardinality({j \in listed : Before(res, j, k)})

Slice(res, from, to) ==
  {k \in Listed(res) : LET i == Place(res, k) IN from <= i /\ i < to}

\* values[0] and values.at(-1), undefined in an empty list.
FirstRow(res) ==
  IF Listed(res) = {} THEN Null
  ELSE LET listed == Listed(res)
           k == CHOOSE k \in listed : \A j \in listed \ {k} : Before(res, k, j)
       IN [key |-> k, row |-> row[k]]

LastRow(res) ==
  IF Listed(res) = {} THEN Null
  ELSE LET listed == Listed(res)
           k == CHOOSE k \in listed : \A j \in listed \ {k} : Before(res, j, k)
       IN [key |-> k, row |-> row[k]]

\* A method of the repository writes one row: it is inserted, or rewritten,
\* which may show it, hide it or move it.
Write(k) ==
  /\ \E r \in Row : row[k] # r /\ row' = [row EXCEPT ![k] = r]
  /\ walk' = [w \in Walkers |-> IF walk[w] = Null THEN Null
                                ELSE [walk[w] EXCEPT !.calm = FALSE]]

-----------------------------------------------------------------------------
(* Pages.                                                                  *)

\* Mutant of pageScope: the ends of the list without its length.
pageScopeEnds(res) ==
  [size |-> 0, first |-> FirstRow(res), last |-> LastRow(res)]

pageScope(res) ==
  [size |-> Size(res), first |-> FirstRow(res), last |-> LastRow(res)]

ValidLimit(limit) == limit >= 1 /\ limit <= MaxLimit

\* Mutant of Accepts: an offset one short of the length is refused.
AcceptsShort(res, c) ==
  /\ c.resource = res
  /\ c.scope = pageScope(res)
  /\ c.offset + 1 < Size(res)

\* What a cursor must agree with to be decoded to its offset.
Accepts(res, c) ==
  /\ c.resource = res
  /\ c.scope = pageScope(res)
  /\ c.offset <= Size(res)

PageEnd(res, offset, limit) == IF offset + limit < Size(res) THEN offset + limit ELSE Size(res)

\* Mutant of nextCursor: the name of another list, as copied from its handler.
nextCursorCopied(res, to) ==
  IF to >= Size(res) THEN Null
  ELSE [resource |-> "tenant-model-policies", scope |-> pageScope(res), offset |-> to]

\* The cursor given with the rows up to place to, none with the last row.
nextCursor(res, to) ==
  IF to >= Size(res) THEN Null
  ELSE [resource |-> res, scope |-> pageScope(res), offset |-> to]

FirstPage(w, res, limit) ==
  /\ ValidLimit(limit)
  /\ LET to == PageEnd(res, 0, limit) IN
     walk' = [walk EXCEPT ![w] =
       [resource |-> res, cursor |-> nextCursor(res, to), seen |-> Slice(res, 0, to),
        served |-> to, answer |-> "page", calm |-> TRUE]]
  /\ UNCHANGED row

Held(w) == walk[w] # Null /\ walk[w].cursor # Null

\* The cursor is sent to the list it came from, or by mistake to another.
NextPage(w, res, limit) ==
  /\ Held(w) /\ ValidLimit(limit) /\ Accepts(res, walk[w].cursor)
  /\ LET from == walk[w].cursor.offset
         to == PageEnd(res, from, limit) IN
     walk' = [walk EXCEPT ![w].cursor = nextCursor(res, to),
                          ![w].seen = @ \cup Slice(res, from, to),
                          ![w].served = @ + (to - from),
                          ![w].answer = "page"]
  /\ UNCHANGED row

Reject(w, res, limit) ==
  /\ Held(w)
  /\ \/ ~ValidLimit(limit) /\ walk' = [walk EXCEPT ![w].answer = "invalid_page"]
     \/ /\ ValidLimit(limit) /\ ~Accepts(res, walk[w].cursor)
        /\ walk' = [walk EXCEPT ![w].answer = "invalid_cursor"]
  /\ UNCHANGED row

Init ==
  /\ row \in [Keys -> Row \cup {Null}]
  /\ walk = [w \in Walkers |-> Null]

Next ==
  \/ \E k \in Keys : Write(k)
  \/ \E w \in Walkers, res \in Resources, limit \in Limits :
       FirstPage(w, res, limit) \/ NextPage(w, res, limit) \/ Reject(w, res, limit)

Spec == Init /\ [][Next]_vars

-----------------------------------------------------------------------------
\* The step that ends a walk: a page without a cursor.
Ends(w) ==
  /\ row' = row /\ walk'[w] # walk[w] /\ walk'[w] # Null
  /\ walk'[w].answer = "page" /\ walk'[w].cursor = Null

\* The rows given are the rows of the list, each given once.
Exact(w) ==
  /\ walk'[w].seen = Listed(walk'[w].resource)
  /\ walk'[w].served = Cardinality(walk'[w].seen)

\* In the lists whose rows never leave or move, a walk that is not turned away
\* is exact, whatever was inserted or rewritten between its pages: an insertion
\* changes the length, and a rewrite changes no place. In the other lists a
\* walk during which nothing is written is.
WalksAreExact ==
  [][\A w \in Walkers :
       Ends(w) /\ (walk'[w].resource \in Kept \/ walk'[w].calm) => Exact(w)]_vars

\* A cursor is good for the list it came from as long as no row is written.
CalmCursorIsAccepted ==
  \A w \in Walkers : Held(w) /\ walk[w].calm =>
    Accepts(walk[w].resource, walk[w].cursor)
=============================================================================

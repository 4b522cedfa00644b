-------------------------- MODULE PaginationProofs --------------------------
(***************************************************************************)
(* For any table, any lists and any number of clients: a walk that is not  *)
(* turned away gives every row once, in the lists whose rows never leave   *)
(* or move, and in every list that is left alone meanwhile.                *)
(***************************************************************************)
EXTENDS Pagination, Minima

\* What a cursor knows of the rows already given, in the list as it is now.
WalkInv(x) ==
  x.cursor # Null =>
    /\ x.cursor.resource = x.resource
    /\ x.served = x.cursor.offset
    /\ x.calm => /\ x.cursor.scope = pageScope(x.resource)
                 /\ x.cursor.offset < Size(x.resource)
                 /\ x.seen = Slice(x.resource, 0, x.cursor.offset)
    /\ x.resource \in Kept =>
         /\ x.cursor.scope.size <= Size(x.resource)
         /\ x.cursor.scope.size = Size(x.resource) =>
              x.seen = Slice(x.resource, 0, x.cursor.offset)

IInv ==
  /\ TypeOK
  /\ \A w \in Walkers : walk[w] # Null => WalkInv(walk[w])

-----------------------------------------------------------------------------
(* The lists.                                                              *)

LEMMA ListedFinite ==
  ASSUME NEW res
  PROVE  Listed(res) \subseteq Keys /\ IsFiniteSet(Listed(res)) /\ Size(res) \in Nat
<1>1. Listed(res) \subseteq Keys
  BY DEF Listed
<1>2. IsFiniteSet(Listed(res))
  BY <1>1, PaginationAssumption, FS_Subset
<1> QED  BY <1>1, <1>2, FS_CardinalityType DEF Size

\* ORDER BY is a strict total order: createdAt, id ties no two rows.
LEMMA BeforeOrders ==
  ASSUME TypeOK, NEW res
  PROVE  \A i, j, k \in Listed(res) :
           /\ ~Before(res, i, i)
           /\ i # j => Before(res, i, j) \/ Before(res, j, i)
           /\ Before(res, i, j) /\ Before(res, j, k) => Before(res, i, k)
<1> SUFFICES ASSUME NEW i \in Listed(res), NEW j \in Listed(res), NEW k \in Listed(res)
             PROVE  /\ ~Before(res, i, i)
                    /\ i # j => Before(res, i, j) \/ Before(res, j, i)
                    /\ Before(res, i, j) /\ Before(res, j, k) => Before(res, i, k)
  OBVIOUS
<1>1. \A x \in Listed(res) : row[x].priority \in Nat
  BY PaginationAssumption DEF Listed, TypeOK, Row
<1>2. CreatedAt[i] \in Nat /\ CreatedAt[j] \in Nat /\ CreatedAt[k] \in Nat
      /\ (CreatedAt[i] = CreatedAt[j] => i = j)
  BY ListedFinite, PaginationAssumption
<1> QED  BY <1>1, <1>2 DEF Before, Older

LEMMA PlaceBounds ==
  ASSUME TypeOK, NEW res, NEW k \in Listed(res)
  PROVE  Place(res, k) \in Nat /\ Place(res, k) < Size(res)
<1> DEFINE P == {j \in Listed(res) : Before(res, j, k)}
<1>1. P \subseteq Listed(res) /\ P # Listed(res)
  BY BeforeOrders
<1>2. IsFiniteSet(P) /\ Cardinality(P) \in Nat
  BY <1>1, ListedFinite, FS_Subset, FS_CardinalityType
<1>3. Cardinality(P) <= Cardinality(Listed(res))
      /\ (Cardinality(P) = Cardinality(Listed(res)) => P = Listed(res))
  BY <1>1, ListedFinite, FS_Subset
<1>4. Cardinality(Listed(res)) \in Nat
  BY ListedFinite DEF Size
<1>5. Cardinality(P) < Cardinality(Listed(res))
  BY <1>1, <1>2, <1>3, <1>4
<1> QED  BY <1>2, <1>5 DEF Place, Size

LEMMA PlaceIncreases ==
  ASSUME TypeOK, NEW res, NEW j \in Listed(res), NEW k \in Listed(res), Before(res, j, k)
  PROVE  Place(res, j) < Place(res, k)
<1> DEFINE P == {i \in Listed(res) : Before(res, i, j)}
<1> DEFINE Q == {i \in Listed(res) : Before(res, i, k)}
<1>1. P \subseteq Q /\ P # Q
  BY BeforeOrders
<1>2. IsFiniteSet(Q)
  BY ListedFinite, FS_Subset
<1>3. IsFiniteSet(P) /\ Cardinality(P) \in Nat /\ Cardinality(Q) \in Nat
  BY <1>1, <1>2, FS_Subset, FS_CardinalityType
<1>4. Cardinality(P) <= Cardinality(Q) /\ (Cardinality(P) = Cardinality(Q) => P = Q)
  BY <1>1, <1>2, FS_Subset
<1>5. Cardinality(P) < Cardinality(Q)
  BY <1>1, <1>3, <1>4
<1> QED  BY <1>5 DEF Place

\* values[0] and values.at(-1) of a list that is not empty are rows of it.
LEMMA EdgesTyped ==
  ASSUME TypeOK, NEW res
  PROVE  FirstRow(res) \in Edge /\ LastRow(res) \in Edge
<1>1. CASE Listed(res) = {}
  BY <1>1 DEF FirstRow, LastRow, Edge
<1>2. CASE Listed(res) # {}
  <2> DEFINE Places == {Place(res, k) : k \in Listed(res)}
  <2>1. Places \subseteq Nat /\ Places # {} /\ Size(res) \in Nat
        /\ \A n \in Places : n <= Size(res)
    <3>1. \A k \in Listed(res) : Place(res, k) \in Nat /\ Place(res, k) <= Size(res)
      BY PlaceBounds, ListedFinite
    <3> QED  BY <3>1, <1>2, ListedFinite
  <2> HIDE DEF Places
  <2>2. PICK least \in Places : \A n \in Places : least <= n
    BY <2>1, LeastNatural
  <2>3. PICK greatest \in Places : \A n \in Places : n <= greatest
    BY <2>1, GreatestNatural
  <2> USE DEF Places
  <2>4. PICK a \in Listed(res) : Place(res, a) = least
    BY <2>2
  <2>5. PICK z \in Listed(res) : Place(res, z) = greatest
    BY <2>3
  <2>6. ASSUME NEW j \in Listed(res) \ {a} PROVE Before(res, a, j)
    <3>1. least <= Place(res, j) /\ least \in Nat /\ Place(res, j) \in Nat
      BY <2>1, <2>2
    <3>2. ~Before(res, j, a)
      BY <3>1, <2>4, PlaceIncreases
    <3> QED  BY <3>2, BeforeOrders
  <2>7. ASSUME NEW j \in Listed(res) \ {z} PROVE Before(res, j, z)
    <3>1. Place(res, j) <= greatest /\ greatest \in Nat /\ Place(res, j) \in Nat
      BY <2>1, <2>3
    <3>2. ~Before(res, z, j)
      BY <3>1, <2>5, PlaceIncreases
    <3> QED  BY <3>2, BeforeOrders
  <2>8. \A k \in Listed(res) : [key |-> k, row |-> row[k]] \in Edge
    BY DEF Listed, TypeOK, Edge
  <2>9. FirstRow(res) \in Edge
    <3> DEFINE f == CHOOSE k \in Listed(res) : \A j \in Listed(res) \ {k} : Before(res, k, j)
    <3>1. f \in Listed(res)
      BY <2>6
    <3> QED  BY <3>1, <2>8, <1>2 DEF FirstRow
  <2>10. LastRow(res) \in Edge
    <3> DEFINE l == CHOOSE k \in Listed(res) : \A j \in Listed(res) \ {k} : Before(res, j, k)
    <3>1. l \in Listed(res)
      BY <2>7
    <3> QED  BY <3>1, <2>8, <1>2 DEF LastRow
  <2> QED  BY <2>9, <2>10
<1> QED  BY <1>1, <1>2

\* The rows up to a place, and from there to a later one.
LEMMA SlicesJoin ==
  ASSUME TypeOK, NEW res, NEW from \in Nat, NEW to \in Nat, from <= to
  PROVE  /\ Slice(res, 0, from) \cup Slice(res, from, to) = Slice(res, 0, to)
         /\ to >= Size(res) => Slice(res, 0, to) = Listed(res)
<1>1. Size(res) \in Nat /\ \A k \in Listed(res) : Place(res, k) \in Nat /\ Place(res, k) < Size(res)
  BY PlaceBounds, ListedFinite
<1>2. Slice(res, 0, from) \cup Slice(res, from, to) = Slice(res, 0, to)
  <2>1. \A k \in Listed(res) : (0 <= Place(res, k) /\ Place(res, k) < from)
          \/ (from <= Place(res, k) /\ Place(res, k) < to)
          <=> (0 <= Place(res, k) /\ Place(res, k) < to)
    BY <1>1
  <2> QED  BY <2>1 DEF Slice
<1>3. ASSUME to >= Size(res) PROVE Slice(res, 0, to) = Listed(res)
  <2>1. \A k \in Listed(res) : 0 <= Place(res, k) /\ Place(res, k) < to
    BY <1>1, <1>3
  <2> QED  BY <2>1 DEF Slice
<1> QED  BY <1>2, <1>3

LEMMA PageEndBounds ==
  ASSUME NEW res, NEW offset \in Nat, NEW limit \in Nat, offset <= Size(res)
  PROVE  /\ PageEnd(res, offset, limit) \in Nat
         /\ offset <= PageEnd(res, offset, limit) /\ PageEnd(res, offset, limit) <= Size(res)
<1>1. Size(res) \in Nat
  BY ListedFinite
<1> QED  BY <1>1 DEF PageEnd

LEMMA NextCursorTyped ==
  ASSUME TypeOK, NEW res \in Resources, NEW to \in Nat
  PROVE  /\ to < Size(res) => /\ nextCursor(res, to) \in Cursor
                              /\ nextCursor(res, to).resource = res
                              /\ nextCursor(res, to).offset = to
                              /\ nextCursor(res, to).scope = pageScope(res)
         /\ to >= Size(res) => nextCursor(res, to) = Null
         /\ nextCursor(res, to) = Null => to >= Size(res)
<1>1. Size(res) \in Nat
  BY ListedFinite
<1>2. pageScope(res) \in Scope
  BY <1>1, EdgesTyped DEF pageScope, Scope
<1>3. ASSUME to < Size(res)
      PROVE  nextCursor(res, to) = [resource |-> res, scope |-> pageScope(res), offset |-> to]
  BY <1>1, <1>3 DEF nextCursor
<1>4. [resource |-> res, scope |-> pageScope(res), offset |-> to] \in Cursor
  BY <1>2 DEF Cursor
<1>5. Null \notin Cursor
  BY PaginationAssumption
<1>6. to >= Size(res) => nextCursor(res, to) = Null
  BY DEF nextCursor
<1>7. to < Size(res) \/ to >= Size(res)
  BY <1>1
<1> QED  BY <1>3, <1>4, <1>5, <1>6, <1>7

-----------------------------------------------------------------------------
(* The pages.  A page up to place to, taken with what it says of the walk. *)

PageTo(w, res, to) ==
  /\ to \in Nat /\ to <= Size(res) /\ res \in Resources
  /\ UNCHANGED row
  /\ walk' = [walk EXCEPT ![w] = walk'[w]]
  /\ walk'[w] \in Walk
  /\ walk'[w].resource = res
  /\ walk'[w].cursor = nextCursor(res, to)
  /\ walk'[w].served = to
  /\ res \in Kept \/ walk'[w].calm => walk'[w].seen = Slice(res, 0, to)

LEMMA FirstPageTo ==
  ASSUME IInv, NEW w \in Walkers, NEW res \in Resources, NEW limit \in Limits,
         FirstPage(w, res, limit)
  PROVE  PageTo(w, res, PageEnd(res, 0, limit))
<1> DEFINE to == PageEnd(res, 0, limit)
<1>1. to \in Nat /\ to <= Size(res)
  BY PageEndBounds, ListedFinite, PaginationAssumption
<1>2. walk'[w] = [resource |-> res, cursor |-> nextCursor(res, to), seen |-> Slice(res, 0, to),
                  served |-> to, answer |-> "page", calm |-> TRUE]
  BY DEF FirstPage, IInv, TypeOK
<1>3. nextCursor(res, to) \in Cursor \cup {Null} /\ Slice(res, 0, to) \subseteq Keys
  <2>1. Size(res) \in Nat
    BY ListedFinite
  <2>2. to < Size(res) \/ to >= Size(res)
    BY <1>1, <2>1
  <2> QED  BY <1>1, <2>2, NextCursorTyped, ListedFinite DEF IInv, Slice
<1> HIDE DEF to
<1>4. walk'[w] \in Walk
  BY <1>1, <1>2, <1>3 DEF Walk
<1>5. walk' = [walk EXCEPT ![w] = walk'[w]]
  BY DEF FirstPage, IInv, TypeOK
<1>6. PageTo(w, res, to)
  BY <1>1, <1>2, <1>4, <1>5 DEF PageTo, FirstPage
<1> QED  BY <1>6 DEF to

\* An accepted cursor is one that knows the rows already given.
LEMMA NextPageTo ==
  ASSUME IInv, NEW w \in Walkers, NEW res \in Resources, NEW limit \in Limits,
         NextPage(w, res, limit)
  PROVE  PageTo(w, res, PageEnd(res, walk[w].cursor.offset, limit))
<1> DEFINE x == walk[w]
<1> DEFINE from == x.cursor.offset
<1> DEFINE to == PageEnd(res, from, limit)
<1>1. x \in Walk /\ x.cursor \in Cursor /\ WalkInv(x) /\ Accepts(res, x.cursor)
  BY DEF IInv, TypeOK, NextPage, Held, Walk
<1>2. /\ x.resource = res /\ x.served = from /\ from \in Nat /\ from <= Size(res)
      /\ x.cursor.scope.size = Size(res)
  BY <1>1, PaginationAssumption DEF WalkInv, Accepts, Cursor, pageScope
<1>3. limit \in Nat
  BY PaginationAssumption
<1>4. to \in Nat /\ from <= to /\ to <= Size(res)
  BY <1>2, <1>3, PageEndBounds
<1>5. /\ nextCursor(res, to) \in Cursor \cup {Null}
      /\ Slice(res, from, to) \subseteq Keys
  <2>1. Size(res) \in Nat
    BY ListedFinite
  <2>2. to < Size(res) \/ to >= Size(res)
    BY <1>4, <2>1
  <2> QED  BY <1>4, <2>2, NextCursorTyped, ListedFinite DEF IInv, Slice
<1>6. walk'[w] = [x EXCEPT !.cursor = nextCursor(res, to),
                           !.seen = x.seen \cup Slice(res, from, to),
                           !.served = x.served + (to - from), !.answer = "page"]
  BY DEF NextPage, IInv, TypeOK
<1>7. walk' = [walk EXCEPT ![w] = walk'[w]]
  BY DEF NextPage, IInv, TypeOK
<1>8. res \in Kept \/ x.calm => x.seen = Slice(res, 0, from)
  BY <1>1, <1>2, PaginationAssumption DEF WalkInv
<1>9. Slice(res, 0, from) \cup Slice(res, from, to) = Slice(res, 0, to)
  BY <1>2, <1>4, SlicesJoin DEF IInv
<1> HIDE DEF to, from
<1>10. x.served + (to - from) = to
  BY <1>2, <1>4
<1>11. walk'[w] \in Walk
  <2> DEFINE seen == x.seen \cup Slice(res, from, to)
  <2> DEFINE next == nextCursor(res, to)
  <2>1. seen \in SUBSET Keys /\ next \in Cursor \cup {Null}
    BY <1>1, <1>5 DEF Walk
  <2>2. walk'[w] = [x EXCEPT !.cursor = next, !.seen = seen, !.served = to, !.answer = "page"]
    BY <1>6, <1>10
  <2> HIDE DEF seen, next, x
  <2>3. x \in Walk
    BY <1>1
  <2> QED  BY <2>1, <2>2, <2>3, <1>4 DEF Walk
<1>12. /\ walk'[w].resource = res /\ walk'[w].cursor = nextCursor(res, to)
       /\ walk'[w].served = to /\ walk'[w].calm = x.calm
       /\ walk'[w].seen = x.seen \cup Slice(res, from, to)
  BY <1>1, <1>2, <1>6, <1>10 DEF Walk
<1>13. PageTo(w, res, to)
  BY <1>4, <1>7, <1>8, <1>9, <1>11, <1>12 DEF PageTo, NextPage
<1> QED  BY <1>13 DEF to, from

\* What is asked of a list depends on the table alone.
LEMMA ListsStand ==
  ASSUME UNCHANGED row, NEW res
  PROVE  /\ Listed(res)' = Listed(res) /\ Size(res)' = Size(res)
         /\ pageScope(res)' = pageScope(res)
         /\ \A from, to : Slice(res, from, to)' = Slice(res, from, to)
<1>1. Listed(res)' = Listed(res)
  BY DEF Listed
<1>2. Size(res)' = Size(res)
  BY <1>1 DEF Size
<1>3. \A j, k : Before(res, j, k)' = Before(res, j, k)
  BY DEF Before, Older
<1>4. \A k : Place(res, k)' = Place(res, k)
  BY <1>1, <1>3 DEF Place
<1>5. \A from, to : Slice(res, from, to)' = Slice(res, from, to)
  BY <1>1, <1>4 DEF Slice
<1>6. FirstRow(res)' = FirstRow(res)
  BY <1>1, <1>3 DEF FirstRow
<1>7. LastRow(res)' = LastRow(res)
  <2>1. \A k : (\A j \in Listed(res) \ {k} : Before(res, j, k))'
              = (\A j \in Listed(res) \ {k} : Before(res, j, k))
    BY <1>1, <1>3
  <2> DEFINE l == CHOOSE k \in Listed(res) : \A j \in Listed(res) \ {k} : Before(res, j, k)
  <2>2. l' = l
    BY <1>1, <1>3, <2>1
  <2> HIDE DEF l
  <2>3. LastRow(res) = IF Listed(res) = {} THEN Null ELSE [key |-> l, row |-> row[l]]
    BY DEF LastRow, l
  <2>4. LastRow(res)' = IF Listed(res)' = {} THEN Null ELSE [key |-> l', row |-> row'[l']]
    BY DEF LastRow, l
  <2> QED  BY <1>1, <2>2, <2>3, <2>4
<1> QED  BY <1>1, <1>2, <1>5, <1>6, <1>7 DEF pageScope

LEMMA PageKeepsInv ==
  ASSUME IInv, NEW w \in Walkers, NEW res \in Resources, NEW to, PageTo(w, res, to)
  PROVE  IInv'
<1>1. TypeOK'
  BY DEF PageTo, IInv, TypeOK
<1>2. ASSUME NEW v \in Walkers, v # w, walk'[v] # Null PROVE WalkInv(walk[v])'
  <2>1. walk'[v] = walk[v]
    BY <1>2 DEF PageTo, IInv, TypeOK
  <2> QED  BY <2>1, <1>2, ListsStand DEF PageTo, IInv, WalkInv
<1>3. WalkInv(walk[w])'
  <2> SUFFICES ASSUME walk'[w].cursor # Null PROVE WalkInv(walk[w])'
    BY DEF WalkInv
  <2>1. TypeOK /\ to \in Nat /\ walk'[w].cursor = nextCursor(res, to) /\ walk'[w].resource = res
        /\ walk'[w].served = to
    BY DEF PageTo, IInv
  <2>2. Size(res) \in Nat
    BY ListedFinite
  <2>3. to < Size(res)
    BY <2>1, <2>2, NextCursorTyped
  <2>4. walk'[w].cursor.resource = res /\ walk'[w].cursor.offset = to
        /\ walk'[w].cursor.scope = pageScope(res) /\ pageScope(res).size = Size(res)
    BY <2>1, <2>3, NextCursorTyped DEF pageScope
  <2>5. Size(res)' = Size(res) /\ pageScope(res)' = pageScope(res)
        /\ Slice(res, 0, to)' = Slice(res, 0, to)
    BY ListsStand DEF PageTo
  <2>6. res \in Kept \/ walk'[w].calm => walk'[w].seen = Slice(res, 0, to)
    BY DEF PageTo
  <2> QED  BY <2>1, <2>2, <2>3, <2>4, <2>5, <2>6 DEF WalkInv
<1> QED  BY <1>1, <1>2, <1>3 DEF IInv

\* A write leaves a kept list as long as it is longer, or as it was.
LEMMA WriteKeepsLists ==
  ASSUME IInv, NEW k \in Keys, Write(k), NEW res \in Kept
  PROVE  \/ Size(res)' = Size(res) + 1
         \/ /\ Size(res)' = Size(res)
            /\ \A to : Slice(res, 0, to)' = Slice(res, 0, to)
<1>1. res \in Unfiltered /\ res \notin ByPriority /\ res # "model-bindings"
  BY DEF Kept, Unfiltered, ByPriority
<1>2. PICK r \in Row : row' = [row EXCEPT ![k] = r]
  BY DEF Write
<1>3. Listed(res) = {j \in Keys : row[j] # Null} /\ Listed(res)' = {j \in Keys : row'[j] # Null}
  BY <1>1 DEF Listed
<1>4. Listed(res)' = Listed(res) \cup {k}
  BY <1>2, <1>3, PaginationAssumption DEF IInv, TypeOK
<1>5. CASE row[k] = Null
  <2>1. k \notin Listed(res)
    BY <1>3, <1>5
  <2>2. Cardinality(Listed(res) \cup {k}) = Cardinality(Listed(res)) + 1
    BY <2>1, ListedFinite, FS_AddElement
  <2> QED  BY <1>4, <2>2 DEF Size
<1>6. CASE row[k] # Null
  <2>1. Listed(res)' = Listed(res)
    BY <1>3, <1>4, <1>6
  <2>2. \A i, j : Before(res, i, j)' = Before(res, i, j)
    BY <1>1 DEF Before, Older
  <2>3. \A j : Place(res, j)' = Place(res, j)
    BY <2>1, <2>2 DEF Place
  <2> QED  BY <2>1, <2>3 DEF Size, Slice
<1> QED  BY <1>5, <1>6

LEMMA WriteKeepsInv ==
  ASSUME IInv, NEW k \in Keys, Write(k)
  PROVE  IInv'
<1>1. \A w \in Walkers : /\ walk[w] = Null => walk'[w] = Null
                         /\ walk[w] # Null => walk'[w] = [walk[w] EXCEPT !.calm = FALSE]
  BY DEF Write
<1>2. \A w \in Walkers : walk[w] # Null => walk[w] \in Walk /\ walk'[w] \in Walk
  BY <1>1 DEF IInv, TypeOK, Walk
<1>3. TypeOK'
  <2>1. row' \in [Keys -> Row \cup {Null}]
    BY DEF Write, IInv, TypeOK
  <2>2. walk' \in [Walkers -> Walk \cup {Null}]
    BY <1>1, <1>2 DEF Write
  <2> QED  BY <2>1, <2>2 DEF TypeOK
<1>4. ASSUME NEW w \in Walkers, walk'[w] # Null PROVE WalkInv(walk[w])'
  <2> DEFINE x == walk[w]
  <2>1. x # Null /\ x \in Walk /\ WalkInv(x)
    BY <1>1, <1>2, <1>4 DEF IInv
  <2>2. x'.cursor = x.cursor /\ x'.resource = x.resource /\ x'.served = x.served
        /\ x'.seen = x.seen /\ x'.calm = FALSE
    BY <1>1, <2>1 DEF Walk
  <2> SUFFICES ASSUME x.cursor # Null PROVE WalkInv(x)'
    BY <2>2 DEF WalkInv
  <2> DEFINE res == x.resource
  <2>3. x.cursor \in Cursor /\ x.cursor.scope.size \in Nat
    BY <2>1 DEF Walk, Cursor, Scope
  <2>4. ASSUME res \in Kept
        PROVE  /\ x.cursor.scope.size <= Size(res)'
               /\ x.cursor.scope.size = Size(res)' =>
                    x.seen = Slice(res, 0, x.cursor.offset)'
    <3> DEFINE s == x.cursor.scope.size
    <3>1. Size(res) \in Nat
      BY ListedFinite
    <3>2. s <= Size(res) /\ (s = Size(res) => x.seen = Slice(res, 0, x.cursor.offset))
      BY <2>1, <2>4 DEF WalkInv
    <3>3. PICK q : q = res
      OBVIOUS
    <3>4. \/ Size(q)' = Size(q) + 1
          \/ /\ Size(q)' = Size(q)
             /\ \A to : Slice(q, 0, to)' = Slice(q, 0, to)
      BY <2>4, <3>3, WriteKeepsLists
    <3>5. x'.resource = q /\ x'.cursor = x.cursor
      BY <2>2, <3>3
    <3> HIDE DEF x
    <3> QED  BY <2>3, <3>1, <3>2, <3>3, <3>4, <3>5
  <2> QED  BY <2>1, <2>2, <2>4 DEF WalkInv
<1> QED  BY <1>3, <1>4 DEF IInv

LEMMA RejectKeepsInv ==
  ASSUME IInv, NEW w \in Walkers, NEW res \in Resources, NEW limit \in Limits,
         Reject(w, res, limit)
  PROVE  IInv'
<1> DEFINE x == walk[w]
<1>1. x \in Walk /\ x # Null /\ WalkInv(x) /\ row' = row
  BY DEF IInv, TypeOK, Reject, Held
<1>2. PICK said \in {"invalid_page", "invalid_cursor"} :
        walk' = [walk EXCEPT ![w] = [x EXCEPT !.answer = said]]
  BY DEF Reject
<1>3. walk'[w] = [x EXCEPT !.answer = said] /\ \A v \in Walkers \ {w} : walk'[v] = walk[v]
  BY <1>2 DEF IInv, TypeOK
<1>4. walk'[w] \in Walk /\ walk'[w].cursor = x.cursor /\ walk'[w].resource = x.resource
      /\ walk'[w].served = x.served /\ walk'[w].seen = x.seen /\ walk'[w].calm = x.calm
  <2> HIDE DEF x
  <2> QED  BY <1>1, <1>3 DEF Walk
<1>5. TypeOK'
  BY <1>1, <1>2, <1>3, <1>4 DEF IInv, TypeOK
<1>6. \A r : Size(r)' = Size(r) /\ pageScope(r)' = pageScope(r)
             /\ \A from, to : Slice(r, from, to)' = Slice(r, from, to)
  BY <1>1, ListsStand
<1>7. WalkInv(walk[w])'
  BY <1>1, <1>4, <1>6 DEF WalkInv
<1>8. ASSUME NEW v \in Walkers, v # w, walk'[v] # Null PROVE WalkInv(walk[v])'
  <2>1. walk'[v] = walk[v] /\ WalkInv(walk[v])
    BY <1>3, <1>8 DEF IInv
  <2> QED  BY <2>1, <1>6 DEF WalkInv
<1> QED  BY <1>5, <1>7, <1>8 DEF IInv

LEMMA StepKeepsInv ==
  ASSUME IInv, [Next]_vars
  PROVE  IInv'
<1>1. ASSUME NEW k \in Keys, Write(k) PROVE IInv'
  BY <1>1, WriteKeepsInv
<1>2. ASSUME NEW w \in Walkers, NEW res \in Resources, NEW limit \in Limits,
             FirstPage(w, res, limit)
      PROVE  IInv'
  BY <1>2, FirstPageTo, PageKeepsInv
<1>3. ASSUME NEW w \in Walkers, NEW res \in Resources, NEW limit \in Limits,
             NextPage(w, res, limit)
      PROVE  IInv'
  BY <1>3, NextPageTo, PageKeepsInv
<1>4. ASSUME NEW w \in Walkers, NEW res \in Resources, NEW limit \in Limits,
             Reject(w, res, limit)
      PROVE  IInv'
  BY <1>4, RejectKeepsInv
<1>5. CASE UNCHANGED vars
  <2>1. TypeOK'
    BY <1>5 DEF IInv, TypeOK, vars
  <2>2. ASSUME NEW w \in Walkers, walk'[w] # Null PROVE WalkInv(walk[w])'
    BY <1>5, <2>2, ListsStand DEF vars, IInv, WalkInv
  <2> QED  BY <2>1, <2>2 DEF IInv
<1> QED  BY <1>1, <1>2, <1>3, <1>4, <1>5 DEF Next

LEMMA InitInv ==
  ASSUME Init
  PROVE  IInv
<1>1. TypeOK
  BY DEF Init, TypeOK
<1> QED  BY <1>1 DEF Init, IInv

LEMMA Invariance == Spec => []IInv
<1>1. Init => IInv
  BY InitInv
<1>2. IInv /\ [Next]_vars => IInv'
  BY StepKeepsInv
<1> QED  BY <1>1, <1>2, PTL DEF Spec

-----------------------------------------------------------------------------
(* The theorems.                                                           *)

\* The table and the walks keep their types, for any rows, lists and clients.
THEOREM TypeCorrect == Spec => []TypeOK
<1>1. IInv => TypeOK
  BY DEF IInv
<1> QED  BY <1>1, Invariance, PTL

\* For any lists: a cursor of nextCursor is accepted by the list it came from
\* as long as no row is written.
THEOREM CalmCursorAccepted == Spec => []CalmCursorIsAccepted
<1>1. IInv => CalmCursorIsAccepted
  <2> SUFFICES ASSUME IInv, NEW w \in Walkers, Held(w), walk[w].calm
               PROVE  Accepts(walk[w].resource, walk[w].cursor)
    BY DEF CalmCursorIsAccepted
  <2>1. WalkInv(walk[w]) /\ walk[w].cursor # Null /\ walk[w].cursor \in Cursor
    BY DEF Held, IInv, TypeOK, Walk
  <2>2. Size(walk[w].resource) \in Nat /\ walk[w].cursor.offset \in Nat
    BY <2>1, ListedFinite DEF Cursor
  <2> QED  BY <2>1, <2>2 DEF WalkInv, Accepts
<1> QED  BY <1>1, Invariance, PTL

\* A page that gives no cursor has given the whole list.
LEMMA LastPageIsExact ==
  ASSUME IInv, NEW w \in Walkers, NEW res \in Resources, NEW to, PageTo(w, res, to),
         walk'[w].cursor = Null, res \in Kept \/ walk'[w].calm
  PROVE  Exact(w)
<1>1. to \in Nat /\ to <= Size(res) /\ to >= Size(res)
  BY NextCursorTyped DEF PageTo, IInv
<1>2. Size(res) \in Nat /\ to = Size(res)
  BY <1>1, ListedFinite
<1>3. 0 \in Nat /\ 0 <= to
  BY <1>1
<1>4. Slice(res, 0, to) = Listed(res)
  BY <1>1, <1>3, SlicesJoin DEF IInv
<1>5. walk'[w].seen = Listed(res) /\ walk'[w].served = Size(res) /\ walk'[w].resource = res
  BY <1>2, <1>4 DEF PageTo
<1> QED  BY <1>5 DEF Exact, Size

\* Whatever is written between the pages, a walk of any length that comes to
\* the end of a list whose rows never leave or move has given every row once.
THEOREM WalksExact == Spec => WalksAreExact
<1> DEFINE A == \A w \in Walkers :
              Ends(w) /\ (walk'[w].resource \in Kept \/ walk'[w].calm) => Exact(w)
<1>1. IInv /\ [Next]_vars => A
  <2> SUFFICES ASSUME IInv, [Next]_vars, NEW w \in Walkers, Ends(w),
                      walk'[w].resource \in Kept \/ walk'[w].calm
               PROVE  Exact(w)
    OBVIOUS
  <2>1. row' = row /\ walk'[w] # walk[w] /\ walk'[w].answer = "page" /\ walk'[w].cursor = Null
    BY DEF Ends
  <2>2. ASSUME NEW k \in Keys, Write(k) PROVE FALSE
    BY <2>1, <2>2 DEF Write, IInv, TypeOK
  <2>3. ASSUME NEW v \in Walkers, NEW res \in Resources, NEW to, PageTo(v, res, to)
        PROVE  Exact(w)
    <3>1. w = v
      BY <2>1, <2>3 DEF PageTo, IInv, TypeOK
    <3>2. walk'[w].resource = res
      BY <2>3, <3>1 DEF PageTo
    <3> QED  BY <2>1, <2>3, <3>1, <3>2, LastPageIsExact
  <2>4. ASSUME NEW v \in Walkers, NEW res \in Resources, NEW limit \in Limits,
               FirstPage(v, res, limit) \/ NextPage(v, res, limit)
        PROVE  Exact(w)
    BY <2>3, <2>4, FirstPageTo, NextPageTo
  <2>5. ASSUME NEW v \in Walkers, NEW res \in Resources, NEW limit \in Limits,
               Reject(v, res, limit)
        PROVE  FALSE
    <3>1. PICK said \in {"invalid_page", "invalid_cursor"} :
            walk' = [walk EXCEPT ![v] = [walk[v] EXCEPT !.answer = said]]
      BY <2>5 DEF Reject
    <3>2. w = v /\ walk[v] \in Walk
      BY <2>1, <2>5, <3>1 DEF IInv, TypeOK, Reject, Held
    <3>3. walk'[v] = [walk[v] EXCEPT !.answer = said]
      BY <3>1 DEF IInv, TypeOK
    <3>4. walk'[v].answer = said
      BY <3>2, <3>3 DEF Walk
    <3> QED  BY <2>1, <3>2, <3>4
  <2>6. CASE UNCHANGED vars
    BY <2>1, <2>6 DEF vars
  <2> QED  BY <2>2, <2>4, <2>5, <2>6 DEF Next
<1>2. Spec => [][A]_vars
  BY <1>1, Invariance, PTL DEF Spec
<1> QED  BY <1>2 DEF WalksAreExact
=============================================================================

------------------------ MODULE RouteResolverProofs ------------------------
(***************************************************************************)
(* Theorems about RouteResolver, for any rows, callers and readers.        *)
(*                                                                         *)
(* A policy never returns to a row it has left, since every change takes a *)
(* later generation.  So if the policy a resolution began with stands when *)
(* it ends, it stood at each of its queries.  That is the argument for the *)
(* atomicity, and with it for the refinement of RouteSource.               *)
(***************************************************************************)
EXTENDS RouteResolver, ModelRepositoryProofs

\* What every resolution keeps: its rows stay published, the decision of its
\* first query is that of what it read, and its policy only moves on.
Sound(q) ==
  /\ \A b \in Bindings : q.rows[b] # Null => PublishedLiteLLM(b)
  /\ Ranked(q.rows)
  /\ q.before = DecisionFrom(q.rows, q.policyBefore, q.key[2])
  /\ q.policyBefore # Null /\ policy[q.key] # q.policyBefore =>
       policy[q.key] # Null /\ policy[q.key].generation > q.policyBefore.generation
  /\ q.at # "answered" => q.answer = Null
  /\ q.at = "quoted" => Choices(q) # {}
  /\ q.answer # Null => q.rows[q.answer.revision] # Null /\ q.answer.generation <= MaxGeneration
  /\ q.clean => /\ q.rows = ServableRows(account, binding)
                /\ policy[q.key] = q.policyBefore

\* As long as its policy stands, what a resolution has read of it is the policy.
OfOnePolicy(q) ==
  policy[q.key] = q.policyBefore =>
    /\ q.at # "hidden" => q.hidden = Hidden(q.policyBefore)
    /\ q.at = "quoted" => q.selected = SelectedRevision(q.policyBefore)
    /\ q.at = "answered" => q.answer = q.before

RInv ==
  /\ RepositoryInv
  /\ resolving \in [Readers -> Resolution \cup {Null}]
  /\ \A r \in Readers : resolving[r] # Null => Sound(resolving[r]) /\ OfOnePolicy(resolving[r])

-----------------------------------------------------------------------------
(* A write, and what it leaves of the resolutions it overtakes.            *)

LEMMA WriteKeeps ==
  ASSUME RInv, [Next]_vars,
         resolving' = IF tables' = tables THEN resolving ELSE Overtaken
  PROVE  RInv'
<1>1. RepositoryInv /\ RepositoryInv' /\ RowsStay
  <2>1. RowsStay
    BY NextOK DEF RInv, RepositoryInv, SInv, IInv, Safe
  <2>. QED  BY <2>1, NextRepositoryInv DEF RInv
<1>2. resolving \in [Readers -> Resolution \cup {Null}] /\ Null \notin Resolution
  BY ResolverAssumption DEF RInv
<1>3. CASE tables' = tables
  <2>1. resolving' = resolving /\ account' = account /\ binding' = binding /\ policy' = policy
    BY <1>3 DEF tables
  <2>2. ASSUME NEW r \in Readers, resolving'[r] # Null
        PROVE  Sound(resolving[r])' /\ OfOnePolicy(resolving[r])'
    BY <2>1, <2>2 DEF RInv, Sound, OfOnePolicy, PublishedLiteLLM
  <2>. QED  BY <1>1, <1>2, <2>1, <2>2 DEF RInv
<1>4. CASE tables' # tables
  <2>1. resolving' = Overtaken
    BY <1>4
  <2>2. ASSUME NEW r \in Readers, resolving'[r] # Null
        PROVE  /\ resolving'[r] \in Resolution
               /\ Sound(resolving[r])' /\ OfOnePolicy(resolving[r])'
    <3>. DEFINE q == resolving[r]
    <3>1. q \in Resolution /\ q # Null /\ resolving'[r] = [q EXCEPT !.clean = FALSE]
      BY <1>2, <2>1, <2>2 DEF Overtaken
    <3>2. Sound(q) /\ OfOnePolicy(q)
      BY <3>1 DEF RInv
    <3>3. q.key \in Keys /\ q.policyBefore \in PolicyRow \cup {Null}
      BY <3>1 DEF Resolution
    <3>4. /\ q.policyBefore # Null /\ policy'[q.key] # q.policyBefore =>
               policy'[q.key] # Null /\ policy'[q.key].generation > q.policyBefore.generation
          /\ policy'[q.key] = q.policyBefore => policy[q.key] = q.policyBefore
      BY <1>1, <3>2, <3>3, PolicyMovesOn DEF Sound, Keys
    <3>5. /\ resolving'[r] \in Resolution
          /\ resolving'[r].key = q.key /\ resolving'[r].rows = q.rows
          /\ resolving'[r].hidden = q.hidden /\ resolving'[r].selected = q.selected
          /\ resolving'[r].answer = q.answer /\ resolving'[r].at = q.at
          /\ resolving'[r].before = q.before /\ resolving'[r].policyBefore = q.policyBefore
          /\ resolving'[r].clean = FALSE
      BY <3>1 DEF Resolution
    <3>6. Choices(resolving'[r]) = Choices(q)
      BY <3>5 DEF Choices
    <3>7. \A b \in Bindings : PublishedLiteLLM(b) => PublishedLiteLLM(b)'
      BY <1>1 DEF RowsStay
    <3>. HIDE DEF q
    <3>8. Sound(resolving[r])'
      BY <3>2, <3>4, <3>5, <3>6, <3>7 DEF Sound
    <3>9. OfOnePolicy(resolving[r])'
      BY <3>2, <3>4, <3>5 DEF OfOnePolicy
    <3>. QED  BY <3>5, <3>8, <3>9
  <2>3. resolving' \in [Readers -> Resolution \cup {Null}]
    BY <2>1, <2>2 DEF Overtaken
  <2>. QED  BY <1>1, <2>2, <2>3 DEF RInv
<1>. QED  BY <1>3, <1>4

-----------------------------------------------------------------------------
(* The queries.                                                            *)

LEMMA ReadKeeps ==
  ASSUME RInv, UNCHANGED vars, NEW r \in Readers, NEW q \in Resolution,
         resolving' = [resolving EXCEPT ![r] = q], Sound(q), OfOnePolicy(q)
  PROVE  RInv'
<1>1. UNCHANGED vars /\ account' = account /\ binding' = binding /\ policy' = policy
  BY DEF vars
<1>2. RepositoryInv'
  BY NextRepositoryInv DEF RInv
<1>3. resolving \in [Readers -> Resolution \cup {Null}]
  BY DEF RInv
<1>4. ASSUME NEW s \in Readers, resolving'[s] # Null
      PROVE  Sound(resolving[s])' /\ OfOnePolicy(resolving[s])'
  <2>1. Sound(resolving'[s]) /\ OfOnePolicy(resolving'[s])
    BY <1>3, <1>4 DEF RInv
  <2>. QED  BY <1>1, <2>1 DEF Sound, OfOnePolicy, PublishedLiteLLM
<1>. QED  BY <1>2, <1>3, <1>4 DEF RInv

\* What the first query of a resolution leaves.
Fetched(k) ==
  [key |-> k, at |-> "hidden", rows |-> ServableRows(account, binding),
   hidden |-> FALSE, selected |-> Null, answer |-> Null,
   clean |-> TRUE, policyBefore |-> policy[k],
   before |-> RouteOf(account, binding, policy, k[1], k[2])]

LEMMA FetchedOK ==
  ASSUME RInv, NEW k \in Keys
  PROVE  Fetched(k) \in Resolution /\ Sound(Fetched(k)) /\ OfOnePolicy(Fetched(k))
<1>. DEFINE rows == ServableRows(account, binding)
<1>1. k = <<k[1], k[2]>> /\ policy[k] \in PolicyRow \cup {Null}
  BY DEF Keys, RInv, RepositoryInv, SInv, IInv, TypeOK
<1>2. /\ rows \in [Bindings -> BindingRow \cup {Null}] /\ Ranked(rows)
      /\ \A b \in Bindings : rows[b] # Null => PublishedLiteLLM(b)
  BY ServableRowsOK DEF RInv
<1>3. RouteOf(account, binding, policy, k[1], k[2]) = DecisionFrom(rows, policy[k], k[2])
  BY <1>1 DEF RouteOf
<1>4. DecisionFrom(rows, policy[k], k[2]) \in Route \cup {Null}
  BY <1>1, <1>2, DecisionOK
<1>. HIDE DEF rows
<1>5. Fetched(k) \in Resolution
  BY <1>1, <1>2, <1>3, <1>4 DEF Resolution, Fetched, rows
<1>6. Sound(Fetched(k)) /\ OfOnePolicy(Fetched(k))
  BY <1>2, <1>3 DEF Sound, OfOnePolicy, Fetched, rows
<1>. QED  BY <1>5, <1>6

LEMMA FetchKeeps ==
  ASSUME RInv, UNCHANGED vars, NEW r \in Readers, FetchBindings(r)
  PROVE  RInv'
<1>1. PICK k \in Keys : resolving' = [resolving EXCEPT ![r] = Fetched(k)]
  BY DEF FetchBindings, Fetched
<1>. QED  BY <1>1, FetchedOK, ReadKeeps

LEMMA HiddenKeeps ==
  ASSUME RInv, UNCHANGED vars, NEW r \in Readers, ReadHidden(r)
  PROVE  RInv'
<1>. DEFINE q == resolving[r]
            n == [q EXCEPT !.hidden = Hidden(policy[q.key]), !.at = "selected"]
<1>1. q # Null /\ q.at = "hidden" /\ q \in Resolution
  BY DEF RInv, ReadHidden
<1>2. resolving' = [resolving EXCEPT ![r] = n]
  BY DEF ReadHidden
<1>3. Sound(q)
  BY <1>1 DEF RInv
<1>4. Hidden(policy[q.key]) \in BOOLEAN
  BY DEF Hidden
<1>5. /\ n \in Resolution /\ n.at = "selected" /\ n.hidden = Hidden(policy[q.key])
      /\ n.key = q.key /\ n.rows = q.rows /\ n.answer = q.answer /\ n.clean = q.clean
      /\ n.before = q.before /\ n.policyBefore = q.policyBefore
  BY <1>1, <1>4 DEF Resolution
<1>. HIDE DEF q, n
<1>6. Sound(n) /\ OfOnePolicy(n)
  BY <1>1, <1>3, <1>5 DEF Sound, OfOnePolicy
<1>. QED  BY <1>2, <1>5, <1>6, ReadKeeps

LEMMA SelectedKeeps ==
  ASSUME RInv, UNCHANGED vars, NEW r \in Readers, ReadSelected(r)
  PROVE  RInv'
<1>. DEFINE q == resolving[r]
            s == [q EXCEPT !.selected = SelectedRevision(policy[q.key])]
            n == [s EXCEPT !.at = IF Choices(s) = {} THEN "answered" ELSE "quoted"]
<1>1. q # Null /\ q.at = "selected" /\ q \in Resolution
  BY DEF RInv, ReadSelected
<1>2. resolving' = [resolving EXCEPT ![r] = n]
  BY DEF ReadSelected
<1>3. Sound(q) /\ OfOnePolicy(q) /\ q.answer = Null
  BY <1>1 DEF RInv, Sound
<1>4. policy[q.key] \in PolicyRow \cup {Null} /\ q.key = <<q.key[1], q.key[2]>>
  BY <1>1 DEF RInv, RepositoryInv, SInv, IInv, TypeOK, Resolution, Keys
<1>5. SelectedRevision(policy[q.key]) \in Bindings \cup {Null}
  BY <1>4 DEF SelectedRevision, Visible, PolicyRow
<1>6. /\ s \in Resolution /\ s.selected = SelectedRevision(policy[q.key])
      /\ s.key = q.key /\ s.rows = q.rows /\ s.hidden = q.hidden
  BY <1>1, <1>5 DEF Resolution
<1>7. /\ n \in Resolution /\ n.at = (IF Choices(s) = {} THEN "answered" ELSE "quoted")
      /\ n.key = q.key /\ n.rows = q.rows /\ n.answer = q.answer /\ n.clean = q.clean
      /\ n.hidden = q.hidden /\ n.selected = SelectedRevision(policy[q.key])
      /\ n.before = q.before /\ n.policyBefore = q.policyBefore
  BY <1>1, <1>5 DEF Resolution
<1>8. Choices(n) = Choices(s)
  BY <1>6, <1>7 DEF Choices
<1>. HIDE DEF q, s, n
<1>9. Sound(n)
  BY <1>3, <1>7, <1>8 DEF Sound
<1>10. ASSUME policy[q.key] = q.policyBefore
       PROVE  /\ n.hidden = Hidden(q.policyBefore)
              /\ n.at = "answered" => n.answer = n.before
  <2>1. n.hidden = Hidden(q.policyBefore)
    BY <1>1, <1>3, <1>7, <1>10 DEF OfOnePolicy
  <2>2. Choices(n) = Narrowed(q.rows, q.key[2], Hidden(q.policyBefore),
                              SelectedRevision(q.policyBefore))
    BY <1>7, <1>10, <2>1 DEF Choices
  <2>3. Choices(n) = {} => DecisionFrom(q.rows, q.policyBefore, q.key[2]) = Null
    BY <2>2 DEF DecisionFrom
  <2>4. q.before = DecisionFrom(q.rows, q.policyBefore, q.key[2])
    BY <1>3 DEF Sound
  <2>. QED  BY <1>3, <1>7, <1>8, <2>1, <2>3, <2>4
<1>11. OfOnePolicy(n)
  BY <1>7, <1>10 DEF OfOnePolicy
<1>. QED  BY <1>2, <1>7, <1>9, <1>11, ReadKeeps

\* The route that the last query of a resolution quotes.
QuotedRoute(q) == RouteThrough(q.rows, First(q.rows, Choices(q)), policy[q.key])

LEMMA QuotedRouteOK ==
  ASSUME RInv, NEW q \in Resolution, Sound(q), q.at = "quoted"
  PROVE  /\ QuotedRoute(q) \in Route
         /\ q.rows[QuotedRoute(q).revision] # Null
         /\ QuotedRoute(q).generation <= MaxGeneration
<1>. DEFINE b == First(q.rows, Choices(q))
<1>1. Choices(q) # {} /\ Ranked(q.rows)
  BY DEF Sound
<1>2. q.key \in Keys /\ policy[q.key] \in PolicyRow \cup {Null}
  BY DEF RInv, RepositoryInv, SInv, IInv, TypeOK, Resolution, Keys
<1>3. q.rows \in [Bindings -> BindingRow \cup {Null}]
  BY DEF Resolution
<1>4. Choices(q) \in SUBSET Bindings /\ \A x \in Choices(q) : q.rows[x] # Null
  BY NarrowedRows DEF Choices
<1>5. b \in Bindings /\ q.rows[b] # Null
  <2>1. b \in Choices(q)
    BY <1>1, <1>3, <1>4, FirstIsOne
  <2>. QED  BY <1>4, <2>1
<1>6. policy[q.key] # Null => policy[q.key].generation <= MaxGeneration
  BY <1>2 DEF RInv, RepositoryInv, GenerationsBounded, Keys
<1>7. MaxGeneration \in Nat \ {0}
  BY RepositoryAssumption
<1>. HIDE DEF b
<1>. QED  BY <1>2, <1>3, <1>5, <1>6, <1>7, RouteThroughOK DEF QuotedRoute, b

LEMMA PolicyKeeps ==
  ASSUME RInv, UNCHANGED vars, NEW r \in Readers, ReadPolicy(r)
  PROVE  RInv'
<1>. DEFINE q == resolving[r]
            n == [q EXCEPT !.at = "answered", !.answer = QuotedRoute(q)]
<1>1. q # Null /\ q.at = "quoted" /\ q \in Resolution
  BY DEF RInv, ReadPolicy
<1>2. resolving' = [resolving EXCEPT ![r] = n]
  BY DEF ReadPolicy, QuotedRoute
<1>3. Sound(q) /\ OfOnePolicy(q)
  BY <1>1 DEF RInv
<1>4. /\ QuotedRoute(q) \in Route /\ q.rows[QuotedRoute(q).revision] # Null
      /\ QuotedRoute(q).generation <= MaxGeneration
  BY <1>1, <1>3, QuotedRouteOK
<1>5. /\ n \in Resolution /\ n.at = "answered" /\ n.answer = QuotedRoute(q)
      /\ n.key = q.key /\ n.rows = q.rows /\ n.clean = q.clean
      /\ n.hidden = q.hidden /\ n.selected = q.selected
      /\ n.before = q.before /\ n.policyBefore = q.policyBefore
  BY <1>1, <1>4 DEF Resolution
<1>6. ASSUME policy[q.key] = q.policyBefore
      PROVE  QuotedRoute(q) = q.before
  <2>1. Choices(q) = Narrowed(q.rows, q.key[2], Hidden(q.policyBefore),
                              SelectedRevision(q.policyBefore))
    BY <1>1, <1>3, <1>6 DEF OfOnePolicy, Choices
  <2>2. Choices(q) # {}
    BY <1>1, <1>3 DEF Sound
  <2>3. DecisionFrom(q.rows, q.policyBefore, q.key[2]) = QuotedRoute(q)
    BY <1>6, <2>1, <2>2 DEF DecisionFrom, QuotedRoute
  <2>. QED  BY <1>3, <2>3 DEF Sound
<1>. HIDE DEF q, n
<1>7. Sound(n)
  BY <1>3, <1>4, <1>5 DEF Sound
<1>8. OfOnePolicy(n)
  BY <1>1, <1>3, <1>5, <1>6 DEF OfOnePolicy
<1>. QED  BY <1>2, <1>5, <1>7, <1>8, ReadKeeps

LEMMA FinishKeeps ==
  ASSUME RInv, UNCHANGED vars, NEW r \in Readers, Finish(r)
  PROVE  RInv'
<1>1. UNCHANGED vars /\ account' = account /\ binding' = binding /\ policy' = policy
  BY DEF vars
<1>2. RepositoryInv'
  BY NextRepositoryInv DEF RInv
<1>3. resolving' \in [Readers -> Resolution \cup {Null}]
  BY DEF RInv, Finish
<1>4. ASSUME NEW s \in Readers, resolving'[s] # Null
      PROVE  Sound(resolving[s])' /\ OfOnePolicy(resolving[s])'
  <2>1. resolving'[s] = resolving[s]
    BY <1>4 DEF RInv, Finish
  <2>2. Sound(resolving[s]) /\ OfOnePolicy(resolving[s])
    BY <1>4, <2>1 DEF RInv
  <2>. QED  BY <1>1, <2>1, <2>2 DEF Sound, OfOnePolicy, PublishedLiteLLM
<1>. QED  BY <1>2, <1>3, <1>4 DEF RInv

-----------------------------------------------------------------------------
(* The invariant, and what it gives.                                       *)

LEMMA InitRInv == ResolverInit => RInv
<1>. SUFFICES ASSUME ResolverInit PROVE RInv
  OBVIOUS
<1>1. RepositoryInv
  BY InitRepositoryInv DEF ResolverInit
<1>. QED  BY <1>1 DEF ResolverInit, RInv

LEMMA NextRInv ==
  ASSUME RInv, [ResolverNext]_resolverVars
  PROVE  RInv'
<1>1. CASE Write
  BY <1>1, WriteKeeps DEF Write
<1>2. CASE \E r \in Readers : Resolve(r)
  BY <1>2, FetchKeeps, HiddenKeeps, SelectedKeeps, PolicyKeeps, FinishKeeps DEF Resolve
<1>3. CASE UNCHANGED resolverVars
  <2>1. UNCHANGED vars /\ resolving' = resolving /\ tables' = tables
    BY <1>3 DEF resolverVars, vars, tables
  <2>. QED  BY <2>1, WriteKeeps
<1>. QED  BY <1>1, <1>2, <1>3 DEF ResolverNext

LEMMA ResolverInv == ResolverSpec => []RInv
<1>1. ResolverInit => RInv
  BY InitRInv
<1>2. RInv /\ [ResolverNext]_resolverVars => RInv'
  BY NextRInv
<1>. QED  BY <1>1, <1>2, PTL DEF ResolverSpec

\* Every variable has its type: a resolution under way has read rows of the
\* tables, and what it answers is a route with the fields the code reads.
THEOREM ResolverTypeCorrect == ResolverSpec => []ResolverTypeOK
<1>1. RInv => ResolverTypeOK
  BY DEF RInv, RepositoryInv, SInv, IInv, ResolverTypeOK
<1>. QED  BY <1>1, ResolverInv, PTL

\* Four queries without a transaction answer as one, at the instant of the
\* first, unless the policy row itself is written meanwhile.
THEOREM ResolutionsAreAtomic == ResolverSpec => []ResolveIsAtomicWhilePolicyStands
<1>1. RInv => ResolveIsAtomicWhilePolicyStands
  BY DEF RInv, OfOnePolicy, ResolveIsAtomicWhilePolicyStands
<1>. QED  BY <1>1, ResolverInv, PTL

\* No route goes through a revision that was not eligible when its resolution
\* began, whatever is written before the answer.
THEOREM RoutedWasServable == ResolverSpec => []RoutedRevisionWasServable
<1>1. ASSUME RInv, NEW r \in Readers, resolving[r] # Null, resolving[r].answer # Null
      PROVE  /\ resolving[r].rows[resolving[r].answer.revision] # Null
             /\ PublishedLiteLLM(resolving[r].answer.revision)
  <2>1. resolving[r] \in Resolution /\ Sound(resolving[r])
    BY <1>1 DEF RInv
  <2>2. resolving[r].answer.revision \in Bindings
    BY <1>1, <2>1 DEF Resolution, Route
  <2>. QED  BY <1>1, <2>1, <2>2 DEF Sound
<1>2. RInv => RoutedRevisionWasServable
  BY <1>1 DEF RoutedRevisionWasServable
<1>. QED  BY <1>2, ResolverInv, PTL

-----------------------------------------------------------------------------
(* The four queries as one query of RouteSource.                           *)

truthNow == [k \in Keys |-> RouteOf(account, binding, policy, k[1], k[2])]

queryNow ==
  [r \in Readers |->
     IF resolving[r] = Null THEN Null
     ELSE [key |-> resolving[r].key,
           at |-> IF resolving[r].at = "answered" THEN "returned" ELSE "asked",
           clean |-> resolving[r].clean,
           value |-> resolving[r].answer]]

SeenAs(q) ==
  [key |-> q.key, at |-> IF q.at = "answered" THEN "returned" ELSE "asked",
   clean |-> q.clean, value |-> q.answer]

LEMMA RouteBounded ==
  ASSUME NEW v \in Route \cup {Null}, v # Null => v.generation <= MaxGeneration
  PROVE  v \in BoundedDecisions
<1>1. MaxGeneration \in Nat \ {0}
  BY RepositoryAssumption
<1>. QED  BY <1>1 DEF Route, BoundedDecisions

TruthTyped == truthNow \in [Keys -> BoundedDecisions]

LEMMA TruthOK == ASSUME RepositoryInv PROVE TruthTyped
<1>1. ASSUME NEW k \in Keys
      PROVE  RouteOf(account, binding, policy, k[1], k[2]) \in BoundedDecisions
  <2>1. policy[k] \in PolicyRow \cup {Null} /\ k = <<k[1], k[2]>>
    BY DEF RepositoryInv, SInv, IInv, TypeOK, Keys
  <2>2. policy[k] # Null => policy[k].generation <= MaxGeneration
    BY DEF RepositoryInv, GenerationsBounded, Keys
  <2>3. RouteOf(account, binding, policy, k[1], k[2])
          = DecisionFrom(ServableRows(account, binding), policy[k], k[2])
    BY <2>1 DEF RouteOf
  <2>. QED  BY <2>1, <2>2, <2>3, ServableRowsOK, DecisionOK, RouteBounded
<1>. QED  BY <1>1 DEF TruthTyped, truthNow

\* A resolution under way is a query, and Null is none.
LEMMA SeenAsQuery ==
  ASSUME NEW q \in Resolution, Sound(q)
  PROVE  SeenAs(q) \in Source!Queries /\ SeenAs(q) # Null
<1>1. q.answer \in BoundedDecisions
  BY RouteBounded DEF Resolution, Sound
<1>2. q.at # "answered" => q.answer = Null
  BY DEF Sound
<1>3. q.key \in Keys /\ q.clean \in BOOLEAN
  BY DEF Resolution
<1>4. SeenAs(q) \in Source!Queries
  BY <1>1, <1>2, <1>3 DEF SeenAs, Source!Queries
<1>. QED  BY <1>4, SourceQueryAssumption

LEMMA QueryOfReader ==
  ASSUME RInv, NEW r \in Readers
  PROVE  /\ resolving[r] = Null => queryNow[r] = Null
         /\ resolving[r] # Null => queryNow[r] = SeenAs(resolving[r]) /\ queryNow[r] # Null
<1>1. resolving[r] # Null => resolving[r] \in Resolution /\ Sound(resolving[r])
  BY DEF RInv
<1>2. resolving[r] # Null => queryNow[r] = SeenAs(resolving[r])
  BY DEF queryNow, SeenAs
<1>. QED  BY <1>1, <1>2, SeenAsQuery DEF queryNow

LEMMA SeenOvertaken ==
  ASSUME NEW q \in Resolution, NEW x \in BOOLEAN
  PROVE  SeenAs([q EXCEPT !.clean = x]) = [SeenAs(q) EXCEPT !.clean = x]
<1>. DEFINE n == [q EXCEPT !.clean = x]
            a == IF q.at = "answered" THEN "returned" ELSE "asked"
            s == SeenAs(q)
<1>1. n.key = q.key /\ n.at = q.at /\ n.answer = q.answer /\ n.clean = x
  BY DEF Resolution
<1>. HIDE DEF n
<1>2. SeenAs(n) = [key |-> q.key, at |-> a, clean |-> x, value |-> q.answer]
  BY <1>1 DEF SeenAs
<1>3. /\ s \in [key : {q.key}, at : {a}, clean : {q.clean}, value : {q.answer}]
      /\ s.key = q.key /\ s.at = a /\ s.value = q.answer
  BY DEF SeenAs
<1>. HIDE DEF a, s
<1>4. [s EXCEPT !.clean = x] = [key |-> q.key, at |-> a, clean |-> x, value |-> q.answer]
  BY <1>3
<1>. QED  BY <1>2, <1>4 DEF n, s

\* A query of one reader changes what is seen of that reader.
LEMMA SeenOfOne ==
  ASSUME resolving \in [Readers -> Resolution \cup {Null}], NEW r \in Readers,
         NEW n \in Resolution, resolving' = [resolving EXCEPT ![r] = n]
  PROVE  queryNow' = [queryNow EXCEPT ![r] = SeenAs(n)]
<1>1. n # Null
  BY ResolverAssumption
<1>2. resolving'[r] = n /\ \A s \in Readers \ {r} : resolving'[s] = resolving[s]
  OBVIOUS
<1>. QED  BY <1>1, <1>2 DEF queryNow, SeenAs

SourceMove ==
  Source!SourceNext \/ (UNCHANGED truthNow /\ UNCHANGED queryNow)

LEMMA WriteCommits ==
  ASSUME RInv, TruthTyped', [Next]_vars,
         resolving' = IF tables' = tables THEN resolving ELSE Overtaken
  PROVE  SourceMove
<1>1. CASE tables' = tables
  <2>1. resolving' = resolving /\ account' = account /\ binding' = binding /\ policy' = policy
    BY <1>1 DEF tables
  <2>. QED  BY <2>1 DEF SourceMove, truthNow, queryNow
<1>2. CASE tables' # tables
  <2>1. resolving' = Overtaken
    BY <1>2
  <2>2. truthNow' \in [Keys -> BoundedDecisions]
    BY DEF TruthTyped
  <2>3. ASSUME NEW r \in Readers
        PROVE  queryNow'[r] = IF queryNow[r] = Null THEN Null
                              ELSE [queryNow[r] EXCEPT !.clean = FALSE]
    <3>1. CASE resolving[r] = Null
      BY <2>1, <3>1, QueryOfReader DEF Overtaken, queryNow
    <3>2. CASE resolving[r] # Null
      <4>. DEFINE q == resolving[r]
                  n == [q EXCEPT !.clean = FALSE]
      <4>1. q \in Resolution /\ resolving'[r] = n
        BY <2>1, <3>2 DEF RInv, Overtaken
      <4>2. n \in Resolution /\ n # Null
        BY <4>1, ResolverAssumption DEF Resolution
      <4>3. queryNow'[r] = SeenAs(n)
        BY <4>1, <4>2 DEF queryNow, SeenAs
      <4>4. SeenAs(n) = [SeenAs(q) EXCEPT !.clean = FALSE]
        BY <4>1, SeenOvertaken
      <4>. HIDE DEF q, n
      <4>5. queryNow[r] = SeenAs(q) /\ queryNow[r] # Null
        BY <3>2, QueryOfReader DEF q
      <4>. QED  BY <4>3, <4>4, <4>5
    <3>. QED  BY <3>1, <3>2
  <2>4. queryNow' = [r \in Readers |-> IF queryNow[r] = Null THEN Null
                                       ELSE [queryNow[r] EXCEPT !.clean = FALSE]]
    BY <2>3 DEF queryNow
  <2>5. Source!Commit
    BY <2>2, <2>4 DEF Source!Commit, truthNow, queryNow
  <2>. QED  BY <2>5 DEF SourceMove, Source!SourceNext
<1>. QED  BY <1>1, <1>2

\* A clean answer is the decision that is true.
LEMMA CleanIsTrue ==
  ASSUME RInv, NEW n \in Resolution, Sound(n), OfOnePolicy(n), n.at = "answered", n.clean
  PROVE  n.answer = truthNow[n.key]
<1>1. n.key \in Keys /\ n.key = <<n.key[1], n.key[2]>>
  BY DEF Resolution, Keys
<1>2. /\ n.rows = ServableRows(account, binding) /\ policy[n.key] = n.policyBefore
      /\ n.before = DecisionFrom(n.rows, n.policyBefore, n.key[2]) /\ n.answer = n.before
  BY DEF Sound, OfOnePolicy
<1>3. truthNow[n.key] = RouteOf(account, binding, policy, n.key[1], n.key[2])
  BY <1>1 DEF truthNow
<1>. QED  BY <1>1, <1>2, <1>3 DEF RouteOf

\* What the invariant says after a query of what that query leaves.
LEMMA SoundAfter ==
  ASSUME RInv', UNCHANGED vars, NEW r \in Readers, NEW n, n # Null, resolving'[r] = n
  PROVE  Sound(n) /\ OfOnePolicy(n)
<1>1. Sound(resolving[r])' /\ OfOnePolicy(resolving[r])'
  BY DEF RInv
<1>2. account' = account /\ binding' = binding /\ policy' = policy
  BY DEF vars
<1>. QED  BY <1>1, <1>2 DEF Sound, OfOnePolicy, PublishedLiteLLM

LEMMA QueryMoves ==
  ASSUME RInv, NEW r \in Readers, Resolve(r)
  PROVE  SourceMove
<1>1. UNCHANGED truthNow
  BY DEF Resolve, vars, truthNow
<1>2. resolving \in [Readers -> Resolution \cup {Null}] /\ RInv'
  BY NextRInv DEF RInv, Resolve, ResolverNext
<1>3. CASE FetchBindings(r)
  <2>1. PICK k \in Keys : resolving' = [resolving EXCEPT ![r] = Fetched(k)]
    BY <1>3 DEF FetchBindings, Fetched
  <2>2. queryNow' = [queryNow EXCEPT ![r] = SeenAs(Fetched(k))]
    BY <1>2, <2>1, FetchedOK, SeenOfOne
  <2>3. SeenAs(Fetched(k)) = [key |-> k, at |-> "asked", clean |-> TRUE, value |-> Null]
    BY DEF SeenAs, Fetched
  <2>4. queryNow[r] = Null
    BY <1>3 DEF FetchBindings, queryNow
  <2>5. Source!Ask(r, k)
    BY <1>1, <2>2, <2>3, <2>4 DEF Source!Ask, truthNow, queryNow
  <2>. QED  BY <2>5 DEF SourceMove, Source!SourceNext
<1>4. ASSUME NEW n \in Resolution, resolving' = [resolving EXCEPT ![r] = n],
             resolving[r] # Null, SeenAs(n) = SeenAs(resolving[r])
      PROVE  SourceMove
  <2>1. queryNow' = [queryNow EXCEPT ![r] = SeenAs(n)] /\ queryNow[r] = SeenAs(n)
    BY <1>2, <1>4, SeenOfOne, QueryOfReader
  <2>2. queryNow' = queryNow
    BY <2>1 DEF queryNow
  <2>. QED  BY <1>1, <2>2 DEF SourceMove
<1>5. ASSUME NEW n \in Resolution, resolving' = [resolving EXCEPT ![r] = n], Sound(n),
             resolving[r] # Null, resolving[r].at # "answered", n.at = "answered",
             n.key = resolving[r].key, n.clean = resolving[r].clean,
             n.clean => n.answer = truthNow[n.key]
      PROVE  SourceMove
  <2>. DEFINE q == resolving[r]
  <2>1. queryNow' = [queryNow EXCEPT ![r] = SeenAs(n)]
    BY <1>2, <1>5, SeenOfOne
  <2>2. queryNow[r] = SeenAs(q) /\ queryNow[r] # Null
    BY <1>5, QueryOfReader
  <2>3. SeenAs(q) = [key |-> n.key, at |-> "asked", clean |-> n.clean, value |-> q.answer]
    BY <1>5 DEF SeenAs
  <2>4. SeenAs(n) = [key |-> n.key, at |-> "returned", clean |-> n.clean, value |-> n.answer]
    BY <1>5 DEF SeenAs
  <2>5. n.answer \in BoundedDecisions
    BY <1>5, RouteBounded DEF Resolution, Sound
  <2>. HIDE DEF q
  <2>6. SeenAs(n) = [[queryNow[r] EXCEPT !.at = "returned"] EXCEPT !.value = n.answer]
    <3>. DEFINE s == queryNow[r]
                m == [s EXCEPT !.at = "returned"]
    <3>1. s \in [key : {n.key}, at : {"asked"}, clean : {n.clean}, value : {q.answer}]
      BY <2>2, <2>3
    <3>2. s.key = n.key /\ s.clean = n.clean /\ s.value = q.answer
      BY <2>2, <2>3
    <3>. HIDE DEF s
    <3>3. /\ m \in [key : {n.key}, at : {"returned"}, clean : {n.clean}, value : {q.answer}]
          /\ m.key = n.key /\ m.at = "returned" /\ m.clean = n.clean
      BY <3>1, <3>2
    <3>. HIDE DEF m
    <3>4. [m EXCEPT !.value = n.answer]
            = [key |-> n.key, at |-> "returned", clean |-> n.clean, value |-> n.answer]
      BY <3>3
    <3>. QED  BY <2>4, <3>4 DEF m, s
  <2>7. queryNow' = [queryNow EXCEPT ![r].at = "returned", ![r].value = n.answer]
    BY <2>1, <2>6 DEF queryNow
  <2>8. queryNow[r].at = "asked" /\ queryNow[r].clean = n.clean /\ queryNow[r].key = n.key
    BY <2>2, <2>3
  <2>9. \E v \in IF queryNow[r].clean THEN {truthNow[queryNow[r].key]} ELSE BoundedDecisions :
          queryNow' = [queryNow EXCEPT ![r].at = "returned", ![r].value = v]
    BY <1>5, <2>5, <2>7, <2>8
  <2>10. Source!Return(r)
    BY <1>1, <2>2, <2>8, <2>9 DEF Source!Return, truthNow, queryNow
  <2>. QED  BY <2>10 DEF SourceMove, Source!SourceNext
<1>6. CASE ReadHidden(r)
  <2>. DEFINE q == resolving[r]
              n == [q EXCEPT !.hidden = Hidden(policy[q.key]), !.at = "selected"]
  <2>1. q # Null /\ q.at = "hidden" /\ q \in Resolution
    BY <1>6 DEF RInv, ReadHidden
  <2>2. resolving' = [resolving EXCEPT ![r] = n]
    BY <1>6 DEF ReadHidden
  <2>3. n \in Resolution
    BY <2>1 DEF Resolution, Hidden
  <2>4. n.key = q.key /\ n.at = "selected" /\ n.answer = q.answer /\ n.clean = q.clean
    BY <2>1 DEF Resolution
  <2>. HIDE DEF n
  <2>5. SeenAs(n) = SeenAs(q)
    BY <2>1, <2>4 DEF SeenAs
  <2>. QED  BY <1>4, <2>1, <2>2, <2>3, <2>5
<1>7. CASE ReadSelected(r)
  <2>. DEFINE q == resolving[r]
              s == [q EXCEPT !.selected = SelectedRevision(policy[q.key])]
              n == [s EXCEPT !.at = IF Choices(s) = {} THEN "answered" ELSE "quoted"]
  <2>1. q # Null /\ q.at = "selected" /\ q \in Resolution
    BY <1>7 DEF RInv, ReadSelected
  <2>2. resolving' = [resolving EXCEPT ![r] = n]
    BY <1>7 DEF ReadSelected
  <2>3. n # Null /\ n \in Resolution
    <3>1. policy[q.key] \in PolicyRow \cup {Null}
      BY <2>1 DEF RInv, RepositoryInv, SInv, IInv, TypeOK, Resolution, Keys
    <3>2. SelectedRevision(policy[q.key]) \in Bindings \cup {Null}
      BY <3>1 DEF SelectedRevision, Visible, PolicyRow
    <3>3. n \in Resolution
      BY <2>1, <3>2 DEF Resolution
    <3>. QED  BY <3>3, ResolverAssumption
  <2>4. /\ n.key = q.key /\ n.answer = q.answer /\ n.clean = q.clean
        /\ n.at = (IF Choices(s) = {} THEN "answered" ELSE "quoted")
    BY <2>1 DEF Resolution
  <2>. HIDE DEF s, n
  <2>5. Sound(n) /\ OfOnePolicy(n)
    <3>1. resolving'[r] = n
      BY <1>2, <2>2
    <3>. QED  BY <1>2, <2>3, <3>1, SoundAfter DEF Resolve
  <2>6. CASE n.at = "answered"
    <3>1. n.clean => n.answer = truthNow[n.key]
      BY <2>3, <2>5, <2>6, CleanIsTrue
    <3>. QED  BY <1>5, <2>1, <2>2, <2>3, <2>4, <2>5, <2>6, <3>1
  <2>7. CASE n.at # "answered"
    <3>1. SeenAs(n) = SeenAs(q)
      BY <2>1, <2>4, <2>7 DEF SeenAs
    <3>. QED  BY <1>4, <2>1, <2>2, <2>3, <3>1
  <2>. QED  BY <2>6, <2>7
<1>8. CASE ReadPolicy(r)
  <2>. DEFINE q == resolving[r]
              n == [q EXCEPT !.at = "answered", !.answer = QuotedRoute(q)]
  <2>1. q # Null /\ q.at = "quoted" /\ q \in Resolution /\ Sound(q)
    BY <1>8 DEF RInv, ReadPolicy
  <2>2. resolving' = [resolving EXCEPT ![r] = n] /\ resolving'[r] = n
    BY <1>2, <1>8 DEF ReadPolicy, QuotedRoute
  <2>3. QuotedRoute(q) \in Route
    BY <2>1, QuotedRouteOK
  <2>4. n \in Resolution /\ n.key = q.key /\ n.clean = q.clean /\ n.at = "answered"
    BY <2>1, <2>3 DEF Resolution
  <2>5. n # Null
    BY <2>4, ResolverAssumption
  <2>. HIDE DEF n
  <2>6. Sound(n) /\ OfOnePolicy(n)
    BY <1>2, <2>2, <2>4, <2>5, SoundAfter DEF Resolve
  <2>7. n.clean => n.answer = truthNow[n.key]
    BY <2>4, <2>6, <1>1, CleanIsTrue
  <2>. QED  BY <1>5, <2>1, <2>2, <2>4, <2>6, <2>7
<1>9. CASE Finish(r)
  <2>1. resolving[r] # Null /\ resolving' = [resolving EXCEPT ![r] = Null]
    BY <1>9 DEF Finish
  <2>2. queryNow' = [queryNow EXCEPT ![r] = Null] /\ queryNow[r] # Null
    BY <1>2, <2>1, QueryOfReader DEF queryNow
  <2>3. Source!Leave(r)
    BY <1>1, <2>2 DEF Source!Leave, truthNow, queryNow
  <2>. QED  BY <2>3 DEF SourceMove, Source!SourceNext
<1>. QED  BY <1>3, <1>6, <1>7, <1>8, <1>9 DEF Resolve

LEMMA SourceSteps ==
  ASSUME RInv, TruthTyped', [ResolverNext]_resolverVars
  PROVE  [Source!SourceNext]_<<truthNow, queryNow>>
<1>1. CASE Write
  BY <1>1, WriteCommits DEF Write, SourceMove
<1>2. CASE \E r \in Readers : Resolve(r)
  BY <1>2, QueryMoves DEF SourceMove
<1>3. CASE UNCHANGED resolverVars
  BY <1>3 DEF resolverVars, vars, truthNow, queryNow
<1>. QED  BY <1>1, <1>2, <1>3 DEF ResolverNext

\* The four queries of a resolution are one query of the register the cache is
\* built on: undisturbed by a write, they return the decision that is true.
THEOREM SourceImplemented == ResolverSpec => ImplementsRouteSource
<1>1. ResolverInit => Source!SourceInit
  <2>. SUFFICES ASSUME ResolverInit PROVE Source!SourceInit
    OBVIOUS
  <2>1. TruthTyped
    BY InitRepositoryInv, TruthOK DEF ResolverInit
  <2>2. queryNow = [r \in Readers |-> Null]
    BY DEF ResolverInit, queryNow
  <2>. QED  BY <2>1, <2>2 DEF Source!SourceInit, TruthTyped, truthNow, queryNow
<1>2. RInv => TruthTyped
  BY TruthOK DEF RInv
<1>3. RInv /\ TruthTyped' /\ [ResolverNext]_resolverVars =>
        [Source!SourceNext]_<<truthNow, queryNow>>
  BY SourceSteps
<1>. QED
  BY <1>1, <1>2, <1>3, ResolverInv, PTL
  DEF ResolverSpec, ImplementsRouteSource, Source!SourceSpec, truthNow, queryNow
=============================================================================

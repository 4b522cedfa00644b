--------------------------- MODULE RouteResolver ---------------------------
(***************************************************************************)
(* PostgreSQLModelResolver.resolve: the four queries that turn a tenant    *)
(* and a label into a route, run while the repository's callers write.     *)
(*                                                                         *)
(* No transaction spans the queries, so a write may fall between any two.  *)
(* The first query fetches the eligible revisions; the other three read    *)
(* the policy row of the tenant's label: whether it hides the label, which *)
(* revision it selects, and the id and generation the answer quotes.       *)
(***************************************************************************)
EXTENDS ModelRepository

CONSTANT Readers   \* concurrent resolutions

VARIABLE resolving   \* what a resolution has read so far, or Null

resolverVars == <<vars, resolving>>

Keys == Tenants \X Labels

\* rows, hidden and selected are what the first three queries returned.  clean,
\* before and policyBefore are history: whether no write has happened since the
\* first query, the route that would have been given then, and the policy row.
Resolution ==
  [key : Keys, at : {"hidden", "selected", "quoted", "answered"},
   rows : [Bindings -> BindingRow \cup {Null}],
   hidden : BOOLEAN, selected : Bindings \cup {Null}, answer : Route \cup {Null},
   clean : BOOLEAN, before : Route \cup {Null}, policyBefore : PolicyRow \cup {Null}]

ASSUME ResolverAssumption == Null \notin Resolution

ResolverTypeOK ==
  /\ TypeOK
  /\ resolving \in [Readers -> Resolution \cup {Null}]

-----------------------------------------------------------------------------
FetchBindings(r) ==
  /\ resolving[r] = Null
  /\ \E k \in Keys :
       resolving' = [resolving EXCEPT ![r] =
         [key |-> k, at |-> "hidden", rows |-> ServableRows(account, binding),
          hidden |-> FALSE, selected |-> Null, answer |-> Null,
          clean |-> TRUE, policyBefore |-> policy[k],
          before |-> RouteOf(account, binding, policy, k[1], k[2])]]

\* Mutant of ReadHidden: policies that hide a label are not looked up.
ReadHiddenNever(r) ==
  /\ resolving[r] # Null /\ resolving[r].at = "hidden"
  /\ resolving' = [resolving EXCEPT ![r].at = "selected"]

ReadHidden(r) ==
  /\ resolving[r] # Null /\ resolving[r].at = "hidden"
  /\ resolving' = [resolving EXCEPT ![r].hidden = Hidden(policy[resolving[r].key]),
                                    ![r].at = "selected"]

\* The third query; the filters then leave a first revision to quote, or none.
Choices(q) == Narrowed(q.rows, q.key[2], q.hidden, q.selected)

\* Mutant of ReadSelected: the filters run over revisions fetched again.
ReadSelectedRefetching(r) ==
  /\ resolving[r] # Null /\ resolving[r].at = "selected"
  /\ LET q == [resolving[r] EXCEPT !.selected = SelectedRevision(policy[resolving[r].key]),
                                   !.rows = ServableRows(account, binding)]
     IN resolving' = [resolving EXCEPT ![r] =
          [q EXCEPT !.at = IF Choices(q) = {} THEN "answered" ELSE "quoted"]]

ReadSelected(r) ==
  /\ resolving[r] # Null /\ resolving[r].at = "selected"
  /\ LET q == [resolving[r] EXCEPT !.selected = SelectedRevision(policy[resolving[r].key])]
     IN resolving' = [resolving EXCEPT ![r] =
          [q EXCEPT !.at = IF Choices(q) = {} THEN "answered" ELSE "quoted"]]

ReadPolicy(r) ==
  /\ resolving[r] # Null /\ resolving[r].at = "quoted"
  /\ LET q == resolving[r]
         b == First(q.rows, Choices(q))
     IN resolving' = [resolving EXCEPT ![r].at = "answered",
                        ![r].answer = RouteThrough(q.rows, b, policy[q.key])]

\* The answer is taken, or a query fails.
Finish(r) ==
  /\ resolving[r] # Null
  /\ resolving' = [resolving EXCEPT ![r] = Null]

Resolve(r) ==
  /\ FetchBindings(r) \/ ReadHidden(r) \/ ReadSelected(r) \/ ReadPolicy(r) \/ Finish(r)
  /\ UNCHANGED vars

\* A repository call takes a step; a write overtakes the resolutions under way.
Overtaken ==
  [r \in Readers |-> IF resolving[r] = Null THEN Null
                     ELSE [resolving[r] EXCEPT !.clean = FALSE]]

Write ==
  /\ Next
  /\ resolving' = IF tables' = tables THEN resolving ELSE Overtaken

ResolverInit == Init /\ resolving = [r \in Readers |-> Null]

ResolverNext == Write \/ \E r \in Readers : Resolve(r)

ResolverSpec == ResolverInit /\ [][ResolverNext]_resolverVars

-----------------------------------------------------------------------------
\* A resolution during which its policy row stands still answers with the route
\* of one instant, that of its first query, however many accounts and bindings
\* were written meanwhile; a policy row that changed shows in its generation.
ResolveIsAtomicWhilePolicyStands ==
  \A r \in Readers :
    LET q == resolving[r] IN
    q # Null /\ q.at = "answered" /\ policy[q.key] = q.policyBefore =>
      q.answer = q.before

\* A route is only ever given through a published LiteLLM revision, and never
\* through one that was not eligible when the resolution began.
RoutedRevisionWasServable ==
  \A r \in Readers :
    LET q == resolving[r] IN
    q # Null /\ q.answer # Null =>
      /\ q.rows[q.answer.revision] # Null
      /\ PublishedLiteLLM(q.answer.revision)

\* API_CONTRACT.md has the quoted generation serve the consistency of
\* concurrent reads: an answer that quotes the current generation of a policy
\* that pins a revision is a route through that revision.
AnswerObeysTheQuotedPolicy ==
  \A r \in Readers :
    LET q == resolving[r] IN
    q # Null /\ q.answer # Null /\ Visible(policy[q.key]) =>
      (q.answer.generation = policy[q.key].generation /\ q.answer.policy
         => policy[q.key].pin \in {Null, q.answer.revision})

-----------------------------------------------------------------------------
\* The resolver behind the cache, as the cache sees it.
BoundedDecisions ==
  {Null} \cup [revision : Bindings, gateway : Gateways \cup {Null}, priority : Priorities,
               policy : BOOLEAN, generation : 1 .. MaxGeneration]

Source == INSTANCE RouteSource WITH
  Decisions <- BoundedDecisions,
  truth <- [k \in Keys |-> RouteOf(account, binding, policy, k[1], k[2])],
  query <- [r \in Readers |->
              IF resolving[r] = Null THEN Null
              ELSE [key |-> resolving[r].key,
                    at |-> IF resolving[r].at = "answered" THEN "returned" ELSE "asked",
                    clean |-> resolving[r].clean,
                    value |-> resolving[r].answer]]

ASSUME SourceQueryAssumption == Null \notin Source!Queries

\* The four queries implement the register the cache is built on.
ImplementsRouteSource == Source!SourceSpec
=============================================================================

---------------------------- MODULE ModelCatalog ----------------------------
(***************************************************************************)
(* The rows of the model catalogue, and the route a tenant's label has in  *)
(* a given state of those rows.  No behaviour: the modules that read and   *)
(* write the rows EXTEND this one.                                         *)
(*                                                                         *)
(* A row is named by its unique key, which the code never changes: an      *)
(* account by (provider, key); a binding, the "model revision" of the      *)
(* docs, by (account, model name, transport), so AccountOf and TransportOf *)
(* are constants; a policy by (tenant, label).  A row the database does    *)
(* not hold is Null, and so is a NULL column.  deletedBy stands for the    *)
(* three columns deletedAt, deletedBy and deleteReason, which the code     *)
(* always writes together.                                                 *)
(***************************************************************************)
EXTENDS Naturals, FiniteSets

CONSTANTS
  Accounts, Bindings, Labels, Tenants,   \* keys of the rows
  AccountOf,        \* the provider account of a binding
  TransportOf,      \* the transport of a binding
  Operators,        \* who deletes
  Gateways,         \* LiteLLM model names a binding may carry
  Priorities,       \* priorities a binding may carry
  Features,         \* feature keys that bindings and labels carry
  Null

Status == {"active", "disabled"}
Health == {"unknown", "healthy", "degraded", "down"}
Transports == {"litellm", "direct", "internal"}
Visibility == {"visible", "hidden"}

-----------------------------------------------------------------------------
(* Rows. createdAt is the rank of the row in ORDER BY createdAt, id.        *)

AccountRow ==
  [status : Status, health : Health, deletedBy : Operators \cup {Null}]

BindingRow ==
  [status : Status, published : BOOLEAN, labels : SUBSET Labels,
   feature : Features, priority : Priorities, gateway : Gateways \cup {Null},
   createdAt : Nat, deletedBy : Operators \cup {Null}]

PolicyRow ==
  [status : Visibility, pin : Bindings \cup {Null}, generation : Nat \ {0}]

ASSUME CatalogAssumption ==
  /\ IsFiniteSet(Bindings)
  /\ AccountOf \in [Bindings -> Accounts]
  /\ TransportOf \in [Bindings -> Transports]
  /\ Priorities \subseteq Nat
  /\ Null \notin Operators
  /\ Null \notin Gateways
  /\ Null \notin Bindings
  /\ Null \notin AccountRow \cup BindingRow \cup PolicyRow

Live(row) == row # Null /\ row.deletedBy = Null

-----------------------------------------------------------------------------
(* The route of a label.                                                   *)

\* The relation filter on the account of a servable binding.
AccountServes(row) ==
  Live(row) /\ row.status = "active" /\ row.health # "down"

\* Mutant of Servable: the filters on status and publication are passed undefined.
ServableAnyLive(accounts, bindings, b) ==
  /\ Live(bindings[b])
  /\ TransportOf[b] = "litellm"
  /\ AccountServes(accounts[AccountOf[b]])

\* The where clause that makes a revision serve, whatever its transport, and
\* with the transport a route must have.
Serves(accounts, bindings, b) ==
  /\ Live(bindings[b])
  /\ bindings[b].status = "active"
  /\ bindings[b].published
  /\ AccountServes(accounts[AccountOf[b]])

Servable(accounts, bindings, b) ==
  TransportOf[b] = "litellm" /\ Serves(accounts, bindings, b)

\* The rows the first query of a resolution returns, by binding; Null elsewhere.
ServableRows(accounts, bindings) ==
  [b \in Bindings |-> IF Servable(accounts, bindings, b) THEN bindings[b] ELSE Null]

\* A tenant's policy row p for a label: Null, visible or hidden.
Visible(p) == p # Null /\ p.status = "visible"
Hidden(p)  == p # Null /\ p.status = "hidden"

\* Mutant of GenerationOf: without a policy the generation defaults to 0.
GenerationOrZero(p) == IF Visible(p) THEN p.generation ELSE 0

\* The pin and the generation that a visible policy contributes.
SelectedRevision(p) == IF Visible(p) THEN p.pin ELSE Null
GenerationOf(p)     == IF Visible(p) THEN p.generation ELSE 1

\* The in-memory filters applied to the fetched rows, for label l.
Narrowed(rows, l, hidden, selected) ==
  {b \in Bindings :
     /\ rows[b] # Null
     /\ l \in rows[b].labels
     /\ ~hidden
     /\ selected # Null => b = selected}

\* ORDER BY priority, createdAt, id.
Before(rows, b, c) ==
  \/ rows[b].priority < rows[c].priority
  \/ rows[b].priority = rows[c].priority /\ rows[b].createdAt < rows[c].createdAt

First(rows, choices) ==
  CHOOSE b \in choices : \A c \in choices \ {b} : Before(rows, b, c)

\* What a caller is told. policy tells the id of a policy row from the default
\* one, and the digest is a function of the other fields.
Route ==
  [revision : Bindings, gateway : Gateways \cup {Null}, priority : Priorities,
   policy : BOOLEAN, generation : Nat \ {0}]

ASSUME RouteAssumption == Null \notin Route

\* The route through binding b that quotes policy row p.
RouteThrough(rows, b, p) ==
  [revision |-> b, gateway |-> rows[b].gateway, priority |-> rows[b].priority,
   policy |-> Visible(p), generation |-> GenerationOf(p)]

\* The decision for label l from rows fetched and a policy row read together.
DecisionFrom(rows, p, l) ==
  LET choices == Narrowed(rows, l, Hidden(p), SelectedRevision(p))
  IN IF choices = {} THEN Null ELSE RouteThrough(rows, First(rows, choices), p)

\* The decision that one consistent state of the database gives.
RouteOf(accounts, bindings, policies, t, l) ==
  DecisionFrom(ServableRows(accounts, bindings), policies[t, l], l)
=============================================================================

-------------------------- MODULE ModelRepository --------------------------
(***************************************************************************)
(* PrismaModelRepository: the methods that write the catalogue, run by     *)
(* concurrent callers.                                                     *)
(*                                                                         *)
(* A method awaits one database statement after another and holds no       *)
(* transaction across them, so each statement is an action of its own and  *)
(* the statements of different callers interleave.  A single statement is  *)
(* atomic: an upsert is one INSERT ... ON CONFLICT, and the nested write   *)
(* of setProviderHealthStatus is one transaction.                          *)
(*                                                                         *)
(* Columns that no query filters on and no route quotes (names, secrets,   *)
(* modalities, context window, descriptions) are left out, and so are the  *)
(* rows of model_label, which no write to another table and no resolution  *)
(* reads.                                                                  *)
(***************************************************************************)
EXTENDS ModelCatalog

CONSTANTS
  Callers,         \* concurrent calls
  Methods,         \* the methods the callers use
  LabelSets,       \* label lists a binding is given
  Undefined,       \* an optional argument that is not passed
  MaxGeneration    \* bound on the generation of a policy

VARIABLES
  account, binding, policy,   \* the tables, by key
  healthState,                \* provider_health_state: the status it records
  call,                       \* the call a caller has in progress, or Null
  at                          \* where that call stands, or how the last one ended

tables == <<account, binding, policy, healthState>>
vars == <<account, binding, policy, healthState, call, at>>

Replies == {"ok", "not_found", "deleted", "failed"}
Stages  == {"begun", "account_found", "found"}

\* The calls the handlers make, with the arguments that matter.  A request to
\* ensure a LiteLLM binding names the model of the gateway, or is refused.
EnsureRequests ==
  [method : {"ensureProviderAccount"}, target : Accounts]
  \cup {r \in [method : {"ensureModelBinding"}, target : Bindings, labels : LabelSets,
               feature : Features, priority : Priorities, gateway : Gateways \cup {Null}] :
          TransportOf[r.target] = "litellm" => r.gateway # Null}

AccountRequests ==
  UNION {
    [method : {"setProviderAccountStatus"}, target : Accounts, status : Status],
    [method : {"setProviderHealthStatus"}, target : Accounts, status : Health],
    [method : {"deleteProviderAccount"}, target : Accounts, by : Operators],
    [method : {"restoreProviderAccount"}, target : Accounts]}

BindingRequests ==
  UNION {
    [method : {"setModelBindingStatus"}, target : Bindings, status : Status],
    [method : {"deleteModelBinding"}, target : Bindings, by : Operators],
    [method : {"restoreModelBinding"}, target : Bindings]}

PolicyRequests ==
  [method : {"upsertTenantModelPolicy"}, target : Tenants \X Labels,
   status : Visibility, pin : Bindings \cup {Null, Undefined}]

Requests == EnsureRequests \cup AccountRequests \cup BindingRequests \cup PolicyRequests

ASSUME RepositoryAssumption ==
  /\ LabelSets \subseteq SUBSET Labels
  /\ Undefined \notin Bindings \cup {Null}
  /\ MaxGeneration \in Nat \ {0}
  /\ Null \notin Requests

TypeOK ==
  /\ account \in [Accounts -> AccountRow \cup {Null}]
  /\ binding \in [Bindings -> BindingRow \cup {Null}]
  /\ policy \in [Tenants \X Labels -> PolicyRow \cup {Null}]
  /\ healthState \in [Accounts -> Health \cup {Null}]
  /\ call \in [Callers -> Requests \cup {Null}]
  /\ at \in [Callers -> Stages \cup Replies \cup {"idle"}]

-----------------------------------------------------------------------------
(* How a call moves through its statements.                                *)

Running(c, method, stage) ==
  call[c] # Null /\ call[c].method = method /\ at[c] = stage

Proceed(c, stage) == at' = [at EXCEPT ![c] = stage] /\ UNCHANGED call

Answer(c, reply) ==
  /\ at' = [at EXCEPT ![c] = reply]
  /\ call' = [call EXCEPT ![c] = Null]

\* After a committed statement the answer may still be lost: the connection
\* drops before the result arrives and the method throws.
AnswerOrLose(c, reply) == Answer(c, reply) \/ Answer(c, "failed")

Begin(c) ==
  /\ call[c] = Null
  /\ \E r \in Requests :
       /\ r.method \in Methods
       /\ call' = [call EXCEPT ![c] = r]
  /\ at' = [at EXCEPT ![c] = "begun"]
  /\ UNCHANGED tables

\* A statement fails, or the process dies, before its next statement commits.
Fail(c) ==
  /\ call[c] # Null
  /\ Answer(c, "failed")
  /\ UNCHANGED tables

SetAccount(a, row) ==
  account' = [account EXCEPT ![a] = row] /\ UNCHANGED <<binding, policy, healthState>>

SetBinding(b, row) ==
  binding' = [binding EXCEPT ![b] = row] /\ UNCHANGED <<account, policy, healthState>>

\* findUnique by id: no row answers not_found, a row that already is as asked
\* is returned as it stands, any other sends the call on to its write.
FindTarget(c, row, settled) ==
  /\ \/ row = Null /\ Answer(c, "not_found")
     \/ row # Null /\ settled /\ Answer(c, "ok")
     \/ row # Null /\ ~settled /\ Proceed(c, "found")
  /\ UNCHANGED tables

-----------------------------------------------------------------------------
(* Provider accounts.                                                      *)

\* A row as it is inserted, by an ensure or by the initialisation SQL.
InsertedAccount == [status |-> "active", health |-> "unknown", deletedBy |-> Null]

\* Mutant of ensureProviderAccount: the upsert clears the deletion, and the
\* rejection is decided on the row as it was.
ensureProviderAccountReviving(c) ==
  LET a == call[c].target IN
  \/ /\ Running(c, "ensureProviderAccount", "begun")
     /\ IF account[a] # Null /\ ~Live(account[a])
        THEN Answer(c, "deleted") ELSE Proceed(c, "found")
     /\ UNCHANGED tables
  \/ /\ Running(c, "ensureProviderAccount", "found")
     /\ SetAccount(a, InsertedAccount)
     /\ AnswerOrLose(c, IF account[a] = Null \/ Live(account[a]) THEN "ok" ELSE "deleted")

ensureProviderAccount(c) ==
  LET a == call[c].target IN
  \/ /\ Running(c, "ensureProviderAccount", "begun")
     /\ IF account[a] # Null /\ ~Live(account[a])
        THEN Answer(c, "deleted") ELSE Proceed(c, "found")
     /\ UNCHANGED tables
  \/ /\ Running(c, "ensureProviderAccount", "found")
     /\ IF account[a] = Null
        THEN SetAccount(a, InsertedAccount)
        ELSE SetAccount(a, [account[a] EXCEPT !.status = "active"])
     /\ AnswerOrLose(c, IF account'[a].deletedBy = Null THEN "ok" ELSE "deleted")

setProviderAccountStatus(c) ==
  LET a == call[c].target IN
  \/ /\ Running(c, "setProviderAccountStatus", "begun")
     /\ FindTarget(c, account[a], FALSE)
  \/ /\ Running(c, "setProviderAccountStatus", "found")
     /\ SetAccount(a, [account[a] EXCEPT !.status = call[c].status])
     /\ AnswerOrLose(c, "ok")

\* The account column and its provider_health_state row in one transaction.
setProviderHealthStatus(c) ==
  LET a == call[c].target IN
  \/ /\ Running(c, "setProviderHealthStatus", "begun")
     /\ FindTarget(c, account[a], FALSE)
  \/ /\ Running(c, "setProviderHealthStatus", "found")
     /\ account' = [account EXCEPT ![a].health = call[c].status]
     /\ healthState' = [healthState EXCEPT ![a] = call[c].status]
     /\ UNCHANGED <<binding, policy>>
     /\ AnswerOrLose(c, "ok")

deleteProviderAccount(c) ==
  LET a == call[c].target IN
  \/ /\ Running(c, "deleteProviderAccount", "begun")
     /\ FindTarget(c, account[a], ~Live(account[a]))
  \/ /\ Running(c, "deleteProviderAccount", "found")
     /\ SetAccount(a, [account[a] EXCEPT !.deletedBy = call[c].by])
     /\ AnswerOrLose(c, "ok")

restoreProviderAccount(c) ==
  LET a == call[c].target IN
  \/ /\ Running(c, "restoreProviderAccount", "begun")
     /\ FindTarget(c, account[a], Live(account[a]))
  \/ /\ Running(c, "restoreProviderAccount", "found")
     /\ SetAccount(a, [account[a] EXCEPT !.deletedBy = Null])
     /\ AnswerOrLose(c, "ok")

-----------------------------------------------------------------------------
(* Model bindings.                                                         *)

\* Mutants of EnsuredBinding: the deletion columns of a new row are left
\* undefined, not null; the update clears the deletion columns, as the one of
\* a policy does.
EnsuredBindingUndefined(b, r) ==
  [status |-> "active", published |-> TRUE, labels |-> r.labels, feature |-> r.feature,
   priority |-> r.priority, gateway |-> r.gateway, createdAt |-> 0,
   deletedBy |-> IF binding[b] # Null THEN binding[b].deletedBy ELSE Undefined]

EnsuredBindingRestored(b, r) ==
  [status |-> "active", published |-> TRUE, labels |-> r.labels, feature |-> r.feature,
   priority |-> r.priority, gateway |-> r.gateway, createdAt |-> 0, deletedBy |-> Null]

\* The row the upsert of ensureModelBinding leaves: an insert ranks after the
\* rows there are, an update keeps the rank and the deletion columns.
EnsuredBinding(b, r) ==
  [status |-> "active", published |-> TRUE,
   labels |-> r.labels, feature |-> r.feature, priority |-> r.priority, gateway |-> r.gateway,
   createdAt |-> IF binding[b] # Null THEN binding[b].createdAt
                 ELSE Cardinality({x \in Bindings : binding[x] # Null}),
   deletedBy |-> IF binding[b] # Null THEN binding[b].deletedBy ELSE Null]

\* Mutant of ensureModelBinding: no second look at deletedAt after the upsert.
ensureModelBindingUnchecked(c) ==
  LET b == call[c].target IN
  \/ /\ Running(c, "ensureModelBinding", "begun")
     /\ IF Live(account[AccountOf[b]]) /\ (binding[b] = Null \/ Live(binding[b]))
        THEN Proceed(c, "found") ELSE Answer(c, "deleted")
     /\ UNCHANGED tables
  \/ /\ Running(c, "ensureModelBinding", "found")
     /\ SetBinding(b, EnsuredBinding(b, call[c]))
     /\ AnswerOrLose(c, "ok")

ensureModelBinding(c) ==
  LET b == call[c].target IN
  \/ /\ Running(c, "ensureModelBinding", "begun")
     /\ \/ account[AccountOf[b]] = Null /\ Answer(c, "not_found")
        \/ account[AccountOf[b]] # Null /\ ~Live(account[AccountOf[b]]) /\ Answer(c, "deleted")
        \/ Live(account[AccountOf[b]]) /\ Proceed(c, "account_found")
     /\ UNCHANGED tables
  \/ /\ Running(c, "ensureModelBinding", "account_found")
     /\ IF binding[b] # Null /\ ~Live(binding[b])
        THEN Answer(c, "deleted") ELSE Proceed(c, "found")
     /\ UNCHANGED tables
  \/ /\ Running(c, "ensureModelBinding", "found")
     /\ SetBinding(b, EnsuredBinding(b, call[c]))
     /\ AnswerOrLose(c, IF binding'[b].deletedBy = Null THEN "ok" ELSE "deleted")

\* Mutant of setModelBindingStatus: disabling a revision unpublishes it.
setModelBindingStatusUnpublishing(c) ==
  LET b == call[c].target IN
  \/ /\ Running(c, "setModelBindingStatus", "begun")
     /\ FindTarget(c, binding[b], FALSE)
  \/ /\ Running(c, "setModelBindingStatus", "found")
     /\ SetBinding(b, [binding[b] EXCEPT !.status = call[c].status,
                                         !.published = @ /\ call[c].status = "active"])
     /\ AnswerOrLose(c, "ok")

setModelBindingStatus(c) ==
  LET b == call[c].target IN
  \/ /\ Running(c, "setModelBindingStatus", "begun")
     /\ FindTarget(c, binding[b], FALSE)
  \/ /\ Running(c, "setModelBindingStatus", "found")
     /\ SetBinding(b, [binding[b] EXCEPT !.status = call[c].status])
     /\ AnswerOrLose(c, "ok")

deleteModelBinding(c) ==
  LET b == call[c].target IN
  \/ /\ Running(c, "deleteModelBinding", "begun")
     /\ FindTarget(c, binding[b], ~Live(binding[b]))
  \/ /\ Running(c, "deleteModelBinding", "found")
     /\ SetBinding(b, [binding[b] EXCEPT !.deletedBy = call[c].by])
     /\ AnswerOrLose(c, "ok")

restoreModelBinding(c) ==
  LET b == call[c].target IN
  \/ /\ Running(c, "restoreModelBinding", "begun")
     /\ FindTarget(c, binding[b], Live(binding[b]))
  \/ /\ Running(c, "restoreModelBinding", "found")
     /\ SetBinding(b, [binding[b] EXCEPT !.deletedBy = Null])
     /\ AnswerOrLose(c, "ok")

-----------------------------------------------------------------------------
(* Tenant policies.                                                        *)

\* Mutant of Pinnable: a draft may be pinned.
PinnableDraft(b) ==
  Live(binding[b]) /\ TransportOf[b] = "litellm"

\* What upsertTenantModelPolicy asks of a revision before it pins it.
Pinnable(b) ==
  /\ Live(binding[b])
  /\ binding[b].status = "active"
  /\ binding[b].published
  /\ TransportOf[b] = "litellm"

\* Mutants of UpsertedPolicy: a new policy counts from 0; only a call that
\* passes a pin takes a new generation.
UpsertedPolicyFromZero(k, r) ==
  [status |-> r.status, pin |-> IF r.pin = Undefined THEN Null ELSE r.pin,
   generation |-> IF policy[k] = Null THEN 0 ELSE policy[k].generation + 1]

UpsertedPolicySameGeneration(k, r) ==
  IF policy[k] = Null
  THEN [status |-> r.status, pin |-> IF r.pin = Undefined THEN Null ELSE r.pin,
        generation |-> 1]
  ELSE [status |-> r.status, pin |-> IF r.pin = Undefined THEN policy[k].pin ELSE r.pin,
        generation |-> policy[k].generation + (IF r.pin = Undefined THEN 0 ELSE 1)]

\* The upsert: an omitted pin is NULL in a new row and kept in an old one, and
\* every update takes the next generation.
UpsertedPolicy(k, r) ==
  IF policy[k] = Null
  THEN [status |-> r.status, generation |-> 1,
        pin |-> IF r.pin = Undefined THEN Null ELSE r.pin]
  ELSE [status |-> r.status, generation |-> policy[k].generation + 1,
        pin |-> IF r.pin = Undefined THEN policy[k].pin ELSE r.pin]

upsertTenantModelPolicy(c) ==
  \/ /\ Running(c, "upsertTenantModelPolicy", "begun")
     /\ IF call[c].pin \in Bindings /\ ~Pinnable(call[c].pin)
        THEN Answer(c, "not_found") ELSE Proceed(c, "found")
     /\ UNCHANGED tables
  \/ /\ Running(c, "upsertTenantModelPolicy", "found")
     /\ LET k == call[c].target IN
        /\ policy[k] # Null => policy[k].generation < MaxGeneration
        /\ policy' = [policy EXCEPT ![k] = UpsertedPolicy(k, call[c])]
     /\ UNCHANGED <<account, binding, healthState>>
     /\ AnswerOrLose(c, "ok")

-----------------------------------------------------------------------------
\* The catalogue a deployment starts from: the rows the initialisation SQL
\* inserted (some, all or none of them), every account live and of unknown
\* health, every binding a LiteLLM one, a published facade or a disabled draft.
SnapshotBinding ==
  {row \in [status : Status, published : BOOLEAN, labels : LabelSets,
            feature : Features, priority : Priorities, gateway : Gateways,
            createdAt : 0 .. Cardinality(Bindings) - 1, deletedBy : {Null}] :
     row.published <=> row.status = "active"}

Init ==
  /\ account \in [Accounts -> {InsertedAccount, Null}]
  /\ binding \in [Bindings -> SnapshotBinding \cup {Null}]
  /\ \A b \in Bindings : binding[b] # Null =>
       /\ TransportOf[b] = "litellm"
       /\ account[AccountOf[b]] # Null
       /\ \A c \in Bindings \ {b} :
            binding[c] # Null => binding[c].createdAt # binding[b].createdAt
       /\ binding[b].createdAt < Cardinality({c \in Bindings : binding[c] # Null})
  /\ policy = [k \in Tenants \X Labels |-> Null]
  /\ healthState = [a \in Accounts |-> Null]
  /\ call = [c \in Callers |-> Null]
  /\ at = [c \in Callers |-> "idle"]

Next ==
  \E c \in Callers :
    \/ Begin(c) \/ Fail(c)
    \/ ensureProviderAccount(c) \/ setProviderAccountStatus(c)
    \/ setProviderHealthStatus(c)
    \/ deleteProviderAccount(c) \/ restoreProviderAccount(c)
    \/ ensureModelBinding(c) \/ setModelBindingStatus(c)
    \/ deleteModelBinding(c) \/ restoreModelBinding(c)
    \/ upsertTenantModelPolicy(c)

Spec == Init /\ [][Next]_vars

-----------------------------------------------------------------------------
(* What the calls guarantee however their statements interleave.           *)

PublishedLiteLLM(b) ==
  binding[b] # Null /\ binding[b].published /\ TransportOf[b] = "litellm"

\* A policy only ever pins a revision that exists, has been published and is
\* reached through LiteLLM, whatever happened to the revision between the check
\* and the upsert of upsertTenantModelPolicy and in all the calls since.
PinnedRevisionIsPublished ==
  \A k \in Tenants \X Labels :
    policy[k] # Null /\ policy[k].pin # Null => PublishedLiteLLM(policy[k].pin)

EnsuredRow(c) ==
  IF call[c].method = "ensureModelBinding"
  THEN binding'[call[c].target] ELSE account'[call[c].target]

\* An ensure that is answered with a row answers with a live one, even when a
\* delete ran between its check and its upsert (the second look at deletedAt).
AcknowledgedEnsureIsLive ==
  [][\A c \in Callers :
       /\ call[c] # Null
       /\ call[c].method \in {"ensureModelBinding", "ensureProviderAccount"}
       /\ at'[c] = "ok"
       => Live(EnsuredRow(c))]_vars

\* A mutation that throws a lifecycle error has changed no tenant's route,
\* though its upsert may already have written: the invalidation that wraps the
\* repository runs after a mutation returns and is skipped when it throws.
RejectedMutationKeepsRoutes ==
  [][\A c \in Callers :
       call[c] # Null /\ at'[c] \in {"not_found", "deleted"} =>
         \A t \in Tenants, l \in Labels :
           RouteOf(account', binding', policy', t, l)
             = RouteOf(account, binding, policy, t, l)]_vars

\* Only a restore brings a deleted account or binding back, and a row once
\* inserted stays: no upsert and no status write that raced the delete does it.
OnlyRestoreRevives ==
  [][/\ \A a \in Accounts :
          account[a] # Null /\ ~Live(account[a]) /\ account'[a] # account[a] =>
            \/ account'[a] # Null /\ ~Live(account'[a])
            \/ \E c \in Callers : Running(c, "restoreProviderAccount", "found")
     /\ \A b \in Bindings :
          binding[b] # Null /\ ~Live(binding[b]) /\ binding'[b] # binding[b] =>
            \/ binding'[b] # Null /\ ~Live(binding'[b])
            \/ \E c \in Callers : Running(c, "restoreModelBinding", "found")]_vars

\* Two different states of a policy never carry the same generation: every
\* change of the row, by whichever caller, takes a later one.
PolicyChangeTakesNewGeneration ==
  [][\A k \in Tenants \X Labels :
       policy[k] # Null /\ policy'[k] # policy[k] =>
         policy'[k] # Null /\ policy'[k].generation > policy[k].generation]_vars

\* The availability an admin is shown for a binding.
Availability(row) ==
  CASE row = Null -> "absent"
    [] row # Null /\ ~Live(row) -> "retired"
    [] Live(row) /\ row.status = "disabled" -> "disabled"
    [] Live(row) /\ row.status = "active" /\ ~row.published -> "draft"
    [] Live(row) /\ row.status = "active" /\ row.published -> "available"

Lifecycle == INSTANCE RevisionLifecycle WITH
  availability <- [b \in Bindings |-> Availability(binding[b])],
  published <- [b \in Bindings |-> binding[b] # Null /\ binding[b].published]

\* Seen from outside, the interleaved statements of all the calls move every
\* revision through the life RevisionLifecycle gives it and no other.
ImplementsLifecycle == Lifecycle!Spec

-----------------------------------------------------------------------------
(* What the documents say and interleavings, or the code itself, refute.   *)

\* OWNER_AND_MIGRATION.md has the cross-row invariants checked in the
\* transaction that writes: a revision a policy is made to point to is live
\* and active at that write.
PinIsEligibleWhenWritten ==
  [][\A k \in Tenants \X Labels :
       policy'[k] # policy[k] /\ policy'[k].pin \in Bindings
       /\ (policy[k] = Null \/ policy[k].pin # policy'[k].pin)
       => Pinnable(policy'[k].pin)]_vars
=============================================================================

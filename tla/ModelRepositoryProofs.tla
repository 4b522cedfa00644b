----------------------- MODULE ModelRepositoryProofs -----------------------
(***************************************************************************)
(* Theorems about ModelRepository, for any sets of rows, callers, methods  *)
(* and arguments.                                                          *)
(*                                                                         *)
(* The invariants rest on what a call may still rely on when its write     *)
(* runs, long after its check: a row it found is still there, since no     *)
(* method removes one, and a revision it found published still is, since   *)
(* no method takes a publication back.  RowsStay states the two            *)
(* monotonicities.                                                         *)
(*                                                                         *)
(* What a step may never do, and that it is one of RevisionLifecycle, goes *)
(* by what it writes: AccountWritten, BindingWritten and PolicyWritten say *)
(* this once of all the methods, and each theorem then looks at the rows.  *)
(*                                                                         *)
(* The last part is for the modules that read the catalogue: the rows have *)
(* one order, a label has one first route, and a policy never returns to a *)
(* row it has left.                                                        *)
(***************************************************************************)
EXTENDS ModelRepository, Minima

AccountUpdates == {"setProviderAccountStatus", "setProviderHealthStatus",
                   "deleteProviderAccount", "restoreProviderAccount"}
BindingUpdates == {"setModelBindingStatus", "deleteModelBinding", "restoreModelBinding"}

\* The row a call goes on to update is there.
FoundRowExists ==
  \A c \in Callers :
    call[c] # Null /\ at[c] = "found" =>
      /\ call[c].method \in AccountUpdates => account[call[c].target] # Null
      /\ call[c].method \in BindingUpdates => binding[call[c].target] # Null

\* The pin a call goes on to write is published.
FoundPinIsPublished ==
  \A c \in Callers :
    Running(c, "upsertTenantModelPolicy", "found") /\ call[c].pin \in Bindings =>
      PublishedLiteLLM(call[c].pin)

IInv ==
  TypeOK /\ FoundRowExists /\ FoundPinIsPublished /\ PinnedRevisionIsPublished

TablesOK ==
  /\ account \in [Accounts -> AccountRow \cup {Null}]
  /\ binding \in [Bindings -> BindingRow \cup {Null}]
  /\ policy \in [Tenants \X Labels -> PolicyRow \cup {Null}]
  /\ healthState \in [Accounts -> Health \cup {Null}]

CallsOK ==
  /\ call \in [Callers -> Requests \cup {Null}]
  /\ at \in [Callers -> Stages \cup Replies \cup {"idle"}]

-----------------------------------------------------------------------------
(* The arguments of a call have their types.                               *)

LEMMA AccountTarget ==
  ASSUME NEW r \in Requests,
         r.method \in AccountUpdates \cup {"ensureProviderAccount"}
  PROVE  /\ r.target \in Accounts
         /\ r.method = "setProviderAccountStatus" => r.status \in Status
         /\ r.method = "setProviderHealthStatus" => r.status \in Health
         /\ r.method = "deleteProviderAccount" => r.by \in Operators
BY DEF Requests, EnsureRequests, AccountRequests, BindingRequests, PolicyRequests,
       AccountUpdates

LEMMA BindingTarget ==
  ASSUME NEW r \in Requests,
         r.method \in BindingUpdates \cup {"ensureModelBinding"}
  PROVE  /\ r.target \in Bindings
         /\ r.method = "setModelBindingStatus" => r.status \in Status
         /\ r.method = "deleteModelBinding" => r.by \in Operators
         /\ r.method = "ensureModelBinding" =>
              /\ r.labels \in LabelSets
              /\ r.feature \in Features
              /\ r.priority \in Priorities
              /\ r.gateway \in Gateways \cup {Null}
BY DEF Requests, EnsureRequests, AccountRequests, BindingRequests, PolicyRequests,
       BindingUpdates

LEMMA PolicyTarget ==
  ASSUME NEW r \in Requests, r.method = "upsertTenantModelPolicy"
  PROVE  /\ r.target \in Tenants \X Labels
         /\ r.status \in Visibility
         /\ r.pin \in Bindings \cup {Null, Undefined}
BY DEF Requests, EnsureRequests, AccountRequests, BindingRequests, PolicyRequests

-----------------------------------------------------------------------------
(* Steps that only move a call.                                            *)

LEMMA AnswerType ==
  ASSUME CallsOK, NEW c \in Callers, NEW reply \in Replies, Answer(c, reply)
  PROVE  CallsOK'
BY DEF CallsOK, Answer

LEMMA ProceedType ==
  ASSUME CallsOK, NEW c \in Callers, NEW stage \in Stages, Proceed(c, stage)
  PROVE  CallsOK'
BY DEF CallsOK, Proceed

LEMMA FindTargetType ==
  ASSUME CallsOK, NEW c \in Callers, NEW row, NEW settled, FindTarget(c, row, settled)
  PROVE  CallsOK'
BY AnswerType, ProceedType DEF FindTarget, Replies, Stages

LEMMA AnswerOrLoseType ==
  ASSUME CallsOK, NEW c \in Callers, NEW reply \in Replies, AnswerOrLose(c, reply)
  PROVE  CallsOK'
BY AnswerType DEF AnswerOrLose, Replies

-----------------------------------------------------------------------------
(* Steps that write a row.                                                 *)

\* No row goes, and no publication is taken back.
RowsStay ==
  /\ \A a \in Accounts : account[a] # Null => account'[a] # Null
  /\ \A b \in Bindings : binding[b] # Null => binding'[b] # Null
  /\ \A b \in Bindings : PublishedLiteLLM(b) => PublishedLiteLLM(b)'

LEMMA TablesUnchanged ==
  ASSUME TablesOK, UNCHANGED tables
  PROVE  TablesOK' /\ RowsStay
BY DEF TablesOK, tables, RowsStay, PublishedLiteLLM

LEMMA SetAccountOK ==
  ASSUME TablesOK, NEW a \in Accounts, NEW row \in AccountRow, SetAccount(a, row)
  PROVE  TablesOK' /\ RowsStay
<1>1. row # Null
  BY CatalogAssumption
<1>. QED  BY <1>1 DEF TablesOK, SetAccount, RowsStay, PublishedLiteLLM

LEMMA SetBindingOK ==
  ASSUME TablesOK, NEW b \in Bindings, NEW row \in BindingRow, SetBinding(b, row),
         PublishedLiteLLM(b) => row.published
  PROVE  TablesOK' /\ RowsStay
<1>1. row # Null
  BY CatalogAssumption
<1>. QED  BY <1>1 DEF TablesOK, SetBinding, RowsStay, PublishedLiteLLM

\* A column written in a row that is there leaves a row.
LEMMA AccountColumns ==
  ASSUME NEW row \in AccountRow
  PROVE  /\ \A s \in Status : [row EXCEPT !.status = s] \in AccountRow
         /\ \A h \in Health : [row EXCEPT !.health = h] \in AccountRow
         /\ \A o \in Operators \cup {Null} : [row EXCEPT !.deletedBy = o] \in AccountRow
BY DEF AccountRow

LEMMA BindingColumns ==
  ASSUME NEW row \in BindingRow
  PROVE  /\ \A s \in Status :
              /\ [row EXCEPT !.status = s] \in BindingRow
              /\ [row EXCEPT !.status = s].published = row.published
         /\ \A o \in Operators \cup {Null} :
              /\ [row EXCEPT !.deletedBy = o] \in BindingRow
              /\ [row EXCEPT !.deletedBy = o].published = row.published
BY DEF BindingRow

\* The row an ensure leaves is one, whether it was inserted or updated.
LEMMA EnsuredBindingOK ==
  ASSUME TablesOK, NEW r \in Requests, r.method = "ensureModelBinding"
  PROVE  /\ EnsuredBinding(r.target, r) \in BindingRow
         /\ EnsuredBinding(r.target, r).published
<1>1. /\ r.target \in Bindings
      /\ r.labels \in SUBSET Labels
      /\ r.feature \in Features
      /\ r.priority \in Priorities
      /\ r.gateway \in Gateways \cup {Null}
  BY BindingTarget, RepositoryAssumption
<1>2. Cardinality({x \in Bindings : binding[x] # Null}) \in Nat
  BY CatalogAssumption, FS_Subset, FS_CardinalityType
<1>3. CASE binding[r.target] = Null
  BY <1>1, <1>2, <1>3 DEF EnsuredBinding, BindingRow, Status
<1>4. CASE binding[r.target] # Null
  <2>1. binding[r.target] \in BindingRow
    BY <1>1, <1>4 DEF TablesOK
  <2>2. binding[r.target].createdAt \in Nat /\ binding[r.target].deletedBy \in Operators \cup {Null}
    BY <2>1 DEF BindingRow
  <2>. QED  BY <1>1, <1>4, <2>2 DEF EnsuredBinding, BindingRow, Status
<1>. QED  BY <1>3, <1>4

\* The row an upsert of a policy leaves is one.
LEMMA UpsertedPolicyOK ==
  ASSUME TablesOK, NEW r \in Requests, r.method = "upsertTenantModelPolicy"
  PROVE  UpsertedPolicy(r.target, r) \in PolicyRow
<1>1. /\ r.target \in Tenants \X Labels
      /\ r.status \in Visibility
      /\ r.pin \in Bindings \cup {Null, Undefined}
  BY PolicyTarget
<1>2. CASE policy[r.target] = Null
  BY <1>1, <1>2 DEF UpsertedPolicy, PolicyRow
<1>3. CASE policy[r.target] # Null
  <2>1. policy[r.target] \in PolicyRow
    BY <1>1, <1>3 DEF TablesOK
  <2>2. policy[r.target].generation \in Nat \ {0} /\ policy[r.target].pin \in Bindings \cup {Null}
    BY <2>1 DEF PolicyRow
  <2>. QED  BY <1>1, <1>3, <2>2 DEF UpsertedPolicy, PolicyRow
<1>. QED  BY <1>2, <1>3

-----------------------------------------------------------------------------
(* One lemma per method.                                                   *)

Safe == TablesOK' /\ CallsOK' /\ RowsStay

LEMMA FindOK ==
  ASSUME TypeOK, NEW c \in Callers, NEW row, NEW settled, FindTarget(c, row, settled)
  PROVE  Safe
<1>1. TablesOK /\ CallsOK
  BY DEF TypeOK, TablesOK, CallsOK
<1>2. UNCHANGED tables
  BY DEF FindTarget
<1>. QED  BY <1>1, <1>2, TablesUnchanged, FindTargetType DEF Safe

LEMMA EnsureProviderAccountOK ==
  ASSUME TypeOK, NEW c \in Callers, ensureProviderAccount(c)
  PROVE  Safe
<1>. DEFINE a == call[c].target
<1>0. TablesOK /\ CallsOK
  BY DEF TypeOK, TablesOK, CallsOK
<1>1. CASE Running(c, "ensureProviderAccount", "begun") /\ UNCHANGED tables
  <2>1. Answer(c, "deleted") \/ Proceed(c, "found")
    BY <1>1 DEF ensureProviderAccount, Running
  <2>2. CallsOK'
    BY <1>0, <2>1, AnswerType, ProceedType DEF Replies, Stages
  <2>. QED  BY <1>0, <1>1, <2>2, TablesUnchanged DEF Safe
<1>2. CASE Running(c, "ensureProviderAccount", "found")
  <2>1. call[c] \in Requests /\ call[c].method = "ensureProviderAccount"
    BY <1>0, <1>2 DEF Running, CallsOK
  <2>2. a \in Accounts
    BY <2>1, AccountTarget
  <2>3. AnswerOrLose(c, IF account'[a].deletedBy = Null THEN "ok" ELSE "deleted")
    BY <1>2 DEF ensureProviderAccount, Running
  <2>4. CallsOK'
    BY <1>0, <2>3, AnswerOrLoseType DEF Replies
  <2>5. CASE account[a] = Null
    <3>1. SetAccount(a, InsertedAccount)
      BY <1>2, <2>5 DEF ensureProviderAccount, Running
    <3>2. InsertedAccount \in AccountRow
      BY DEF InsertedAccount, AccountRow, Status, Health
    <3>. QED  BY <1>0, <2>2, <2>4, <3>1, <3>2, SetAccountOK DEF Safe
  <2>6. CASE account[a] # Null
    <3>1. SetAccount(a, [account[a] EXCEPT !.status = "active"])
      BY <1>2, <2>6 DEF ensureProviderAccount, Running
    <3>2. [account[a] EXCEPT !.status = "active"] \in AccountRow
      BY <1>0, <2>2, <2>6, AccountColumns DEF TablesOK, Status
    <3>. QED  BY <1>0, <2>2, <2>4, <3>1, <3>2, SetAccountOK DEF Safe
  <2>. QED  BY <2>5, <2>6
<1>. QED  BY <1>1, <1>2 DEF ensureProviderAccount

\* The four methods that find an account and update one of its columns.
LEMMA AccountUpdateOK ==
  ASSUME TypeOK, FoundRowExists, NEW c \in Callers,
         \/ setProviderAccountStatus(c) \/ setProviderHealthStatus(c)
         \/ deleteProviderAccount(c) \/ restoreProviderAccount(c)
  PROVE  Safe
<1>. DEFINE a == call[c].target
<1>0. TablesOK /\ CallsOK
  BY DEF TypeOK, TablesOK, CallsOK
<1>1. ASSUME NEW m \in AccountUpdates, Running(c, m, "found")
      PROVE  a \in Accounts /\ account[a] \in AccountRow /\ call[c] \in Requests
  <2>1. call[c] \in Requests /\ call[c].method = m
    BY <1>0, <1>1 DEF Running, CallsOK
  <2>2. a \in Accounts
    BY <2>1, AccountTarget
  <2>. QED  BY <1>0, <1>1, <2>1, <2>2 DEF FoundRowExists, Running, TablesOK
<1>2. ASSUME NEW row \in AccountRow, a \in Accounts, SetAccount(a, row), AnswerOrLose(c, "ok")
      PROVE  Safe
  BY <1>0, <1>2, SetAccountOK, AnswerOrLoseType DEF Safe, Replies
<1>3. CASE setProviderAccountStatus(c)
  <2>1. CASE Running(c, "setProviderAccountStatus", "found")
    <3>1. a \in Accounts /\ account[a] \in AccountRow /\ call[c] \in Requests
      BY <1>1, <2>1 DEF AccountUpdates
    <3>2. call[c].status \in Status
      BY <2>1, <3>1, AccountTarget DEF Running, AccountUpdates
    <3>. QED
      BY <1>2, <1>3, <2>1, <3>1, <3>2, AccountColumns DEF setProviderAccountStatus, Running
  <2>. QED  BY <1>3, <2>1, FindOK DEF setProviderAccountStatus
<1>4. CASE setProviderHealthStatus(c)
  <2>1. CASE Running(c, "setProviderHealthStatus", "found")
    <3>1. a \in Accounts /\ account[a] \in AccountRow /\ call[c] \in Requests
      BY <1>1, <2>1 DEF AccountUpdates
    <3>2. call[c].status \in Health
      BY <2>1, <3>1, AccountTarget DEF Running, AccountUpdates
    <3>3. /\ account' = [account EXCEPT ![a] = [account[a] EXCEPT !.health = call[c].status]]
          /\ healthState' = [healthState EXCEPT ![a] = call[c].status]
          /\ UNCHANGED <<binding, policy>>
          /\ AnswerOrLose(c, "ok")
      BY <1>4, <2>1 DEF setProviderHealthStatus, Running
    <3>4. [account[a] EXCEPT !.health = call[c].status] \in AccountRow \ {Null}
      BY <3>1, <3>2, AccountColumns, CatalogAssumption
    <3>5. TablesOK' /\ RowsStay
      BY <1>0, <3>1, <3>2, <3>3, <3>4 DEF TablesOK, RowsStay, PublishedLiteLLM
    <3>. QED  BY <1>0, <3>3, <3>5, AnswerOrLoseType DEF Safe, Replies
  <2>. QED  BY <1>4, <2>1, FindOK DEF setProviderHealthStatus
<1>5. CASE deleteProviderAccount(c)
  <2>1. CASE Running(c, "deleteProviderAccount", "found")
    <3>1. a \in Accounts /\ account[a] \in AccountRow /\ call[c] \in Requests
      BY <1>1, <2>1 DEF AccountUpdates
    <3>2. call[c].by \in Operators
      BY <2>1, <3>1, AccountTarget DEF Running, AccountUpdates
    <3>. QED
      BY <1>2, <1>5, <2>1, <3>1, <3>2, AccountColumns DEF deleteProviderAccount, Running
  <2>. QED  BY <1>5, <2>1, FindOK DEF deleteProviderAccount
<1>6. CASE restoreProviderAccount(c)
  <2>1. CASE Running(c, "restoreProviderAccount", "found")
    <3>1. a \in Accounts /\ account[a] \in AccountRow
      BY <1>1, <2>1 DEF AccountUpdates
    <3>. QED
      BY <1>2, <1>6, <2>1, <3>1, AccountColumns DEF restoreProviderAccount, Running
  <2>. QED  BY <1>6, <2>1, FindOK DEF restoreProviderAccount
<1>. QED  BY <1>3, <1>4, <1>5, <1>6

LEMMA EnsureModelBindingOK ==
  ASSUME TypeOK, NEW c \in Callers, ensureModelBinding(c)
  PROVE  Safe
<1>. DEFINE b == call[c].target
<1>0. TablesOK /\ CallsOK
  BY DEF TypeOK, TablesOK, CallsOK
<1>1. CASE Running(c, "ensureModelBinding", "begun") \/ Running(c, "ensureModelBinding", "account_found")
  <2>1. /\ UNCHANGED tables
        /\ \/ Answer(c, "not_found") \/ Answer(c, "deleted")
           \/ Proceed(c, "account_found") \/ Proceed(c, "found")
    BY <1>1 DEF ensureModelBinding, Running
  <2>2. CallsOK'
    BY <1>0, <2>1, AnswerType, ProceedType DEF Replies, Stages
  <2>. QED  BY <1>0, <2>1, <2>2, TablesUnchanged DEF Safe
<1>2. CASE Running(c, "ensureModelBinding", "found")
  <2>1. call[c] \in Requests /\ call[c].method = "ensureModelBinding"
    BY <1>0, <1>2 DEF Running, CallsOK
  <2>2. b \in Bindings
    BY <2>1, BindingTarget
  <2>3. /\ SetBinding(b, EnsuredBinding(b, call[c]))
        /\ AnswerOrLose(c, IF binding'[b].deletedBy = Null THEN "ok" ELSE "deleted")
    BY <1>2 DEF ensureModelBinding, Running
  <2>4. TablesOK' /\ RowsStay
    BY <1>0, <2>1, <2>2, <2>3, EnsuredBindingOK, SetBindingOK
  <2>5. CallsOK'
    BY <1>0, <2>3, AnswerOrLoseType DEF Replies
  <2>. QED  BY <2>4, <2>5 DEF Safe
<1>. QED  BY <1>1, <1>2 DEF ensureModelBinding

\* The three methods that find a binding and update one of its columns.
LEMMA BindingUpdateOK ==
  ASSUME TypeOK, FoundRowExists, NEW c \in Callers,
         setModelBindingStatus(c) \/ deleteModelBinding(c) \/ restoreModelBinding(c)
  PROVE  Safe
<1>. DEFINE b == call[c].target
<1>0. TablesOK /\ CallsOK
  BY DEF TypeOK, TablesOK, CallsOK
<1>1. ASSUME NEW m \in BindingUpdates, Running(c, m, "found")
      PROVE  b \in Bindings /\ binding[b] \in BindingRow /\ call[c] \in Requests
  <2>1. call[c] \in Requests /\ call[c].method = m
    BY <1>0, <1>1 DEF Running, CallsOK
  <2>2. b \in Bindings
    BY <2>1, BindingTarget
  <2>. QED  BY <1>0, <1>1, <2>1, <2>2 DEF FoundRowExists, Running, TablesOK
<1>2. ASSUME NEW row \in BindingRow, b \in Bindings, SetBinding(b, row),
             row.published = binding[b].published, AnswerOrLose(c, "ok")
      PROVE  Safe
  BY <1>0, <1>2, SetBindingOK, AnswerOrLoseType DEF Safe, Replies, PublishedLiteLLM
<1>3. CASE setModelBindingStatus(c)
  <2>1. CASE Running(c, "setModelBindingStatus", "found")
    <3>1. b \in Bindings /\ binding[b] \in BindingRow /\ call[c] \in Requests
      BY <1>1, <2>1 DEF BindingUpdates
    <3>2. call[c].status \in Status
      BY <2>1, <3>1, BindingTarget DEF Running, BindingUpdates
    <3>. QED
      BY <1>2, <1>3, <2>1, <3>1, <3>2, BindingColumns DEF setModelBindingStatus, Running
  <2>. QED  BY <1>3, <2>1, FindOK DEF setModelBindingStatus
<1>4. CASE deleteModelBinding(c)
  <2>1. CASE Running(c, "deleteModelBinding", "found")
    <3>1. b \in Bindings /\ binding[b] \in BindingRow /\ call[c] \in Requests
      BY <1>1, <2>1 DEF BindingUpdates
    <3>2. call[c].by \in Operators
      BY <2>1, <3>1, BindingTarget DEF Running, BindingUpdates
    <3>. QED
      BY <1>2, <1>4, <2>1, <3>1, <3>2, BindingColumns DEF deleteModelBinding, Running
  <2>. QED  BY <1>4, <2>1, FindOK DEF deleteModelBinding
<1>5. CASE restoreModelBinding(c)
  <2>1. CASE Running(c, "restoreModelBinding", "found")
    <3>1. b \in Bindings /\ binding[b] \in BindingRow
      BY <1>1, <2>1 DEF BindingUpdates
    <3>. QED
      BY <1>2, <1>5, <2>1, <3>1, BindingColumns DEF restoreModelBinding, Running
  <2>. QED  BY <1>5, <2>1, FindOK DEF restoreModelBinding
<1>. QED  BY <1>3, <1>4, <1>5

LEMMA UpsertTenantModelPolicyOK ==
  ASSUME TypeOK, NEW c \in Callers, upsertTenantModelPolicy(c)
  PROVE  Safe
<1>0. TablesOK /\ CallsOK
  BY DEF TypeOK, TablesOK, CallsOK
<1>1. CASE Running(c, "upsertTenantModelPolicy", "begun")
  <2>1. UNCHANGED tables /\ (Answer(c, "not_found") \/ Proceed(c, "found"))
    BY <1>1 DEF upsertTenantModelPolicy, Running
  <2>2. CallsOK'
    BY <1>0, <2>1, AnswerType, ProceedType DEF Replies, Stages
  <2>. QED  BY <1>0, <2>1, <2>2, TablesUnchanged DEF Safe
<1>2. CASE Running(c, "upsertTenantModelPolicy", "found")
  <2>. DEFINE k == call[c].target
  <2>1. call[c] \in Requests /\ call[c].method = "upsertTenantModelPolicy"
    BY <1>0, <1>2 DEF Running, CallsOK
  <2>2. /\ policy' = [policy EXCEPT ![k] = UpsertedPolicy(k, call[c])]
        /\ UNCHANGED <<account, binding, healthState>>
        /\ AnswerOrLose(c, "ok")
    BY <1>2 DEF upsertTenantModelPolicy, Running
  <2>3. UpsertedPolicy(k, call[c]) \in PolicyRow
    BY <1>0, <2>1, UpsertedPolicyOK
  <2>4. TablesOK' /\ RowsStay
    BY <1>0, <2>2, <2>3 DEF TablesOK, RowsStay, PublishedLiteLLM
  <2>. QED  BY <1>0, <2>2, <2>4, AnswerOrLoseType DEF Safe, Replies
<1>. QED  BY <1>1, <1>2 DEF upsertTenantModelPolicy

LEMMA BeginFailOK ==
  ASSUME TypeOK, NEW c \in Callers, Begin(c) \/ Fail(c)
  PROVE  Safe
<1>0. TablesOK /\ CallsOK
  BY DEF TypeOK, TablesOK, CallsOK
<1>1. UNCHANGED tables
  BY DEF Begin, Fail
<1>2. CASE Begin(c)
  BY <1>0, <1>1, <1>2, TablesUnchanged DEF Begin, CallsOK, Stages, Safe
<1>3. CASE Fail(c)
  BY <1>0, <1>1, <1>3, TablesUnchanged, AnswerType DEF Fail, Replies, Safe
<1>. QED  BY <1>2, <1>3

LEMMA StepOK ==
  ASSUME TypeOK, FoundRowExists, NEW c \in Callers,
         \/ Begin(c) \/ Fail(c)
         \/ ensureProviderAccount(c) \/ setProviderAccountStatus(c)
         \/ setProviderHealthStatus(c)
         \/ deleteProviderAccount(c) \/ restoreProviderAccount(c)
         \/ ensureModelBinding(c) \/ setModelBindingStatus(c)
         \/ deleteModelBinding(c) \/ restoreModelBinding(c)
         \/ upsertTenantModelPolicy(c)
  PROVE  Safe
BY BeginFailOK, EnsureProviderAccountOK, AccountUpdateOK, EnsureModelBindingOK,
   BindingUpdateOK, UpsertTenantModelPolicyOK

LEMMA NextOK ==
  ASSUME TypeOK, FoundRowExists, [Next]_vars
  PROVE  Safe
<1>1. CASE UNCHANGED vars
  <2>1. TablesOK /\ CallsOK /\ UNCHANGED tables
    BY <1>1 DEF TypeOK, TablesOK, CallsOK, vars, tables
  <2>2. CallsOK'
    BY <1>1, <2>1 DEF CallsOK, vars
  <2>. QED  BY <2>1, <2>2, TablesUnchanged DEF Safe
<1>2. CASE Next
  BY <1>2, StepOK DEF Next
<1>. QED  BY <1>1, <1>2

-----------------------------------------------------------------------------
(* What a call knows when it goes on to its write.                         *)

\* A step of c leaves the other calls alone, and sends c on to its write only
\* with the row it found, or the pin it checked, in the tables as they are.
KeepsFound(c) ==
  /\ \A d \in Callers \ {c} : call'[d] = call[d] /\ at'[d] = at[d]
  /\ call'[c] # Null /\ at'[c] = "found" =>
       /\ call'[c].method \in AccountUpdates => account'[call'[c].target] # Null
       /\ call'[c].method \in BindingUpdates => binding'[call'[c].target] # Null
       /\ call'[c].method = "upsertTenantModelPolicy" /\ call'[c].pin \in Bindings =>
            PublishedLiteLLM(call[c].pin)'

LEMMA AnswerMoves ==
  ASSUME CallsOK, NEW c \in Callers, NEW reply, AnswerOrLose(c, reply) \/ Answer(c, reply)
  PROVE  KeepsFound(c)
BY DEF CallsOK, AnswerOrLose, Answer, KeepsFound

LEMMA FindMoves ==
  ASSUME CallsOK, NEW c \in Callers, NEW row, NEW settled, FindTarget(c, row, settled),
         call[c].method \in AccountUpdates => row = account[call[c].target],
         call[c].method \in BindingUpdates => row = binding[call[c].target],
         call[c].method # "upsertTenantModelPolicy"
  PROVE  KeepsFound(c)
<1>1. CASE Answer(c, "not_found") \/ Answer(c, "ok")
  BY <1>1, AnswerMoves
<1>2. CASE row # Null /\ Proceed(c, "found") /\ UNCHANGED tables
  BY <1>2 DEF CallsOK, Proceed, KeepsFound, tables
<1>. QED  BY <1>1, <1>2 DEF FindTarget

\* A call that goes on with nothing to remember of the tables.
LEMMA ProceedMoves ==
  ASSUME CallsOK, NEW c \in Callers, NEW stage, Proceed(c, stage),
         stage # "found" \/ call[c].method \in {"ensureProviderAccount", "ensureModelBinding"}
  PROVE  KeepsFound(c)
BY DEF CallsOK, Proceed, KeepsFound, AccountUpdates, BindingUpdates

LEMMA AccountMoves ==
  ASSUME CallsOK, NEW c \in Callers,
         \/ ensureProviderAccount(c) \/ setProviderAccountStatus(c)
         \/ setProviderHealthStatus(c)
         \/ deleteProviderAccount(c) \/ restoreProviderAccount(c)
  PROVE  KeepsFound(c)
<1>1. CASE ensureProviderAccount(c)
  BY <1>1, AnswerMoves, ProceedMoves DEF ensureProviderAccount, Running
<1>2. CASE setProviderAccountStatus(c)
  BY <1>2, AnswerMoves, FindMoves
  DEF setProviderAccountStatus, Running, AccountUpdates, BindingUpdates
<1>3. CASE setProviderHealthStatus(c)
  BY <1>3, AnswerMoves, FindMoves
  DEF setProviderHealthStatus, Running, AccountUpdates, BindingUpdates
<1>4. CASE deleteProviderAccount(c)
  BY <1>4, AnswerMoves, FindMoves
  DEF deleteProviderAccount, Running, AccountUpdates, BindingUpdates
<1>5. CASE restoreProviderAccount(c)
  BY <1>5, AnswerMoves, FindMoves
  DEF restoreProviderAccount, Running, AccountUpdates, BindingUpdates
<1>. QED  BY <1>1, <1>2, <1>3, <1>4, <1>5

LEMMA BindingMoves ==
  ASSUME CallsOK, NEW c \in Callers,
         \/ ensureModelBinding(c) \/ setModelBindingStatus(c)
         \/ deleteModelBinding(c) \/ restoreModelBinding(c)
  PROVE  KeepsFound(c)
<1>1. CASE ensureModelBinding(c)
  BY <1>1, AnswerMoves, ProceedMoves DEF ensureModelBinding, Running
<1>2. CASE setModelBindingStatus(c)
  BY <1>2, AnswerMoves, FindMoves
  DEF setModelBindingStatus, Running, AccountUpdates, BindingUpdates
<1>3. CASE deleteModelBinding(c)
  BY <1>3, AnswerMoves, FindMoves
  DEF deleteModelBinding, Running, AccountUpdates, BindingUpdates
<1>4. CASE restoreModelBinding(c)
  BY <1>4, AnswerMoves, FindMoves
  DEF restoreModelBinding, Running, AccountUpdates, BindingUpdates
<1>. QED  BY <1>1, <1>2, <1>3, <1>4

LEMMA OtherMoves ==
  ASSUME CallsOK, NEW c \in Callers, Begin(c) \/ Fail(c) \/ upsertTenantModelPolicy(c)
  PROVE  KeepsFound(c)
<1>1. CASE Begin(c)
  BY <1>1 DEF CallsOK, Begin, KeepsFound
<1>2. CASE Fail(c)
  BY <1>2, AnswerMoves DEF Fail
<1>3. CASE upsertTenantModelPolicy(c)
  <2>1. CASE Running(c, "upsertTenantModelPolicy", "begun")
    <3>1. UNCHANGED tables
      BY <1>3, <2>1 DEF upsertTenantModelPolicy, Running
    <3>2. CASE Answer(c, "not_found")
      BY <3>2, AnswerMoves
    <3>3. CASE Proceed(c, "found") /\ (call[c].pin \in Bindings => Pinnable(call[c].pin))
      <4>1. call'[c] = call[c] /\ call[c].method = "upsertTenantModelPolicy"
        BY <2>1, <3>3 DEF Running, Proceed
      <4>2. call[c].pin \in Bindings => PublishedLiteLLM(call[c].pin)
        BY <3>3 DEF Pinnable, PublishedLiteLLM, Live
      <4>3. binding' = binding
        BY <3>1 DEF tables
      <4>. QED
        BY <3>3, <4>1, <4>2, <4>3
        DEF CallsOK, Proceed, KeepsFound, AccountUpdates, BindingUpdates, PublishedLiteLLM
    <3>. QED  BY <1>3, <2>1, <3>2, <3>3 DEF upsertTenantModelPolicy, Running
  <2>2. CASE Running(c, "upsertTenantModelPolicy", "found")
    BY <1>3, <2>2, AnswerMoves DEF upsertTenantModelPolicy, Running
  <2>. QED  BY <1>3, <2>1, <2>2 DEF upsertTenantModelPolicy
<1>. QED  BY <1>1, <1>2, <1>3

LEMMA NextFound ==
  ASSUME TypeOK, FoundRowExists, FoundPinIsPublished, [Next]_vars
  PROVE  FoundRowExists' /\ FoundPinIsPublished'
<1>1. RowsStay /\ CallsOK
  BY NextOK DEF Safe, TypeOK, CallsOK
<1>2. ASSUME NEW d \in Callers, call'[d] = call[d], at'[d] = at[d], call[d] # Null, at[d] = "found"
      PROVE  /\ call[d].method \in AccountUpdates => account'[call[d].target] # Null
             /\ call[d].method \in BindingUpdates => binding'[call[d].target] # Null
             /\ call[d].method = "upsertTenantModelPolicy" /\ call[d].pin \in Bindings =>
                  PublishedLiteLLM(call[d].pin)'
  <2>1. call[d] \in Requests
    BY <1>1, <1>2 DEF CallsOK
  <2>2. call[d].method \in AccountUpdates => call[d].target \in Accounts
    BY <2>1, AccountTarget
  <2>3. call[d].method \in BindingUpdates => call[d].target \in Bindings
    BY <2>1, BindingTarget
  <2>. QED
    BY <1>1, <1>2, <2>2, <2>3 DEF FoundRowExists, FoundPinIsPublished, Running, RowsStay
<1>3. CASE UNCHANGED vars
  BY <1>2, <1>3 DEF vars, FoundRowExists, FoundPinIsPublished, Running
<1>4. ASSUME NEW c \in Callers, KeepsFound(c)
      PROVE  FoundRowExists' /\ FoundPinIsPublished'
  BY <1>2, <1>4 DEF KeepsFound, FoundRowExists, FoundPinIsPublished, Running
<1>. QED
  BY <1>1, <1>3, <1>4, AccountMoves, BindingMoves, OtherMoves DEF Next

\* A policy gets its pin from the call that writes it, or keeps the one it has.
LEMMA NextPinned ==
  ASSUME TypeOK, FoundRowExists, FoundPinIsPublished, PinnedRevisionIsPublished, [Next]_vars
  PROVE  PinnedRevisionIsPublished'
<1>1. RowsStay
  BY NextOK DEF Safe
<1>2. CASE UNCHANGED policy
  <2>. SUFFICES ASSUME NEW k \in Tenants \X Labels, policy[k] # Null, policy[k].pin # Null
                PROVE  PublishedLiteLLM(policy[k].pin)'
    BY <1>2 DEF PinnedRevisionIsPublished
  <2>1. policy[k].pin \in Bindings
    BY DEF TypeOK, PolicyRow
  <2>. QED
    BY <1>1, <1>2, <2>1 DEF PinnedRevisionIsPublished, RowsStay, PublishedLiteLLM
<1>3. ASSUME NEW c \in Callers, Running(c, "upsertTenantModelPolicy", "found"),
             upsertTenantModelPolicy(c)
      PROVE  PinnedRevisionIsPublished'
  <2>. DEFINE t == call[c].target
  <2>1. /\ policy' = [policy EXCEPT ![t] = UpsertedPolicy(t, call[c])]
        /\ binding' = binding
    BY <1>3 DEF upsertTenantModelPolicy, Running
  <2>2. /\ call[c] \in Requests
        /\ call[c].method = "upsertTenantModelPolicy"
    BY <1>3 DEF TypeOK, Running
  <2>3. t \in Tenants \X Labels /\ call[c].pin \in Bindings \cup {Null, Undefined}
    BY <2>2, PolicyTarget
  <2>4. \/ UpsertedPolicy(t, call[c]).pin = Null
        \/ UpsertedPolicy(t, call[c]).pin = call[c].pin /\ call[c].pin \in Bindings
        \/ UpsertedPolicy(t, call[c]).pin = policy[t].pin /\ policy[t] # Null
    BY <2>3 DEF UpsertedPolicy
  <2>5. ASSUME NEW k \in Tenants \X Labels, policy'[k] # Null, policy'[k].pin # Null
        PROVE  PublishedLiteLLM(policy'[k].pin)
    <3>1. CASE k = t
      BY <1>3, <2>1, <2>3, <2>4, <2>5, <3>1
      DEF TypeOK, PinnedRevisionIsPublished, FoundPinIsPublished
    <3>2. CASE k # t
      BY <2>1, <2>3, <2>5, <3>2 DEF TypeOK, PinnedRevisionIsPublished
    <3>. QED  BY <3>1, <3>2
  <2>. QED  BY <2>1, <2>5 DEF PinnedRevisionIsPublished, PublishedLiteLLM
<1>4. ASSUME NEW c \in Callers, upsertTenantModelPolicy(c)
      PROVE  Running(c, "upsertTenantModelPolicy", "found") \/ UNCHANGED policy
  BY <1>4 DEF upsertTenantModelPolicy, tables
<1>5. ASSUME NEW c \in Callers,
             \/ Begin(c) \/ Fail(c)
             \/ ensureProviderAccount(c) \/ setProviderAccountStatus(c)
             \/ setProviderHealthStatus(c)
             \/ deleteProviderAccount(c) \/ restoreProviderAccount(c)
             \/ ensureModelBinding(c) \/ setModelBindingStatus(c)
             \/ deleteModelBinding(c) \/ restoreModelBinding(c)
      PROVE  UNCHANGED policy
  BY <1>5
  DEF Begin, Fail, FindTarget, SetAccount, SetBinding, tables,
      ensureProviderAccount, setProviderAccountStatus, setProviderHealthStatus,
      deleteProviderAccount, restoreProviderAccount, ensureModelBinding,
      setModelBindingStatus, deleteModelBinding, restoreModelBinding
<1>. QED  BY <1>2, <1>3, <1>4, <1>5 DEF Next, vars

-----------------------------------------------------------------------------
LEMMA InitIInv == Init => IInv
<1>. SUFFICES ASSUME Init PROVE IInv
  OBVIOUS
<1>1. account \in [Accounts -> AccountRow \cup {Null}]
  BY DEF Init, InsertedAccount, AccountRow, Status, Health
<1>2. binding \in [Bindings -> BindingRow \cup {Null}]
  <2>1. SnapshotBinding \subseteq BindingRow
    <3>1. Cardinality(Bindings) \in Nat
      BY CatalogAssumption, FS_CardinalityType
    <3>. QED  BY <3>1, RepositoryAssumption DEF SnapshotBinding, BindingRow
  <2>. QED  BY <2>1 DEF Init
<1>3. TypeOK
  BY <1>1, <1>2 DEF Init, TypeOK
<1>4. FoundRowExists /\ FoundPinIsPublished /\ PinnedRevisionIsPublished
  BY DEF Init, FoundRowExists, FoundPinIsPublished, PinnedRevisionIsPublished, Running
<1>. QED  BY <1>3, <1>4 DEF IInv

LEMMA NextIInv == IInv /\ [Next]_vars => IInv'
<1>. SUFFICES ASSUME IInv, [Next]_vars PROVE IInv'
  OBVIOUS
<1>1. TypeOK'
  BY NextOK DEF IInv, Safe, TypeOK, TablesOK, CallsOK
<1>. QED  BY <1>1, NextFound, NextPinned DEF IInv

\* Every column and every call keeps its type: in particular no update ever
\* runs on a row that is not there.
THEOREM TypeCorrect == Spec => []TypeOK
<1>1. IInv => TypeOK
  BY DEF IInv
<1>. QED  BY InitIInv, NextIInv, <1>1, PTL DEF Spec

\* The check and the upsert of a policy are two statements apart, and the pin
\* of every policy still is a published LiteLLM revision.
THEOREM PinsPublished == Spec => []PinnedRevisionIsPublished
<1>1. IInv => PinnedRevisionIsPublished
  BY DEF IInv
<1>. QED  BY InitIInv, NextIInv, <1>1, PTL DEF Spec

-----------------------------------------------------------------------------
(* What a step may never do.                                               *)

\* A step of the account methods, of the binding methods and of the others.
AccountStep(c) ==
  \/ ensureProviderAccount(c) \/ setProviderAccountStatus(c)
  \/ setProviderHealthStatus(c)
  \/ deleteProviderAccount(c) \/ restoreProviderAccount(c)

BindingStep(c) ==
  \/ ensureModelBinding(c) \/ setModelBindingStatus(c)
  \/ deleteModelBinding(c) \/ restoreModelBinding(c)

\* A step of a caller: it begins a call, a call ends, or a method takes a step.
CallStep(c) ==
  \/ Begin(c) \/ Fail(c) \/ AccountStep(c) \/ BindingStep(c)
  \/ upsertTenantModelPolicy(c)

\* A call stands at a statement of its method as long as it is in progress.
CallIsStaged == \A c \in Callers : call[c] # Null => at[c] \in Stages

SInv == IInv /\ CallIsStaged

-----------------------------------------------------------------------------
(* What a step writes.                                                     *)

\* The row an account method leaves where old was: one it inserts, or the old
\* one with a column written.  Only a restore clears the deletion.
AccountLeft(c, old, row) ==
  \/ old = Null /\ row = InsertedAccount
  \/ /\ old # Null
     /\ \/ \E s \in Status : row = [old EXCEPT !.status = s]
        \/ \E h \in Health : row = [old EXCEPT !.health = h]
        \/ \E o \in Operators : row = [old EXCEPT !.deletedBy = o]
        \/ row = [old EXCEPT !.deletedBy = Null] /\ Running(c, "restoreProviderAccount", "found")

BindingLeft(c, b, old, row) ==
  \/ Running(c, "ensureModelBinding", "found") /\ row = EnsuredBinding(b, call[c])
  \/ /\ old # Null
     /\ \/ \E s \in Status : row = [old EXCEPT !.status = s]
        \/ \E o \in Operators : row = [old EXCEPT !.deletedBy = o]
        \/ row = [old EXCEPT !.deletedBy = Null] /\ Running(c, "restoreModelBinding", "found")

AccountWrite(c) ==
  /\ UNCHANGED <<binding, policy>>
  /\ \E a \in Accounts, row \in AccountRow :
       account' = [account EXCEPT ![a] = row] /\ AccountLeft(c, account[a], row)

BindingWrite(c) ==
  /\ UNCHANGED <<account, policy>>
  /\ \E b \in Bindings, row \in BindingRow :
       binding' = [binding EXCEPT ![b] = row] /\ BindingLeft(c, b, binding[b], row)

PolicyWrite(c) ==
  /\ UNCHANGED <<account, binding>>
  /\ \E k \in Tenants \X Labels :
       /\ policy' = [policy EXCEPT ![k] = UpsertedPolicy(k, call[c])]
       /\ policy[k] # Null => policy[k].generation < MaxGeneration
       /\ UpsertedPolicy(k, call[c]) \in PolicyRow

\* The row that a running account or binding method has found.
LEMMA AccountFound ==
  ASSUME IInv, NEW c \in Callers,
         NEW m \in AccountUpdates \cup {"ensureProviderAccount"}, Running(c, m, "found")
  PROVE  /\ call[c].target \in Accounts
         /\ m \in AccountUpdates => account[call[c].target] \in AccountRow
         /\ m = "setProviderAccountStatus" => call[c].status \in Status
         /\ m = "setProviderHealthStatus" => call[c].status \in Health
         /\ m = "deleteProviderAccount" => call[c].by \in Operators
<1>1. call[c] \in Requests /\ call[c].method = m
  BY DEF IInv, TypeOK, Running
<1>2. call[c].target \in Accounts
  BY <1>1, AccountTarget
<1>3. m \in AccountUpdates => account[call[c].target] \in AccountRow
  BY <1>1, <1>2 DEF IInv, TypeOK, FoundRowExists, Running
<1>. QED  BY <1>1, <1>2, <1>3, AccountTarget

LEMMA BindingFound ==
  ASSUME IInv, NEW c \in Callers,
         NEW m \in BindingUpdates \cup {"ensureModelBinding"}, Running(c, m, "found")
  PROVE  /\ call[c] \in Requests
         /\ call[c].target \in Bindings
         /\ m \in BindingUpdates => binding[call[c].target] \in BindingRow
         /\ m = "setModelBindingStatus" => call[c].status \in Status
         /\ m = "deleteModelBinding" => call[c].by \in Operators
<1>1. call[c] \in Requests /\ call[c].method = m
  BY DEF IInv, TypeOK, Running
<1>2. call[c].target \in Bindings
  BY <1>1, BindingTarget
<1>3. m \in BindingUpdates => binding[call[c].target] \in BindingRow
  BY <1>1, <1>2 DEF IInv, TypeOK, FoundRowExists, Running
<1>. QED  BY <1>1, <1>2, <1>3, BindingTarget

LEMMA AccountWritten ==
  ASSUME IInv, NEW c \in Callers, AccountStep(c)
  PROVE  UNCHANGED tables \/ AccountWrite(c)
<1>. DEFINE a == call[c].target
<1>0. Null \notin AccountRow
  BY CatalogAssumption
<1>1. ASSUME NEW row \in AccountRow, a \in Accounts, SetAccount(a, row),
             AccountLeft(c, account[a], row)
      PROVE  AccountWrite(c)
  BY <1>1 DEF SetAccount, AccountWrite
<1>2. CASE ensureProviderAccount(c)
  <2>1. CASE Running(c, "ensureProviderAccount", "found")
    <3>1. a \in Accounts
      BY <2>1, AccountFound
    <3>2. CASE account[a] = Null
      <4>1. InsertedAccount \in AccountRow
        BY DEF InsertedAccount, AccountRow, Status, Health
      <4>. QED
        BY <1>1, <1>2, <2>1, <3>1, <3>2, <4>1 DEF ensureProviderAccount, Running, AccountLeft
    <3>3. CASE account[a] # Null
      <4>1. [account[a] EXCEPT !.status = "active"] \in AccountRow /\ "active" \in Status
        BY <3>1, <3>3, AccountColumns DEF IInv, TypeOK, Status
      <4>2. SetAccount(a, [account[a] EXCEPT !.status = "active"])
        BY <1>2, <2>1, <3>3 DEF ensureProviderAccount, Running
      <4>3. AccountLeft(c, account[a], [account[a] EXCEPT !.status = "active"])
        BY <3>3, <4>1 DEF AccountLeft
      <4>. QED  BY <1>1, <3>1, <4>1, <4>2, <4>3
    <3>. QED  BY <3>2, <3>3
  <2>. QED  BY <1>2, <2>1 DEF ensureProviderAccount
<1>3. CASE setProviderAccountStatus(c)
  <2>1. CASE Running(c, "setProviderAccountStatus", "found")
    <3>. DEFINE row == [account[a] EXCEPT !.status = call[c].status]
    <3>1. a \in Accounts /\ account[a] \in AccountRow /\ call[c].status \in Status
      BY <2>1, AccountFound DEF AccountUpdates
    <3>2. row \in AccountRow /\ AccountLeft(c, account[a], row)
      BY <1>0, <3>1, AccountColumns DEF AccountLeft
    <3>3. SetAccount(a, row)
      BY <1>3, <2>1 DEF setProviderAccountStatus, Running
    <3>. HIDE DEF row
    <3>. QED  BY <1>1, <3>1, <3>2, <3>3
  <2>. QED  BY <1>3, <2>1 DEF setProviderAccountStatus, FindTarget
<1>4. CASE setProviderHealthStatus(c)
  <2>1. CASE Running(c, "setProviderHealthStatus", "found")
    <3>. DEFINE row == [account[a] EXCEPT !.health = call[c].status]
    <3>1. a \in Accounts /\ account[a] \in AccountRow /\ call[c].status \in Health
      BY <2>1, AccountFound DEF AccountUpdates
    <3>2. row \in AccountRow /\ AccountLeft(c, account[a], row)
      BY <1>0, <3>1, AccountColumns DEF AccountLeft
    <3>3. account' = [account EXCEPT ![a] = row] /\ UNCHANGED <<binding, policy>>
      BY <1>4, <2>1 DEF setProviderHealthStatus, Running
    <3>. HIDE DEF row
    <3>. QED  BY <3>1, <3>2, <3>3 DEF AccountWrite
  <2>. QED  BY <1>4, <2>1 DEF setProviderHealthStatus, FindTarget
<1>5. CASE deleteProviderAccount(c)
  <2>1. CASE Running(c, "deleteProviderAccount", "found")
    <3>. DEFINE row == [account[a] EXCEPT !.deletedBy = call[c].by]
    <3>1. a \in Accounts /\ account[a] \in AccountRow /\ call[c].by \in Operators
      BY <2>1, AccountFound DEF AccountUpdates
    <3>2. row \in AccountRow /\ AccountLeft(c, account[a], row)
      BY <1>0, <3>1, AccountColumns DEF AccountLeft
    <3>3. SetAccount(a, row)
      BY <1>5, <2>1 DEF deleteProviderAccount, Running
    <3>. HIDE DEF row
    <3>. QED  BY <1>1, <3>1, <3>2, <3>3
  <2>. QED  BY <1>5, <2>1 DEF deleteProviderAccount, FindTarget
<1>6. CASE restoreProviderAccount(c)
  <2>1. CASE Running(c, "restoreProviderAccount", "found")
    <3>. DEFINE row == [account[a] EXCEPT !.deletedBy = Null]
    <3>1. a \in Accounts /\ account[a] \in AccountRow
      BY <2>1, AccountFound DEF AccountUpdates
    <3>2. row \in AccountRow /\ AccountLeft(c, account[a], row)
      BY <1>0, <2>1, <3>1, AccountColumns DEF AccountLeft
    <3>3. SetAccount(a, row)
      BY <1>6, <2>1 DEF restoreProviderAccount, Running
    <3>. HIDE DEF row
    <3>. QED  BY <1>1, <3>1, <3>2, <3>3
  <2>. QED  BY <1>6, <2>1 DEF restoreProviderAccount, FindTarget
<1>. QED  BY <1>2, <1>3, <1>4, <1>5, <1>6 DEF AccountStep

LEMMA BindingWritten ==
  ASSUME IInv, NEW c \in Callers, BindingStep(c)
  PROVE  UNCHANGED tables \/ BindingWrite(c)
<1>. DEFINE b == call[c].target
<1>0. Null \notin BindingRow /\ TablesOK
  BY CatalogAssumption DEF IInv, TypeOK, TablesOK
<1>1. ASSUME NEW row \in BindingRow, b \in Bindings, SetBinding(b, row),
             BindingLeft(c, b, binding[b], row)
      PROVE  BindingWrite(c)
  BY <1>1 DEF SetBinding, BindingWrite
<1>2. CASE ensureModelBinding(c)
  <2>1. CASE Running(c, "ensureModelBinding", "found")
    <3>1. b \in Bindings /\ call[c] \in Requests /\ call[c].method = "ensureModelBinding"
      BY <2>1, BindingFound DEF Running
    <3>2. EnsuredBinding(b, call[c]) \in BindingRow
      BY <1>0, <3>1, EnsuredBindingOK
    <3>3. SetBinding(b, EnsuredBinding(b, call[c]))
      BY <1>2, <2>1 DEF ensureModelBinding, Running
    <3>. QED  BY <1>1, <2>1, <3>1, <3>2, <3>3 DEF BindingLeft
  <2>. QED  BY <1>2, <2>1 DEF ensureModelBinding
<1>3. CASE setModelBindingStatus(c)
  <2>1. CASE Running(c, "setModelBindingStatus", "found")
    <3>. DEFINE row == [binding[b] EXCEPT !.status = call[c].status]
    <3>1. b \in Bindings /\ binding[b] \in BindingRow /\ call[c].status \in Status
      BY <2>1, BindingFound DEF BindingUpdates
    <3>2. row \in BindingRow /\ BindingLeft(c, b, binding[b], row)
      BY <1>0, <3>1, BindingColumns DEF BindingLeft
    <3>3. SetBinding(b, row)
      BY <1>3, <2>1 DEF setModelBindingStatus, Running
    <3>. HIDE DEF row
    <3>. QED  BY <1>1, <3>1, <3>2, <3>3
  <2>. QED  BY <1>3, <2>1 DEF setModelBindingStatus, FindTarget
<1>4. CASE deleteModelBinding(c)
  <2>1. CASE Running(c, "deleteModelBinding", "found")
    <3>. DEFINE row == [binding[b] EXCEPT !.deletedBy = call[c].by]
    <3>1. b \in Bindings /\ binding[b] \in BindingRow /\ call[c].by \in Operators
      BY <2>1, BindingFound DEF BindingUpdates
    <3>2. row \in BindingRow /\ BindingLeft(c, b, binding[b], row)
      BY <1>0, <3>1, BindingColumns DEF BindingLeft
    <3>3. SetBinding(b, row)
      BY <1>4, <2>1 DEF deleteModelBinding, Running
    <3>. HIDE DEF row
    <3>. QED  BY <1>1, <3>1, <3>2, <3>3
  <2>. QED  BY <1>4, <2>1 DEF deleteModelBinding, FindTarget
<1>5. CASE restoreModelBinding(c)
  <2>1. CASE Running(c, "restoreModelBinding", "found")
    <3>. DEFINE row == [binding[b] EXCEPT !.deletedBy = Null]
    <3>1. b \in Bindings /\ binding[b] \in BindingRow
      BY <2>1, BindingFound DEF BindingUpdates
    <3>2. row \in BindingRow /\ BindingLeft(c, b, binding[b], row)
      BY <1>0, <2>1, <3>1, BindingColumns DEF BindingLeft
    <3>3. SetBinding(b, row)
      BY <1>5, <2>1 DEF restoreModelBinding, Running
    <3>. HIDE DEF row
    <3>. QED  BY <1>1, <3>1, <3>2, <3>3
  <2>. QED  BY <1>5, <2>1 DEF restoreModelBinding, FindTarget
<1>. QED  BY <1>2, <1>3, <1>4, <1>5 DEF BindingStep

LEMMA PolicyWritten ==
  ASSUME IInv, NEW c \in Callers, upsertTenantModelPolicy(c)
  PROVE  UNCHANGED tables \/ PolicyWrite(c)
<1>1. CASE Running(c, "upsertTenantModelPolicy", "found")
  <2>. DEFINE k == call[c].target
  <2>1. call[c] \in Requests /\ call[c].method = "upsertTenantModelPolicy" /\ TablesOK
    BY <1>1 DEF IInv, TypeOK, TablesOK, Running
  <2>2. k \in Tenants \X Labels
    BY <2>1, PolicyTarget
  <2>3. UpsertedPolicy(k, call[c]) \in PolicyRow
    BY <2>1, UpsertedPolicyOK
  <2>4. /\ policy' = [policy EXCEPT ![k] = UpsertedPolicy(k, call[c])]
        /\ policy[k] # Null => policy[k].generation < MaxGeneration
        /\ UNCHANGED <<account, binding>>
    BY <1>1 DEF upsertTenantModelPolicy, Running
  <2>. HIDE DEF k
  <2>. QED  BY <2>2, <2>3, <2>4 DEF PolicyWrite
<1>. QED  BY <1>1 DEF upsertTenantModelPolicy

\* A step of Next writes nothing, or one row of one table.
LEMMA NextWritten ==
  ASSUME IInv, [Next]_vars
  PROVE  UNCHANGED tables \/ \E c \in Callers : AccountWrite(c) \/ BindingWrite(c) \/ PolicyWrite(c)
<1>1. ASSUME NEW c \in Callers, Begin(c) \/ Fail(c)
      PROVE  UNCHANGED tables
  BY <1>1 DEF Begin, Fail
<1>2. UNCHANGED vars => UNCHANGED tables
  BY DEF vars, tables
<1>. QED
  BY <1>1, <1>2, AccountWritten, BindingWritten, PolicyWritten
  DEF Next, AccountStep, BindingStep

-----------------------------------------------------------------------------
(* How a step moves its call, and nobody else's.                           *)

Advances(c) ==
  \/ call[c] = Null /\ Begin(c)
  \/ call[c] # Null /\ \E reply \in Replies : Answer(c, reply)
  \/ call[c] # Null /\ \E stage \in Stages : Proceed(c, stage)

LEMMA NextAdvances ==
  ASSUME IInv, NEW c \in Callers,
         \/ Begin(c) \/ Fail(c) \/ AccountStep(c) \/ BindingStep(c)
         \/ upsertTenantModelPolicy(c)
  PROVE  Advances(c)
<1>1. ASSUME NEW reply \in Replies, AnswerOrLose(c, reply), call[c] # Null
      PROVE  Advances(c)
  BY <1>1 DEF Advances, AnswerOrLose, Replies
<1>2. ASSUME NEW row, NEW settled, FindTarget(c, row, settled), call[c] # Null
      PROVE  Advances(c)
  BY <1>2 DEF Advances, FindTarget, Replies, Stages
<1>3. CASE AccountStep(c)
  BY <1>1, <1>2, <1>3
  DEF AccountStep, ensureProviderAccount, setProviderAccountStatus, setProviderHealthStatus,
      deleteProviderAccount, restoreProviderAccount, Running, Advances, Replies, Stages
<1>4. CASE BindingStep(c)
  BY <1>1, <1>2, <1>4
  DEF BindingStep, ensureModelBinding, setModelBindingStatus, deleteModelBinding,
      restoreModelBinding, Running, Advances, Replies, Stages
<1>5. CASE Begin(c) \/ Fail(c) \/ upsertTenantModelPolicy(c)
  BY <1>1, <1>5 DEF Begin, Fail, upsertTenantModelPolicy, Running, Advances, Replies, Stages
<1>. QED  BY <1>3, <1>4, <1>5

LEMMA InitSInv == Init => SInv
BY InitIInv DEF SInv, CallIsStaged, Init

LEMMA NextSInv == SInv /\ [Next]_vars => SInv'
<1>. SUFFICES ASSUME SInv, [Next]_vars PROVE SInv'
  OBVIOUS
<1>1. IInv'
  BY NextIInv DEF SInv
<1>2. CallIsStaged'
  <2>1. CASE UNCHANGED vars
    BY <2>1 DEF SInv, CallIsStaged, vars
  <2>2. ASSUME NEW c \in Callers, Advances(c)
        PROVE  CallIsStaged'
    BY <2>2 DEF Advances, Begin, Answer, Proceed, SInv, CallIsStaged, IInv, TypeOK, Stages
  <2>. QED
    BY <2>1, <2>2, NextAdvances DEF SInv, Next, AccountStep, BindingStep
<1>. QED  BY <1>1, <1>2 DEF SInv

\* An answer ends a call by a step of its caller.
LEMMA AnswerIsOwn ==
  ASSUME SInv, [Next]_vars, NEW c \in Callers, call[c] # Null, at'[c] \in Replies
  PROVE  \/ Fail(c) \/ AccountStep(c) \/ BindingStep(c) \/ upsertTenantModelPolicy(c)
<1>1. at[c] \in Stages /\ at[c] \notin Replies
  BY DEF SInv, CallIsStaged, Stages, Replies
<1>2. ~ UNCHANGED vars
  BY <1>1 DEF vars
<1>3. ASSUME NEW d \in Callers, Advances(d), d # c
      PROVE  FALSE
  BY <1>1, <1>3 DEF Advances, Begin, Answer, Proceed, SInv, IInv, TypeOK
<1>4. ~ Begin(c)
  BY DEF Begin
<1>. QED
  BY <1>2, <1>3, <1>4, NextAdvances DEF SInv, Next, AccountStep, BindingStep

-----------------------------------------------------------------------------
(* The theorems.                                                           *)

\* Whoever else writes, every change of a policy takes a later generation: the
\* generation a route quotes tells the policies of one key apart.
LEMMA StepTakesGeneration ==
  ASSUME IInv, [Next]_vars, NEW k \in Tenants \X Labels, policy[k] # Null, policy'[k] # policy[k]
  PROVE  policy'[k] # Null /\ policy'[k].generation > policy[k].generation
<1>1. ~ UNCHANGED policy
  OBVIOUS
<1>2. PICK c \in Callers, j \in Tenants \X Labels :
        /\ policy' = [policy EXCEPT ![j] = UpsertedPolicy(j, call[c])]
        /\ UpsertedPolicy(j, call[c]) \in PolicyRow
  BY <1>1, NextWritten DEF tables, AccountWrite, BindingWrite, PolicyWrite
<1>3. policy \in [Tenants \X Labels -> PolicyRow \cup {Null}] /\ Null \notin PolicyRow
  BY CatalogAssumption DEF IInv, TypeOK
<1>4. j = k
  BY <1>2, <1>3
<1>5. policy[k] \in PolicyRow /\ policy[k].generation \in Nat
  BY <1>3 DEF PolicyRow
<1>6. policy'[k] = UpsertedPolicy(k, call[c])
  BY <1>2, <1>3, <1>4
<1>7. UpsertedPolicy(k, call[c]).generation = policy[k].generation + 1
  BY DEF UpsertedPolicy
<1>. QED  BY <1>2, <1>3, <1>4, <1>5, <1>6, <1>7

THEOREM GenerationsAdvance == Spec => PolicyChangeTakesNewGeneration
<1>1. ASSUME IInv, [Next]_vars
      PROVE  \A k \in Tenants \X Labels :
               policy[k] # Null /\ policy'[k] # policy[k] =>
                 policy'[k] # Null /\ policy'[k].generation > policy[k].generation
  BY <1>1, StepTakesGeneration
<1>. QED  BY <1>1, InitIInv, NextIInv, PTL DEF Spec, PolicyChangeTakesNewGeneration

\* No upsert and no status write that raced a delete brings the row back.
LEMMA StepRevivesByRestore ==
  ASSUME IInv, [Next]_vars
  PROVE  /\ \A a \in Accounts :
              account[a] # Null /\ ~Live(account[a]) /\ account'[a] # account[a] =>
                \/ account'[a] # Null /\ ~Live(account'[a])
                \/ \E c \in Callers : Running(c, "restoreProviderAccount", "found")
         /\ \A b \in Bindings :
              binding[b] # Null /\ ~Live(binding[b]) /\ binding'[b] # binding[b] =>
                \/ binding'[b] # Null /\ ~Live(binding'[b])
                \/ \E c \in Callers : Running(c, "restoreModelBinding", "found")
<1>0. /\ account \in [Accounts -> AccountRow \cup {Null}]
      /\ binding \in [Bindings -> BindingRow \cup {Null}]
      /\ Null \notin AccountRow \cup BindingRow /\ Null \notin Operators
  BY CatalogAssumption DEF IInv, TypeOK
<1>1. ASSUME NEW a \in Accounts, account[a] # Null, ~Live(account[a]), account'[a] # account[a]
      PROVE  \/ account'[a] # Null /\ ~Live(account'[a])
             \/ \E c \in Callers : Running(c, "restoreProviderAccount", "found")
  <2>1. PICK c \in Callers, d \in Accounts, row \in AccountRow :
          account' = [account EXCEPT ![d] = row] /\ AccountLeft(c, account[d], row)
    BY <1>1, NextWritten DEF tables, AccountWrite, BindingWrite, PolicyWrite
  <2>2. d = a /\ account'[a] = row /\ row # Null
    BY <1>0, <1>1, <2>1
  <2>3. account[a] \in AccountRow /\ account[a].deletedBy # Null
    BY <1>0, <1>1 DEF Live
  <2>4. row.deletedBy # Null \/ Running(c, "restoreProviderAccount", "found")
    BY <1>0, <1>1, <2>1, <2>2, <2>3 DEF AccountLeft, AccountRow
  <2>. QED  BY <2>2, <2>4 DEF Live
<1>2. ASSUME NEW b \in Bindings, binding[b] # Null, ~Live(binding[b]), binding'[b] # binding[b]
      PROVE  \/ binding'[b] # Null /\ ~Live(binding'[b])
             \/ \E c \in Callers : Running(c, "restoreModelBinding", "found")
  <2>1. PICK c \in Callers, d \in Bindings, row \in BindingRow :
          binding' = [binding EXCEPT ![d] = row] /\ BindingLeft(c, d, binding[d], row)
    BY <1>2, NextWritten DEF tables, AccountWrite, BindingWrite, PolicyWrite
  <2>2. d = b /\ binding'[b] = row /\ row # Null
    BY <1>0, <1>2, <2>1
  <2>3. binding[b] \in BindingRow /\ binding[b].deletedBy # Null
    BY <1>0, <1>2 DEF Live
  <2>4. row.deletedBy # Null \/ Running(c, "restoreModelBinding", "found")
    BY <1>0, <1>2, <2>1, <2>2, <2>3 DEF BindingLeft, BindingRow, EnsuredBinding
  <2>. QED  BY <2>2, <2>4 DEF Live
<1>. QED  BY <1>1, <1>2

THEOREM RestoreAloneRevives == Spec => OnlyRestoreRevives
BY StepRevivesByRestore, InitIInv, NextIInv, PTL DEF Spec, OnlyRestoreRevives

\* The second look at deletedAt, after the upsert, is enough.
LEMMA StepAcknowledgesLive ==
  ASSUME SInv, [Next]_vars, NEW c \in Callers, call[c] # Null,
         call[c].method \in {"ensureModelBinding", "ensureProviderAccount"}, at'[c] = "ok"
  PROVE  Live(EnsuredRow(c))
<1>1. \/ Fail(c) \/ AccountStep(c) \/ BindingStep(c) \/ upsertTenantModelPolicy(c)
  BY AnswerIsOwn DEF Replies
<1>2. at \in [Callers -> Stages \cup Replies \cup {"idle"}] /\ IInv
  BY DEF SInv, IInv, TypeOK
<1>3. ~ Fail(c)
  BY <1>2 DEF Fail, Answer
<1>4. ensureModelBinding(c) \/ ensureProviderAccount(c)
  BY <1>1, <1>3
  DEF AccountStep, BindingStep, Running, setProviderAccountStatus, setProviderHealthStatus,
      deleteProviderAccount, restoreProviderAccount, setModelBindingStatus,
      deleteModelBinding, restoreModelBinding, upsertTenantModelPolicy
<1>5. CASE ensureModelBinding(c)
  <2>. DEFINE b == call[c].target
  <2>1. Running(c, "ensureModelBinding", "found")
    BY <1>2, <1>5 DEF ensureModelBinding, Answer, Proceed
  <2>2. /\ SetBinding(b, EnsuredBinding(b, call[c]))
        /\ AnswerOrLose(c, IF binding'[b].deletedBy = Null THEN "ok" ELSE "deleted")
    BY <1>5, <2>1 DEF ensureModelBinding, Running
  <2>3. binding'[b].deletedBy = Null
    BY <1>2, <2>2 DEF AnswerOrLose, Answer
  <2>4. b \in Bindings /\ call[c] \in Requests /\ call[c].method = "ensureModelBinding"
    BY <1>2, <2>1, BindingFound DEF Running
  <2>5. EnsuredBinding(b, call[c]) \in BindingRow
    BY <1>2, <2>4, EnsuredBindingOK DEF IInv, TypeOK, TablesOK
  <2>6. binding'[b] \in BindingRow
    BY <1>2, <2>2, <2>4, <2>5 DEF SetBinding, IInv, TypeOK
  <2>. QED  BY <2>3, <2>4, <2>6, CatalogAssumption DEF Live, EnsuredRow
<1>6. CASE ensureProviderAccount(c)
  <2>. DEFINE a == call[c].target
  <2>1. Running(c, "ensureProviderAccount", "found")
    BY <1>2, <1>6 DEF ensureProviderAccount, Answer, Proceed
  <2>2. AnswerOrLose(c, IF account'[a].deletedBy = Null THEN "ok" ELSE "deleted")
    BY <1>6, <2>1 DEF ensureProviderAccount, Running
  <2>3. account'[a].deletedBy = Null
    BY <1>2, <2>2 DEF AnswerOrLose, Answer
  <2>4. a \in Accounts /\ call[c].method = "ensureProviderAccount"
    BY <1>2, <2>1, AccountFound DEF Running
  <2>5. account'[a] \in AccountRow
    <3>1. CASE account[a] = Null
      <4>1. account' = [account EXCEPT ![a] = InsertedAccount]
        BY <1>6, <2>1, <3>1 DEF ensureProviderAccount, Running, SetAccount
      <4>2. InsertedAccount \in AccountRow
        BY DEF InsertedAccount, AccountRow, Status, Health
      <4>. QED  BY <1>2, <2>4, <4>1, <4>2 DEF IInv, TypeOK
    <3>2. CASE account[a] # Null
      <4>1. account' = [account EXCEPT ![a] = [account[a] EXCEPT !.status = "active"]]
        BY <1>6, <2>1, <3>2 DEF ensureProviderAccount, Running, SetAccount
      <4>2. account[a] \in AccountRow
        BY <1>2, <2>4, <3>2 DEF IInv, TypeOK
      <4>3. [account[a] EXCEPT !.status = "active"] \in AccountRow
        BY <4>2, AccountColumns DEF Status
      <4>. QED  BY <1>2, <2>4, <4>1, <4>3 DEF IInv, TypeOK
    <3>. QED  BY <3>1, <3>2
  <2>. QED  BY <2>3, <2>4, <2>5, CatalogAssumption DEF Live, EnsuredRow
<1>. QED  BY <1>4, <1>5, <1>6

THEOREM AcknowledgementsAreLive == Spec => AcknowledgedEnsureIsLive
<1>1. ASSUME SInv, [Next]_vars
      PROVE  \A c \in Callers :
               /\ call[c] # Null
               /\ call[c].method \in {"ensureModelBinding", "ensureProviderAccount"}
               /\ at'[c] = "ok"
               => Live(EnsuredRow(c))
  BY <1>1, StepAcknowledgesLive
<1>. QED  BY <1>1, InitSInv, NextSInv, PTL DEF Spec, AcknowledgedEnsureIsLive

\* Rows that differ only where they do not serve give the same routes.
LEMMA SameServing ==
  ASSUME NEW accounts, NEW bindings, NEW accounts2, NEW bindings2, NEW policies,
         \A b \in Bindings :
           Servable(accounts2, bindings2, b) <=> Servable(accounts, bindings, b),
         \A b \in Bindings : Servable(accounts, bindings, b) => bindings2[b] = bindings[b],
         NEW t, NEW l
  PROVE  RouteOf(accounts2, bindings2, policies, t, l) = RouteOf(accounts, bindings, policies, t, l)
<1>1. ServableRows(accounts2, bindings2) = ServableRows(accounts, bindings)
  BY DEF ServableRows
<1>. QED  BY <1>1 DEF RouteOf

\* A call that is refused has written nothing, or a row that was deleted when
\* it was written and serves neither before nor after.
LEMMA StepRefusesHarmlessly ==
  ASSUME SInv, [Next]_vars, NEW c \in Callers, call[c] # Null,
         at'[c] \in {"not_found", "deleted"}, NEW t, NEW l
  PROVE  RouteOf(account', binding', policy', t, l) = RouteOf(account, binding, policy, t, l)
<1>1. \/ Fail(c) \/ AccountStep(c) \/ BindingStep(c) \/ upsertTenantModelPolicy(c)
  BY AnswerIsOwn DEF Replies
<1>2. at \in [Callers -> Stages \cup Replies \cup {"idle"}] /\ IInv /\ TablesOK
  BY DEF SInv, IInv, TypeOK, TablesOK
<1>0. Null \notin AccountRow \cup BindingRow
  BY CatalogAssumption
<1>3. ASSUME UNCHANGED tables
      PROVE  RouteOf(account', binding', policy', t, l) = RouteOf(account, binding, policy, t, l)
  BY <1>3 DEF tables
<1>4. CASE Running(c, "ensureModelBinding", "found") /\ ensureModelBinding(c)
  <2>. DEFINE b == call[c].target
  <2>1. /\ SetBinding(b, EnsuredBinding(b, call[c]))
        /\ AnswerOrLose(c, IF binding'[b].deletedBy = Null THEN "ok" ELSE "deleted")
    BY <1>4 DEF ensureModelBinding, Running
  <2>2. binding'[b].deletedBy # Null
    BY <1>2, <2>1 DEF AnswerOrLose, Answer
  <2>3. b \in Bindings
    BY <1>2, <1>4, BindingFound
  <2>4. binding'[b] = EnsuredBinding(b, call[c]) /\ \A x \in Bindings \ {b} : binding'[x] = binding[x]
    BY <1>2, <2>1, <2>3 DEF SetBinding, TablesOK
  <2>5. ~ Live(binding[b]) /\ ~ Live(binding'[b])
    BY <2>2, <2>4 DEF Live, EnsuredBinding
  <2>6. account' = account /\ policy' = policy
    BY <2>1 DEF SetBinding
  <2>. HIDE DEF b
  <2>. QED  BY <2>3, <2>4, <2>5, <2>6, SameServing DEF Servable, Serves
<1>5. CASE Running(c, "ensureProviderAccount", "found") /\ ensureProviderAccount(c)
  <2>. DEFINE a == call[c].target
  <2>1. AnswerOrLose(c, IF account'[a].deletedBy = Null THEN "ok" ELSE "deleted")
    BY <1>5 DEF ensureProviderAccount, Running
  <2>2. account'[a].deletedBy # Null
    BY <1>2, <2>1 DEF AnswerOrLose, Answer
  <2>3. a \in Accounts
    BY <1>2, <1>5, AccountFound
  <2>4. account[a] # Null /\ account' = [account EXCEPT ![a] = [account[a] EXCEPT !.status = "active"]]
    <3>1. account[a] # Null
      <4>. SUFFICES ASSUME account[a] = Null PROVE FALSE
        OBVIOUS
      <4>1. account' = [account EXCEPT ![a] = InsertedAccount]
        BY <1>5 DEF ensureProviderAccount, Running, SetAccount
      <4>. QED  BY <1>2, <2>2, <2>3, <4>1 DEF TablesOK, InsertedAccount
    <3>. QED  BY <1>5, <3>1 DEF ensureProviderAccount, Running, SetAccount
  <2>5. account[a] \in AccountRow
    BY <1>2, <2>3, <2>4 DEF TablesOK
  <2>6. ~ Live(account[a]) /\ ~ Live(account'[a])
    BY <1>2, <2>2, <2>3, <2>4, <2>5 DEF Live, TablesOK, AccountRow
  <2>7. \A x \in Accounts \ {a} : account'[x] = account[x]
    BY <1>2, <2>3, <2>4 DEF TablesOK
  <2>8. binding' = binding /\ policy' = policy
    BY <1>5 DEF ensureProviderAccount, Running, SetAccount
  <2>9. \A x \in Bindings : AccountServes(account'[AccountOf[x]]) <=> AccountServes(account[AccountOf[x]])
    BY <2>6, <2>7, CatalogAssumption DEF AccountServes
  <2>. HIDE DEF a
  <2>. QED  BY <2>8, <2>9, SameServing DEF Servable, Serves
<1>6. CASE ~ (Running(c, "ensureModelBinding", "found") /\ ensureModelBinding(c))
           /\ ~ (Running(c, "ensureProviderAccount", "found") /\ ensureProviderAccount(c))
  <2>1. ASSUME AnswerOrLose(c, "ok")
        PROVE  FALSE
    BY <1>2, <2>1 DEF AnswerOrLose, Answer
  <2>2. UNCHANGED tables
    <3>1. CASE Fail(c)
      BY <3>1 DEF Fail
    <3>2. CASE upsertTenantModelPolicy(c)
      BY <2>1, <3>2 DEF upsertTenantModelPolicy
    <3>3. CASE AccountStep(c)
      BY <1>6, <2>1, <3>3
      DEF AccountStep, ensureProviderAccount, setProviderAccountStatus, setProviderHealthStatus,
          deleteProviderAccount, restoreProviderAccount, FindTarget
    <3>4. CASE BindingStep(c)
      BY <1>6, <2>1, <3>4
      DEF BindingStep, ensureModelBinding, setModelBindingStatus, deleteModelBinding,
          restoreModelBinding, FindTarget
    <3>. QED  BY <1>1, <3>1, <3>2, <3>3, <3>4
  <2>. QED  BY <1>3, <2>2
<1>. QED  BY <1>4, <1>5, <1>6

THEOREM RefusalsKeepRoutes == Spec => RejectedMutationKeepsRoutes
<1>1. ASSUME SInv, [Next]_vars
      PROVE  \A c \in Callers :
               call[c] # Null /\ at'[c] \in {"not_found", "deleted"} =>
                 \A t \in Tenants, l \in Labels :
                   RouteOf(account', binding', policy', t, l)
                     = RouteOf(account, binding, policy, t, l)
  BY <1>1, StepRefusesHarmlessly
<1>. QED  BY <1>1, InitSInv, NextSInv, PTL DEF Spec, RejectedMutationKeepsRoutes

-----------------------------------------------------------------------------
(* The refinement of RevisionLifecycle.                                    *)

shownAs == [b \in Bindings |-> Availability(binding[b])]
publishedAs == [b \in Bindings |-> binding[b] # Null /\ binding[b].published]

LEMMA AvailabilityOf ==
  ASSUME NEW row \in BindingRow
  PROVE  /\ row.deletedBy # Null => Availability(row) = "retired"
         /\ row.deletedBy = Null /\ row.status = "disabled" => Availability(row) = "disabled"
         /\ row.deletedBy = Null /\ row.status = "active" =>
              Availability(row) = (IF row.published THEN "available" ELSE "draft")
         /\ row.status \in {"active", "disabled"}
         /\ row.published \in BOOLEAN
         /\ row # Null
<1>1. row # Null /\ row.status \in {"active", "disabled"} /\ row.published \in BOOLEAN
  BY CatalogAssumption DEF BindingRow, Status
<1>2. CASE row.deletedBy # Null
  BY <1>1, <1>2 DEF Availability, Live
<1>3. CASE row.deletedBy = Null /\ row.status = "disabled"
  BY <1>1, <1>3 DEF Availability, Live
<1>4. CASE row.deletedBy = Null /\ row.status = "active" /\ row.published
  BY <1>1, <1>4 DEF Availability, Live
<1>5. CASE row.deletedBy = Null /\ row.status = "active" /\ ~row.published
  BY <1>1, <1>5 DEF Availability, Live
<1>. QED  BY <1>1, <1>2, <1>3, <1>4, <1>5

\* The moves of the lifecycle, or none, on what is shown of one revision.
LifeMove(before, after, was, is) ==
  \/ is /\ after = IF before = "retired" THEN "retired" ELSE "available"
  \/ /\ is <=> was
     /\ \/ after = before
        \/ before \in {"draft", "available"} /\ after = "disabled"
        \/ before = "disabled" /\ after = IF was THEN "available" ELSE "draft"
        \/ before \in {"disabled", "draft", "available"} /\ after = "retired"
        \/ before = "retired" /\ after = "disabled"
        \/ before = "retired" /\ after = IF was THEN "available" ELSE "draft"

\* Whether a row is of a published revision.
IsPublished(row) == row # Null /\ row.published

\* A row written over old moves the revision as the lifecycle allows, or not.
LEMMA RowMoves ==
  ASSUME NEW c \in Callers, NEW b \in Bindings, binding[b] \in BindingRow \cup {Null},
         NEW row \in BindingRow, BindingLeft(c, b, binding[b], row)
  PROVE  LifeMove(Availability(binding[b]), Availability(row),
                  IsPublished(binding[b]), IsPublished(row))
<1>. DEFINE old == binding[b]
<1>0. Null \notin BindingRow /\ Null \notin Operators
  BY CatalogAssumption
<1>1. CASE row = EnsuredBinding(b, call[c])
  <2>1. row.published /\ row.status = "active" /\ IsPublished(row)
    BY <1>0, <1>1 DEF EnsuredBinding, IsPublished
  <2>2. CASE old = Null
    <3>1. row.deletedBy = Null
      BY <1>1, <2>2 DEF EnsuredBinding
    <3>2. Availability(old) = "absent"
      BY <2>2 DEF Availability, Live
    <3>3. Availability(row) = "available"
      BY <2>1, <3>1, AvailabilityOf
    <3>. QED  BY <2>1, <3>2, <3>3 DEF LifeMove
  <2>3. CASE old # Null
    <3>1. row.deletedBy = old.deletedBy /\ old \in BindingRow
      BY <1>1, <2>3 DEF EnsuredBinding
    <3>2. CASE old.deletedBy = Null
      <4>1. Availability(old) # "retired" /\ Availability(row) = "available"
        BY <2>1, <3>1, <3>2, AvailabilityOf
      <4>. QED  BY <2>1, <4>1 DEF LifeMove
    <3>3. CASE old.deletedBy # Null
      <4>1. Availability(old) = "retired" /\ Availability(row) = "retired"
        BY <3>1, <3>3, AvailabilityOf
      <4>. QED  BY <2>1, <4>1 DEF LifeMove
    <3>. QED  BY <3>2, <3>3
  <2>. QED  BY <2>2, <2>3
<1>2. ASSUME old # Null, NEW s \in Status, row = [old EXCEPT !.status = s]
      PROVE  LifeMove(Availability(old), Availability(row), IsPublished(old), IsPublished(row))
  <2>1. old \in BindingRow
    BY <1>2
  <2>2. row.published = old.published /\ row.deletedBy = old.deletedBy
    BY <1>2, <2>1 DEF BindingRow
  <2>. QED  BY <2>1, <2>2, AvailabilityOf DEF LifeMove, IsPublished
<1>3. ASSUME old # Null, NEW o \in Operators, row = [old EXCEPT !.deletedBy = o]
      PROVE  LifeMove(Availability(old), Availability(row), IsPublished(old), IsPublished(row))
  <2>1. old \in BindingRow
    BY <1>3
  <2>2. row.published = old.published /\ row.deletedBy # Null
    BY <1>0, <1>3, <2>1 DEF BindingRow
  <2>. QED  BY <2>1, <2>2, AvailabilityOf DEF LifeMove, IsPublished
<1>4. ASSUME old # Null, row = [old EXCEPT !.deletedBy = Null]
      PROVE  LifeMove(Availability(old), Availability(row), IsPublished(old), IsPublished(row))
  <2>1. old \in BindingRow
    BY <1>4
  <2>2. row.published = old.published /\ row.status = old.status /\ row.deletedBy = Null
    BY <1>4, <2>1 DEF BindingRow
  <2>. QED  BY <2>1, <2>2, AvailabilityOf DEF LifeMove, IsPublished
<1>. QED  BY <1>1, <1>2, <1>3, <1>4 DEF BindingLeft

LEMMA LifecycleInit ==
  ASSUME Init
  PROVE  Lifecycle!Init
<1>1. ASSUME NEW b \in Bindings
      PROVE  /\ shownAs[b] \in {"absent", "disabled", "available"}
             /\ IsPublished(binding[b]) \in BOOLEAN
             /\ IsPublished(binding[b]) <=> shownAs[b] = "available"
  <2>0. shownAs[b] = Availability(binding[b])
    BY DEF shownAs
  <2>1. CASE binding[b] = Null
    <3>1. Availability(binding[b]) = "absent"
      BY <2>1 DEF Availability, Live
    <3>. QED  BY <2>0, <2>1, <3>1 DEF IsPublished
  <2>2. CASE binding[b] # Null
    <3>1. binding[b] \in BindingRow
      BY <2>2, InitIInv DEF IInv, TypeOK
    <3>2. binding[b].deletedBy = Null /\ (binding[b].published <=> binding[b].status = "active")
      BY <2>2 DEF Init, SnapshotBinding
    <3>. QED  BY <2>0, <2>2, <3>1, <3>2, AvailabilityOf DEF IsPublished
  <2>. QED  BY <2>1, <2>2
<1>. QED  BY <1>1 DEF Lifecycle!Init, shownAs, IsPublished

LEMMA LifecycleNext ==
  ASSUME IInv, [Next]_vars
  PROVE  Lifecycle!Next \/ (UNCHANGED shownAs /\ UNCHANGED publishedAs)
<1>1. CASE UNCHANGED binding
  BY <1>1 DEF shownAs, publishedAs
<1>2. ASSUME ~ UNCHANGED binding
      PROVE  Lifecycle!Next \/ (UNCHANGED shownAs /\ UNCHANGED publishedAs)
  <2>1. PICK c \in Callers, b \in Bindings, row \in BindingRow :
          binding' = [binding EXCEPT ![b] = row] /\ BindingLeft(c, b, binding[b], row)
    BY <1>2, NextWritten DEF tables, AccountWrite, BindingWrite, PolicyWrite
  <2>2. binding \in [Bindings -> BindingRow \cup {Null}]
    BY DEF IInv, TypeOK
  <2>3. binding'[b] = row /\ \A x \in Bindings \ {b} : binding'[x] = binding[x]
    BY <2>1, <2>2
  <2>4. shownAs' = [x \in Bindings |-> Availability(binding'[x])]
    BY DEF shownAs, Availability, Live
  <2>5. shownAs' = [shownAs EXCEPT ![b] = Availability(row)]
    BY <2>3, <2>4 DEF shownAs
  <2>6. publishedAs' = [publishedAs EXCEPT ![b] = IsPublished(row)]
    <3>1. publishedAs = [x \in Bindings |-> IsPublished(binding[x])]
      BY DEF publishedAs, IsPublished
    <3>2. publishedAs' = [x \in Bindings |-> IsPublished(binding'[x])]
      BY DEF publishedAs, IsPublished
    <3>. QED  BY <2>3, <3>1, <3>2
  <2>7. LifeMove(shownAs[b], Availability(row), publishedAs[b], IsPublished(row))
    BY <2>1, <2>2, RowMoves DEF shownAs, publishedAs, IsPublished
  <2>. QED
    BY <2>5, <2>6, <2>7
    DEF LifeMove, Lifecycle!Next, Lifecycle!Publish, Lifecycle!Disable, Lifecycle!Enable,
        Lifecycle!Retire, Lifecycle!Restore, Lifecycle!Move, Lifecycle!Shown,
        shownAs, publishedAs
<1>. QED  BY <1>1, <1>2

\* Seen from outside, the statements of all the calls move every revision
\* through the life RevisionLifecycle gives it and no other.
THEOREM LifecycleImplemented == Spec => ImplementsLifecycle
<1>1. ASSUME IInv, [Next]_vars
      PROVE  [Lifecycle!Next]_<<shownAs, publishedAs>>
  BY <1>1, LifecycleNext
<1>2. Init => Lifecycle!Init
  BY LifecycleInit
<1>. QED
  BY <1>1, <1>2, InitIInv, NextIInv, PTL
  DEF Spec, ImplementsLifecycle, Lifecycle!Spec, shownAs, publishedAs

-----------------------------------------------------------------------------
(* One caller.                                                             *)

OneCaller == \A c, d \in Callers : c = d

\* The pin a call goes on to write still is one it may write.
FoundPinIsPinnable ==
  \A c \in Callers :
    Running(c, "upsertTenantModelPolicy", "found") /\ call[c].pin \in Bindings =>
      Pinnable(call[c].pin)

LEMMA OneCallerKeepsPin ==
  ASSUME OneCaller, IInv, FoundPinIsPinnable, [Next]_vars
  PROVE  FoundPinIsPinnable'
<1>. SUFFICES ASSUME NEW c \in Callers, Running(c, "upsertTenantModelPolicy", "found")',
                     call'[c].pin \in Bindings
              PROVE  Pinnable(call[c].pin)'
  BY DEF FoundPinIsPinnable
<1>1. call'[c] # Null /\ call'[c].method = "upsertTenantModelPolicy" /\ at'[c] = "found"
  BY DEF Running
<1>2. CASE UNCHANGED vars
  BY <1>2 DEF vars, FoundPinIsPinnable, Running, Pinnable, Live
<1>3. CASE Next
  <2>1. CallStep(c)
    BY <1>3 DEF Next, CallStep, AccountStep, BindingStep, OneCaller
  <2>2. Advances(c)
    BY <2>1, NextAdvances DEF CallStep
  <2>3. /\ call \in [Callers -> Requests \cup {Null}]
        /\ at \in [Callers -> Stages \cup Replies \cup {"idle"}]
    BY DEF IInv, TypeOK
  <2>4. call[c] # Null /\ call'[c] = call[c]
    BY <1>1, <2>2, <2>3 DEF Advances, Begin, Answer, Proceed
  <2>5. upsertTenantModelPolicy(c)
    <3>1. call[c].method = "upsertTenantModelPolicy"
      BY <1>1, <2>4
    <3>2. ~ Fail(c)
      BY <2>3, <2>4 DEF Fail, Answer
    <3>. QED
      BY <2>1, <2>4, <3>1, <3>2
      DEF CallStep, AccountStep, BindingStep, Begin, ensureProviderAccount,
          setProviderAccountStatus, setProviderHealthStatus, deleteProviderAccount,
          restoreProviderAccount, ensureModelBinding, setModelBindingStatus,
          deleteModelBinding, restoreModelBinding, Running
  <2>6. UNCHANGED tables /\ (call[c].pin \in Bindings => Pinnable(call[c].pin))
    BY <2>3, <2>4, <2>5
    DEF upsertTenantModelPolicy, Running, AnswerOrLose, Answer
  <2>. QED  BY <2>4, <2>6 DEF tables, Pinnable, Live
<1>. QED  BY <1>2, <1>3

LEMMA PinWritten ==
  ASSUME IInv, FoundPinIsPinnable, [Next]_vars, NEW k \in Tenants \X Labels,
         policy'[k] # policy[k], policy'[k].pin \in Bindings,
         policy[k] = Null \/ policy[k].pin # policy'[k].pin
  PROVE  Pinnable(policy'[k].pin)
<1>1. policy \in [Tenants \X Labels -> PolicyRow \cup {Null}] /\ Null \notin Bindings
  BY CatalogAssumption DEF IInv, TypeOK
<1>2. PICK c \in Callers : CallStep(c)
  BY DEF Next, CallStep, AccountStep, BindingStep, vars
<1>3. upsertTenantModelPolicy(c)
  BY <1>2, AccountWritten, BindingWritten
  DEF CallStep, Begin, Fail, tables, AccountWrite, BindingWrite
<1>4. /\ Running(c, "upsertTenantModelPolicy", "found")
      /\ policy' = [policy EXCEPT ![call[c].target] =
                      UpsertedPolicy(call[c].target, call[c])]
  BY <1>3 DEF upsertTenantModelPolicy, tables
<1>5. policy'[k] = UpsertedPolicy(k, call[c])
  BY <1>1, <1>4
<1>6. call[c].pin \in Bindings /\ policy'[k].pin = call[c].pin
  BY <1>1, <1>5, RepositoryAssumption DEF UpsertedPolicy
<1>. QED  BY <1>4, <1>6 DEF FoundPinIsPinnable

\* The race is the only way to pin what may not be pinned: with a single caller
\* every revision that a policy is made to point to is live, active and
\* published at that write.
THEOREM OneCallerPinsEligible == OneCaller => (Spec => PinIsEligibleWhenWritten)
<1>. SUFFICES ASSUME OneCaller PROVE Spec => PinIsEligibleWhenWritten
  OBVIOUS
<1>1. Init => FoundPinIsPinnable
  BY DEF Init, FoundPinIsPinnable, Running
<1>2. IInv /\ FoundPinIsPinnable /\ [Next]_vars => FoundPinIsPinnable'
  BY OneCallerKeepsPin
<1>3. IInv /\ FoundPinIsPinnable /\ [Next]_vars =>
        [\A k \in Tenants \X Labels :
           policy'[k] # policy[k] /\ policy'[k].pin \in Bindings
           /\ (policy[k] = Null \/ policy[k].pin # policy'[k].pin)
           => Pinnable(policy'[k].pin)]_vars
  BY PinWritten
<1>. QED
  BY <1>1, <1>2, <1>3, InitIInv, NextIInv, PTL DEF Spec, PinIsEligibleWhenWritten

-----------------------------------------------------------------------------
(* The rows that reads of the catalogue rely on.                            *)

\* The ranks of the rows in ORDER BY createdAt, id are those of an order: two
\* rows never share one, and the next row to be inserted comes last.
Ranked(rows) ==
  \A b, c \in Bindings : rows[b] # Null /\ rows[c] # Null /\ rows[b].createdAt = rows[c].createdAt
    => b = c

RanksBelow ==
  \A b \in Bindings : binding[b] # Null =>
    binding[b].createdAt < Cardinality({x \in Bindings : binding[x] # Null})

\* No generation passes the bound.
GenerationsBounded ==
  \A k \in Tenants \X Labels : policy[k] # Null => policy[k].generation <= MaxGeneration

RepositoryInv == SInv /\ Ranked(binding) /\ RanksBelow /\ GenerationsBounded

-----------------------------------------------------------------------------
(* The first of some rows.                                                 *)

LEMMA FirstIsOne ==
  ASSUME NEW rows \in [Bindings -> BindingRow \cup {Null}], Ranked(rows),
         NEW S \in SUBSET Bindings, S # {}, \A b \in S : rows[b] # Null
  PROVE  First(rows, S) \in S
<1>1. \A b \in S : rows[b].priority \in Nat /\ rows[b].createdAt \in Nat
  BY CatalogAssumption DEF BindingRow
<1>2. PICK p \in {rows[b].priority : b \in S} : \A n \in {rows[b].priority : b \in S} : p <= n
  <2>. DEFINE P == {rows[b].priority : b \in S}
  <2>1. P \in SUBSET Nat /\ P # {}
    BY <1>1
  <2>. HIDE DEF P
  <2>2. \E m \in P : \A n \in P : m <= n
    BY <2>1, LeastNatural
  <2>. QED  BY <2>2 DEF P
<1>. DEFINE T == {b \in S : rows[b].priority = p}
<1>3. T # {} /\ T \subseteq S
  BY <1>2
<1>4. PICK m \in {rows[b].createdAt : b \in T} : \A n \in {rows[b].createdAt : b \in T} : m <= n
  <2>. DEFINE C == {rows[b].createdAt : b \in T}
  <2>1. C \in SUBSET Nat /\ C # {}
    BY <1>1, <1>3
  <2>. HIDE DEF C
  <2>2. \E n \in C : \A k \in C : n <= k
    BY <2>1, LeastNatural
  <2>. QED  BY <2>2 DEF C
<1>5. PICK b \in T : rows[b].createdAt = m
  BY <1>4
<1>6. ASSUME NEW c \in S \ {b}
      PROVE  Before(rows, b, c)
  <2>1. rows[b].priority = p /\ p <= rows[c].priority /\ b \in S
    BY <1>2, <1>5, <1>6
  <2>2. CASE rows[c].priority = p
    <3>1. c \in T /\ m <= rows[c].createdAt
      BY <1>4, <2>2
    <3>2. rows[c].createdAt # m
      BY <1>5, <1>6, <2>1 DEF Ranked
    <3>. QED  BY <1>1, <1>5, <2>1, <2>2, <3>1, <3>2 DEF Before
  <2>3. CASE rows[c].priority # p
    BY <1>1, <2>1, <2>3 DEF Before
  <2>. QED  BY <2>2, <2>3
<1>7. \E x \in S : \A c \in S \ {x} : Before(rows, x, c)
  BY <1>3, <1>5, <1>6
<1>. QED  BY <1>7 DEF First

\* A route through one of the rows is a route.
LEMMA RouteThroughOK ==
  ASSUME NEW rows \in [Bindings -> BindingRow \cup {Null}], NEW b \in Bindings, rows[b] # Null,
         NEW p \in PolicyRow \cup {Null}
  PROVE  /\ RouteThrough(rows, b, p) \in Route
         /\ RouteThrough(rows, b, p) # Null
         /\ RouteThrough(rows, b, p).revision = b
         /\ p # Null => RouteThrough(rows, b, p).generation \in {1, p.generation}
         /\ p = Null => RouteThrough(rows, b, p).generation = 1
<1>1. rows[b] \in BindingRow /\ Null \notin PolicyRow /\ Null \notin Route
  BY CatalogAssumption, RouteAssumption
<1>2. rows[b].gateway \in Gateways \cup {Null} /\ rows[b].priority \in Priorities
  BY <1>1 DEF BindingRow
<1>3. Visible(p) \in BOOLEAN
  BY DEF Visible
<1>4. GenerationOf(p) \in Nat \ {0}
  BY <1>1 DEF GenerationOf, Visible, PolicyRow
<1>5. RouteThrough(rows, b, p) \in Route
  BY <1>2, <1>3, <1>4 DEF RouteThrough, Route
<1>. QED  BY <1>1, <1>5 DEF RouteThrough, GenerationOf, Visible

LEMMA NarrowedRows ==
  ASSUME NEW rows, NEW l, NEW hidden, NEW selected
  PROVE  /\ Narrowed(rows, l, hidden, selected) \in SUBSET Bindings
         /\ \A b \in Narrowed(rows, l, hidden, selected) : rows[b] # Null
BY DEF Narrowed

\* The decision of one instant is a route, within the bound on generations.
LEMMA DecisionOK ==
  ASSUME NEW rows \in [Bindings -> BindingRow \cup {Null}], Ranked(rows),
         NEW p \in PolicyRow \cup {Null}, NEW l
  PROVE  /\ DecisionFrom(rows, p, l) \in Route \cup {Null}
         /\ DecisionFrom(rows, p, l) # Null /\ (p # Null => p.generation <= MaxGeneration) =>
              DecisionFrom(rows, p, l).generation <= MaxGeneration
<1>. DEFINE choices == Narrowed(rows, l, Hidden(p), SelectedRevision(p))
<1>1. CASE choices = {}
  BY <1>1 DEF DecisionFrom
<1>2. CASE choices # {}
  <2>1. choices \in SUBSET Bindings /\ \A b \in choices : rows[b] # Null
    BY NarrowedRows
  <2>2. First(rows, choices) \in choices
    <3>. HIDE DEF choices
    <3>. QED  BY <1>2, <2>1, FirstIsOne
  <2>3. DecisionFrom(rows, p, l) = RouteThrough(rows, First(rows, choices), p)
    BY <1>2 DEF DecisionFrom
  <2>. HIDE DEF choices
  <2>4. First(rows, choices) \in Bindings /\ rows[First(rows, choices)] # Null
    BY <2>1, <2>2
  <2>5. MaxGeneration \in Nat \ {0}
    BY RepositoryAssumption
  <2>. QED  BY <2>3, <2>4, <2>5, RouteThroughOK
<1>. QED  BY <1>1, <1>2

LEMMA ServableRowsOK ==
  ASSUME RepositoryInv
  PROVE  /\ ServableRows(account, binding) \in [Bindings -> BindingRow \cup {Null}]
         /\ Ranked(ServableRows(account, binding))
         /\ \A b \in Bindings : ServableRows(account, binding)[b] # Null => PublishedLiteLLM(b)
<1>1. binding \in [Bindings -> BindingRow \cup {Null}]
  BY DEF RepositoryInv, SInv, IInv, TypeOK
<1>2. ServableRows(account, binding) \in [Bindings -> BindingRow \cup {Null}]
  BY <1>1 DEF ServableRows
<1>3. \A b \in Bindings : ServableRows(account, binding)[b] # Null =>
        binding[b] = ServableRows(account, binding)[b] /\ Servable(account, binding, b)
  BY DEF ServableRows
<1>4. Ranked(ServableRows(account, binding))
  BY <1>3 DEF RepositoryInv, Ranked
<1>5. \A b \in Bindings : Servable(account, binding, b) => PublishedLiteLLM(b)
  BY DEF Servable, Serves, Live, PublishedLiteLLM
<1>. QED  BY <1>2, <1>3, <1>4, <1>5

\* A label has a route as soon as one of its revisions is left to choose.
LEMMA RouteExists ==
  ASSUME RepositoryInv, NEW t \in Tenants, NEW l \in Labels, NEW b \in Bindings,
         Servable(account, binding, b), l \in binding[b].labels, ~Hidden(policy[t, l]),
         SelectedRevision(policy[t, l]) \in {Null, b}
  PROVE  RouteOf(account, binding, policy, t, l) # Null
<1>. DEFINE rows == ServableRows(account, binding)
            p == policy[t, l]
            choices == Narrowed(rows, l, Hidden(p), SelectedRevision(p))
<1>1. rows \in [Bindings -> BindingRow \cup {Null}] /\ Ranked(rows)
  BY ServableRowsOK
<1>2. p \in PolicyRow \cup {Null}
  BY DEF RepositoryInv, SInv, IInv, TypeOK
<1>3. rows[b] = binding[b] /\ binding[b] # Null
  BY DEF ServableRows, Servable, Serves, Live
<1>4. b \in choices
  BY <1>3 DEF Narrowed
<1>5. choices \in SUBSET Bindings /\ \A x \in choices : rows[x] # Null
  BY NarrowedRows
<1>6. RouteOf(account, binding, policy, t, l) = RouteThrough(rows, First(rows, choices), p)
  BY <1>4 DEF RouteOf, DecisionFrom
<1>. HIDE DEF rows, p, choices
<1>7. First(rows, choices) \in choices
  BY <1>1, <1>4, <1>5, FirstIsOne
<1>. DEFINE x == First(rows, choices)
<1>8. x \in Bindings /\ rows[x] # Null
  BY <1>5, <1>7
<1>. HIDE DEF x
<1>9. RouteThrough(rows, x, p) # Null
  BY <1>1, <1>2, <1>8, RouteThroughOK
<1>. QED  BY <1>6, <1>9 DEF x

-----------------------------------------------------------------------------
(* The repository keeps what the reads rely on.                            *)

\* The rank of the row that a method leaves.
LEMMA RankLeft ==
  ASSUME IInv, NEW c \in Callers, NEW b \in Bindings, NEW row \in BindingRow,
         BindingLeft(c, b, binding[b], row)
  PROVE  row.createdAt = IF binding[b] # Null THEN binding[b].createdAt
                         ELSE Cardinality({x \in Bindings : binding[x] # Null})
<1>1. CASE row = EnsuredBinding(b, call[c])
  BY <1>1 DEF EnsuredBinding
<1>2. CASE binding[b] # Null /\ row # EnsuredBinding(b, call[c])
  <2>1. binding[b] \in BindingRow
    BY <1>2 DEF IInv, TypeOK
  <2>. QED  BY <1>2, <2>1 DEF BindingLeft, BindingRow
<1>. QED  BY <1>1, <1>2 DEF BindingLeft

LEMMA RanksStay ==
  ASSUME RepositoryInv, NEW c \in Callers, BindingWrite(c)
  PROVE  Ranked(binding)' /\ RanksBelow'
<1>. DEFINE E == {x \in Bindings : binding[x] # Null}
            n == Cardinality(E)
<1>1. PICK b \in Bindings, row \in BindingRow :
        binding' = [binding EXCEPT ![b] = row] /\ BindingLeft(c, b, binding[b], row)
  BY DEF BindingWrite
<1>2. binding \in [Bindings -> BindingRow \cup {Null}] /\ Null \notin BindingRow /\ IInv
  BY CatalogAssumption DEF RepositoryInv, SInv, IInv, TypeOK
<1>3. IsFiniteSet(E) /\ n \in Nat
  BY CatalogAssumption, FS_Subset, FS_CardinalityType
<1>4. row.createdAt = IF binding[b] # Null THEN binding[b].createdAt ELSE n
  BY <1>1, <1>2, RankLeft
<1>5. binding'[b] = row /\ row # Null /\ \A x \in Bindings \ {b} : binding'[x] = binding[x]
  BY <1>1, <1>2
<1>6. \A x \in Bindings : binding[x] # Null => binding[x].createdAt \in Nat
  BY <1>2 DEF BindingRow
<1>7. /\ \A x \in Bindings : binding[x] # Null => binding[x].createdAt < n
      /\ \A x, y \in Bindings :
           binding[x] # Null /\ binding[y] # Null /\ binding[x].createdAt = binding[y].createdAt
             => x = y
  BY DEF RepositoryInv, Ranked, RanksBelow
<1>8. CASE binding[b] # Null
  <2>1. {x \in Bindings : binding'[x] # Null} = E
    BY <1>5, <1>8
  <2>2. \A x \in Bindings : binding'[x] # Null =>
          binding[x] # Null /\ binding'[x].createdAt = binding[x].createdAt
    BY <1>4, <1>5, <1>8
  <2>. HIDE DEF E
  <2>3. RanksBelow'
    BY <1>7, <2>1, <2>2 DEF RanksBelow
  <2>. QED  BY <1>7, <2>2, <2>3 DEF Ranked
<1>9. CASE binding[b] = Null
  <2>1. {x \in Bindings : binding'[x] # Null} = E \cup {b}
    BY <1>5
  <2>2. Cardinality(E \cup {b}) = n + 1
    BY <1>3, <1>9, FS_AddElement
  <2>3. row.createdAt = n
    BY <1>4, <1>9
  <2>4. \A x \in Bindings \ {b} : binding'[x] # Null =>
          binding'[x].createdAt \in Nat /\ binding'[x].createdAt < n
    BY <1>5, <1>6, <1>7
  <2>. HIDE DEF E, n
  <2>5. RanksBelow'
    BY <1>3, <1>5, <2>1, <2>2, <2>3, <2>4 DEF RanksBelow
  <2>6. \A x, y \in Bindings :
          binding'[x] # Null /\ binding'[y] # Null /\ binding'[x].createdAt = binding'[y].createdAt
            => x = y
    BY <1>3, <1>5, <1>7, <2>3, <2>4
  <2>. QED  BY <2>5, <2>6 DEF Ranked
<1>. QED  BY <1>8, <1>9

LEMMA BoundStays ==
  ASSUME RepositoryInv, NEW c \in Callers, PolicyWrite(c)
  PROVE  GenerationsBounded'
<1>1. PICK k \in Tenants \X Labels :
        /\ policy' = [policy EXCEPT ![k] = UpsertedPolicy(k, call[c])]
        /\ policy[k] # Null => policy[k].generation < MaxGeneration
  BY DEF PolicyWrite
<1>2. /\ policy \in [Tenants \X Labels -> PolicyRow \cup {Null}]
      /\ MaxGeneration \in Nat \ {0}
      /\ policy[k] # Null => policy[k].generation \in Nat
  BY RepositoryAssumption DEF RepositoryInv, SInv, IInv, TypeOK, PolicyRow
<1>3. UpsertedPolicy(k, call[c]).generation <= MaxGeneration
  BY <1>1, <1>2 DEF UpsertedPolicy
<1>4. ASSUME NEW j \in Tenants \X Labels, policy'[j] # Null
      PROVE  policy'[j].generation <= MaxGeneration
  <2>1. CASE j = k
    BY <1>1, <1>2, <1>3, <2>1
  <2>2. CASE j # k
    BY <1>1, <1>2, <1>4, <2>2 DEF RepositoryInv, GenerationsBounded
  <2>. QED  BY <2>1, <2>2
<1>. QED  BY <1>4 DEF GenerationsBounded

LEMMA InitRepositoryInv == Init => RepositoryInv
<1>. SUFFICES ASSUME Init PROVE RepositoryInv
  OBVIOUS
<1>1. SInv
  BY InitSInv
<1>2. Ranked(binding) /\ RanksBelow
  BY DEF Init, Ranked, RanksBelow
<1>3. GenerationsBounded
  BY DEF Init, GenerationsBounded
<1>. QED  BY <1>1, <1>2, <1>3 DEF RepositoryInv

LEMMA NextRepositoryInv ==
  ASSUME RepositoryInv, [Next]_vars
  PROVE  RepositoryInv'
<1>0. SInv /\ IInv /\ SInv'
  BY NextSInv DEF RepositoryInv, SInv
<1>1. CASE UNCHANGED binding
  <2>1. Ranked(binding)' /\ RanksBelow'
    BY <1>1 DEF RepositoryInv, Ranked, RanksBelow
  <2>2. CASE UNCHANGED policy
    BY <1>0, <2>1, <2>2 DEF RepositoryInv, GenerationsBounded
  <2>3. CASE ~ UNCHANGED policy
    BY <1>0, <2>1, <2>3, NextWritten, BoundStays
    DEF RepositoryInv, tables, AccountWrite, BindingWrite
  <2>. QED  BY <2>2, <2>3
<1>2. CASE ~ UNCHANGED binding
  <2>1. \E c \in Callers : BindingWrite(c)
    BY <1>0, <1>2, NextWritten DEF tables, AccountWrite, PolicyWrite
  <2>2. Ranked(binding)' /\ RanksBelow'
    BY <2>1, RanksStay
  <2>3. UNCHANGED policy
    BY <2>1 DEF BindingWrite
  <2>. QED  BY <1>0, <2>2, <2>3 DEF RepositoryInv, GenerationsBounded
<1>. QED  BY <1>1, <1>2

\* A policy that has left a row does not come back to it.
LEMMA PolicyMovesOn ==
  ASSUME RepositoryInv, [Next]_vars, NEW k \in Tenants \X Labels, NEW p \in PolicyRow \cup {Null},
         p # Null /\ policy[k] # p => policy[k] # Null /\ policy[k].generation > p.generation
  PROVE  /\ p # Null /\ policy'[k] # p => policy'[k] # Null /\ policy'[k].generation > p.generation
         /\ policy'[k] = p => policy[k] = p
<1>1. /\ IInv /\ IInv' /\ Null \notin PolicyRow
      /\ policy[k] \in PolicyRow \cup {Null} /\ policy'[k] \in PolicyRow \cup {Null}
  BY NextRepositoryInv, CatalogAssumption DEF RepositoryInv, SInv, IInv, TypeOK
<1>2. policy[k] # Null /\ policy'[k] # policy[k] =>
        policy'[k] # Null /\ policy'[k].generation > policy[k].generation
  BY <1>1, StepTakesGeneration
<1>3. \A row \in PolicyRow : row.generation \in Nat
  BY DEF PolicyRow
<1>. QED  BY <1>1, <1>2, <1>3
=============================================================================

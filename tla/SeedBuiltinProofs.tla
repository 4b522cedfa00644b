------------------------- MODULE SeedBuiltinProofs -------------------------
(***************************************************************************)
(* Theorems about SeedBuiltin, for any rows and any number of callers.     *)
(*                                                                         *)
(* A seed is three calls that anyone may run beside anyone.  What it has   *)
(* ensured so far is there as long as nobody else has written; a seed that *)
(* gets through has therefore left all of it, and another seed then finds  *)
(* every row as it would write it.                                         *)
(***************************************************************************)
EXTENDS SeedBuiltin, ModelRepositoryProofs

-----------------------------------------------------------------------------
(* What a seed has ensured.                                                *)

Builtin == AccountOf[BuiltinBinding]

AccountReady ==
  Live(account[Builtin]) /\ account[Builtin].status = "active"

\* The row a seed asks for, whatever its rank.
BindingReady ==
  LET row == binding[BuiltinBinding] IN
  /\ Live(row) /\ row.status = "active" /\ row.published
  /\ row.labels = {BuiltinLabel} /\ row.feature = BuiltinFeature
  /\ row.priority = BuiltinPriority /\ row.gateway = BuiltinGateway

\* The call a seed awaits is its own.
AwaitsOwn(c) ==
  call[c] # Null =>
    /\ seed[c] = "account" => call[c] = EnsureBuiltinAccount
    /\ seed[c] = "binding" => call[c] = EnsureBuiltinBinding

\* How far a seed that nobody disturbed has got.
CalmProgress(c) ==
  calm[c] =>
    /\ seed[c] # Null
    /\ seed[c] = "account" /\ call[c] = Null /\ at[c] = "ok" => AccountReady
    /\ seed[c] = "binding" => AccountReady
    /\ seed[c] = "binding" /\ call[c] = Null /\ at[c] = "ok" => BindingReady

Seeded == label = [default |-> BuiltinBinding] /\ AccountReady /\ BindingReady

SeedInv ==
  /\ RepositoryInv
  /\ label \in LabelRow \cup {Null}
  /\ seed \in [Callers -> {"account", "binding", Null}]
  /\ calm \in [Callers -> BOOLEAN] /\ settled \in BOOLEAN
  /\ \A c \in Callers : AwaitsOwn(c) /\ CalmProgress(c)
  /\ settled => Seeded

-----------------------------------------------------------------------------
(* The calls of a seed.                                                    *)

LEMMA BuiltinKnown ==
  /\ BuiltinBinding \in Bindings /\ Builtin \in Accounts
  /\ BuiltinLabel \in Labels
  /\ EnsureBuiltinAccount \in Requests /\ EnsureBuiltinAccount # Null
  /\ EnsureBuiltinAccount.method \in Methods
  /\ EnsureBuiltinBinding \in Requests /\ EnsureBuiltinBinding # Null
  /\ EnsureBuiltinBinding.method \in Methods
<1>1. EnsureBuiltinAccount \in Requests /\ EnsureBuiltinBinding \in Requests
  BY SeedAssumption DEF Requests
<1>2. EnsureBuiltinAccount # Null /\ EnsureBuiltinBinding # Null
  BY <1>1, RepositoryAssumption
<1>3. BuiltinBinding \in Bindings /\ {BuiltinLabel} \in LabelSets
  <2>1. EnsureBuiltinBinding.method = "ensureModelBinding"
        /\ EnsureBuiltinBinding.target = BuiltinBinding
        /\ EnsureBuiltinBinding.labels = {BuiltinLabel}
    BY DEF EnsureBuiltinBinding
  <2>. QED  BY <1>1, <2>1, BindingTarget DEF BindingUpdates
<1>4. Builtin \in Accounts /\ BuiltinLabel \in Labels
  BY <1>3, CatalogAssumption, RepositoryAssumption DEF Builtin
<1>5. EnsureBuiltinAccount.method \in Methods /\ EnsureBuiltinBinding.method \in Methods
  BY SeedAssumption DEF EnsureBuiltinAccount, EnsureBuiltinBinding
<1>. QED  BY <1>1, <1>2, <1>3, <1>4, <1>5

\* What a statement of the account's ensure does: an answer with a row is one
\* with the account ready, and a ready account is left as it is.
LEMMA AccountAwaited ==
  ASSUME IInv, NEW c \in Callers, CallStep(c), call[c] = EnsureBuiltinAccount
  PROVE  /\ UNCHANGED binding
         /\ call'[c] \in {Null, call[c]}
         /\ call'[c] = Null /\ at'[c] = "ok" => AccountReady'
         /\ AccountReady => UNCHANGED tables
<1>. DEFINE old == account[Builtin]
<1>1. /\ call[c].method = "ensureProviderAccount" /\ call[c].target = Builtin
      /\ call[c] # Null /\ Builtin \in Accounts
  BY BuiltinKnown DEF EnsureBuiltinAccount, Builtin
<1>2. call \in [Callers -> Requests \cup {Null}]
      /\ at \in [Callers -> Stages \cup Replies \cup {"idle"}]
      /\ account \in [Accounts -> AccountRow \cup {Null}]
  BY DEF IInv, TypeOK
<1>3. Fail(c) \/ ensureProviderAccount(c)
  BY <1>1 DEF CallStep, AccountStep, BindingStep, Begin, setProviderAccountStatus,
     setProviderHealthStatus, deleteProviderAccount, restoreProviderAccount,
     ensureModelBinding, setModelBindingStatus, deleteModelBinding, restoreModelBinding,
     upsertTenantModelPolicy, Running
<1>4. CASE Fail(c)
  BY <1>2, <1>4 DEF Fail, Answer, tables
<1>5. CASE Running(c, "ensureProviderAccount", "begun") /\ ensureProviderAccount(c)
  <2>1. UNCHANGED tables /\ (Answer(c, "deleted") \/ Proceed(c, "found"))
    BY <1>5 DEF ensureProviderAccount, Running
  <2>. QED  BY <1>1, <1>2, <2>1 DEF Answer, Proceed, tables
<1>6. CASE Running(c, "ensureProviderAccount", "found") /\ ensureProviderAccount(c)
  <2>1. /\ IF old = Null THEN SetAccount(Builtin, InsertedAccount)
           ELSE SetAccount(Builtin, [old EXCEPT !.status = "active"])
        /\ AnswerOrLose(c, IF account'[Builtin].deletedBy = Null THEN "ok" ELSE "deleted")
    BY <1>1, <1>6 DEF ensureProviderAccount, Running
  <2>2. UNCHANGED binding /\ call'[c] = Null
    BY <1>2, <2>1 DEF SetAccount, AnswerOrLose, Answer
  <2>3. account'[Builtin] \in AccountRow /\ account'[Builtin].status = "active"
    <3>1. CASE old = Null
      <4>1. InsertedAccount \in AccountRow /\ InsertedAccount.status = "active"
        BY DEF InsertedAccount, AccountRow, Status, Health
      <4>. QED  BY <1>1, <1>2, <2>1, <3>1, <4>1 DEF SetAccount
    <3>2. CASE old # Null
      <4>. DEFINE row == [old EXCEPT !.status = "active"]
      <4>1. old \in AccountRow
        BY <1>1, <1>2, <3>2
      <4>2. row \in AccountRow /\ row.status = "active"
        BY <4>1 DEF AccountRow, Status
      <4>3. account' = [account EXCEPT ![Builtin] = row]
        BY <2>1, <3>2 DEF SetAccount
      <4>. HIDE DEF row
      <4>. QED  BY <1>1, <1>2, <4>2, <4>3
    <3>. QED  BY <3>1, <3>2
  <2>4. at'[c] = "ok" => account'[Builtin].deletedBy = Null
    BY <1>2, <2>1 DEF AnswerOrLose, Answer
  <2>5. at'[c] = "ok" => AccountReady'
    <3>1. account'[Builtin] # Null
      BY <2>3, CatalogAssumption
    <3>. QED  BY <2>3, <2>4, <3>1 DEF AccountReady, Live, Builtin
  <2>6. AccountReady => UNCHANGED tables
    <3>. SUFFICES ASSUME AccountReady PROVE UNCHANGED tables
      OBVIOUS
    <3>1. old \in AccountRow /\ old # Null /\ old.status = "active"
      BY <1>1, <1>2 DEF AccountReady, Live
    <3>2. [old EXCEPT !.status = "active"] = old
      BY <3>1 DEF AccountRow
    <3>3. SetAccount(Builtin, old)
      BY <2>1, <3>1, <3>2
    <3>. QED  BY <1>2, <3>3 DEF SetAccount, tables
  <2>. QED  BY <2>2, <2>5, <2>6
<1>. QED  BY <1>3, <1>4, <1>5, <1>6 DEF ensureProviderAccount

\* The same of the binding's ensure, which looks at the account but leaves it.
LEMMA BindingAwaited ==
  ASSUME IInv, NEW c \in Callers, CallStep(c), call[c] = EnsureBuiltinBinding
  PROVE  /\ UNCHANGED account
         /\ call'[c] \in {Null, call[c]}
         /\ call'[c] = Null /\ at'[c] = "ok" => BindingReady'
         /\ BindingReady => UNCHANGED tables
<1>. DEFINE b == BuiltinBinding
            old == binding[b]
            row == EnsuredBinding(b, EnsureBuiltinBinding)
<1>1. /\ call[c].method = "ensureModelBinding" /\ call[c].target = b
      /\ call[c] # Null /\ b \in Bindings
  BY BuiltinKnown DEF EnsureBuiltinBinding
<1>2. call \in [Callers -> Requests \cup {Null}]
      /\ at \in [Callers -> Stages \cup Replies \cup {"idle"}]
      /\ binding \in [Bindings -> BindingRow \cup {Null}]
  BY DEF IInv, TypeOK
<1>3. Fail(c) \/ ensureModelBinding(c)
  BY <1>1 DEF CallStep, AccountStep, BindingStep, Begin, setProviderAccountStatus,
     setProviderHealthStatus, deleteProviderAccount, restoreProviderAccount,
     ensureProviderAccount, setModelBindingStatus, deleteModelBinding, restoreModelBinding,
     upsertTenantModelPolicy, Running
<1>4. CASE Fail(c)
  BY <1>2, <1>4 DEF Fail, Answer, tables
<1>5. CASE ensureModelBinding(c) /\ ~Running(c, "ensureModelBinding", "found")
  <2>1. /\ UNCHANGED tables
        /\ \/ Answer(c, "not_found") \/ Answer(c, "deleted")
           \/ Proceed(c, "account_found") \/ Proceed(c, "found")
    BY <1>5 DEF ensureModelBinding, Running
  <2>. QED  BY <1>1, <1>2, <2>1 DEF Answer, Proceed, tables
<1>6. CASE ensureModelBinding(c) /\ Running(c, "ensureModelBinding", "found")
  <2>1. /\ SetBinding(b, row)
        /\ AnswerOrLose(c, IF binding'[b].deletedBy = Null THEN "ok" ELSE "deleted")
    BY <1>1, <1>6 DEF ensureModelBinding, Running
  <2>2. UNCHANGED account /\ call'[c] = Null
    BY <1>2, <2>1 DEF SetBinding, AnswerOrLose, Answer
  <2>3. /\ row.status = "active" /\ row.published /\ row.labels = {BuiltinLabel}
        /\ row.feature = BuiltinFeature
        /\ row.priority = BuiltinPriority /\ row.gateway = BuiltinGateway
    BY DEF EnsuredBinding, EnsureBuiltinBinding
  <2>4. row \in BindingRow
    BY <1>1, <1>2, BuiltinKnown, EnsuredBindingOK
    DEF EnsureBuiltinBinding, IInv, TypeOK, TablesOK
  <2>5. BindingReady => row = old
    <3>. SUFFICES ASSUME BindingReady PROVE row = old
      OBVIOUS
    <3>1. /\ old \in BindingRow /\ old # Null /\ old.deletedBy = Null /\ old.status = "active"
          /\ old.published /\ old.labels = {BuiltinLabel} /\ old.feature = BuiltinFeature
          /\ old.priority = BuiltinPriority /\ old.gateway = BuiltinGateway
      BY <1>1, <1>2 DEF BindingReady, Live
    <3>2. row.createdAt = old.createdAt /\ row.deletedBy = old.deletedBy
      BY <3>1 DEF EnsuredBinding
    <3>. HIDE DEF row, old
    <3>. QED  BY <2>3, <2>4, <3>1, <3>2 DEF BindingRow
  <2>. HIDE DEF row
  <2>6. binding'[b] = row
    BY <1>1, <1>2, <2>1 DEF SetBinding
  <2>7. at'[c] = "ok" => row.deletedBy = Null
    BY <1>2, <2>1, <2>6 DEF AnswerOrLose, Answer
  <2>8. at'[c] = "ok" => BindingReady'
    <3>1. row # Null
      BY <2>4, CatalogAssumption
    <3>. QED  BY <2>3, <2>6, <2>7, <3>1 DEF BindingReady, Live
  <2>9. BindingReady => UNCHANGED tables
    BY <1>2, <2>1, <2>5 DEF SetBinding, tables
  <2>. QED  BY <2>2, <2>8, <2>9
<1>. QED  BY <1>3, <1>4, <1>5, <1>6

-----------------------------------------------------------------------------
(* The steps.                                                              *)

CalmNext ==
  calm' = [c \in Callers |->
    seed'[c] # Null /\ (seed[c] = Null \/ (calm[c] /\ (data' = data \/ Moves(c))))]

\* A step is one of the repository's as well.
LEMMA SeedStepsRepository == SeedNext => [Next]_vars
<1>. SUFFICES ASSUME SeedNext PROVE [Next]_vars
  OBVIOUS
<1>1. ASSUME NEW c \in Callers, SeedAccount(c) \/ SeedBinding(c)
      PROVE  Begin(c)
  <2>1. PICK r \in {EnsureBuiltinAccount, EnsureBuiltinBinding} :
          call' = [call EXCEPT ![c] = r]
    BY <1>1 DEF SeedAccount, SeedBinding, Await
  <2>2. r \in Requests /\ r.method \in Methods
    BY <2>1, BuiltinKnown
  <2>. QED  BY <1>1, <2>1, <2>2 DEF SeedAccount, SeedBinding, Await, Begin, data
<1>2. ASSUME NEW c \in Callers, SeedLabel(c) \/ SeedStops(c)
      PROVE  UNCHANGED vars
  BY <1>2 DEF SeedLabel, SeedStops
<1>. QED  BY <1>1, <1>2 DEF SeedNext, Statement, EnsureLabel, Next

\* A statement is a step of one caller, and a seed's caller begins nothing.
LEMMA StatementOfOne ==
  ASSUME SeedInv, Statement
  PROVE  \E c \in Callers :
           /\ CallStep(c)
           /\ seed[c] # Null => call[c] # Null
           /\ \A d \in Callers \ {c} : call'[d] = call[d] /\ at'[d] = at[d]
<1>1. PICK c \in Callers : CallStep(c)
  BY DEF Statement, Next, CallStep, AccountStep, BindingStep
<1>2. IInv /\ call \in [Callers -> Requests \cup {Null}]
      /\ at \in [Callers -> Stages \cup Replies \cup {"idle"}]
  BY DEF SeedInv, RepositoryInv, SInv, IInv, TypeOK
<1>3. Advances(c)
  BY <1>1, <1>2, NextAdvances DEF CallStep
<1>4. \A d \in Callers \ {c} : call'[d] = call[d] /\ at'[d] = at[d]
  BY <1>2, <1>3 DEF Advances, Begin, Answer, Proceed
<1>5. seed[c] # Null => call[c] # Null
  <2>1. call[c] = Null => call'[c] # Null
    BY <1>2, <1>3, RepositoryAssumption DEF Advances, Begin
  <2>. QED  BY <2>1 DEF Statement
<1>. QED  BY <1>1, <1>4, <1>5

\* A caller that does not move keeps what its seed has ensured, or is no
\* longer undisturbed.
LEMMA IdleKeeps ==
  ASSUME SeedInv, CalmNext, NEW d \in Callers,
         call'[d] = call[d], at'[d] = at[d], seed'[d] = seed[d]
  PROVE  AwaitsOwn(d)' /\ CalmProgress(d)'
<1>1. AwaitsOwn(d) /\ CalmProgress(d)
  BY DEF SeedInv
<1>2. calm'[d] => calm[d] /\ data' = data
  BY DEF CalmNext, Moves
<1>3. data' = data => account' = account /\ binding' = binding
  BY DEF data, tables
<1>. QED  BY <1>1, <1>2, <1>3 DEF AwaitsOwn, CalmProgress, AccountReady, BindingReady

\* The step of a caller leaves its own seed sound.
LEMMA SeedStepKeeps ==
  ASSUME SeedInv, CalmNext, NEW c \in Callers,
         SeedAccount(c) \/ SeedBinding(c) \/ SeedLabel(c) \/ SeedStops(c)
  PROVE  /\ \A d \in Callers : AwaitsOwn(d)' /\ CalmProgress(d)'
         /\ seed' \in [Callers -> {"account", "binding", Null}]
<1>1. /\ call \in [Callers -> Requests \cup {Null}]
      /\ at \in [Callers -> Stages \cup Replies \cup {"idle"}]
      /\ seed \in [Callers -> {"account", "binding", Null}]
  BY DEF SeedInv, RepositoryInv, SInv, IInv, TypeOK
<1>2. \A d \in Callers \ {c} : call'[d] = call[d] /\ at'[d] = at[d] /\ seed'[d] = seed[d]
  BY <1>1 DEF SeedAccount, SeedBinding, SeedLabel, SeedStops, Await, vars
<1>3. \A d \in Callers \ {c} : AwaitsOwn(d)' /\ CalmProgress(d)'
  BY <1>2, IdleKeeps
<1>4. seed' \in [Callers -> {"account", "binding", Null}]
  BY <1>1 DEF SeedAccount, SeedBinding, SeedLabel, SeedStops, Await
<1>5. AwaitsOwn(c) /\ CalmProgress(c)
  BY DEF SeedInv
<1>6. CASE SeedAccount(c)
  <2>1. seed'[c] = "account" /\ call'[c] = EnsureBuiltinAccount /\ call'[c] # Null
    BY <1>1, <1>6, BuiltinKnown DEF SeedAccount, Await
  <2>. QED  BY <1>3, <1>4, <2>1, SeedAssumption DEF AwaitsOwn, CalmProgress
<1>7. CASE SeedBinding(c)
  <2>1. /\ seed'[c] = "binding" /\ call'[c] = EnsureBuiltinBinding /\ call'[c] # Null
        /\ seed[c] = "account" /\ call[c] = Null /\ at[c] = "ok" /\ UNCHANGED data
    BY <1>1, <1>7, BuiltinKnown DEF SeedBinding, Await
  <2>2. calm'[c] => calm[c]
    BY <2>1, SeedAssumption DEF CalmNext
  <2>3. calm'[c] => AccountReady'
    BY <1>5, <2>1, <2>2 DEF CalmProgress, AccountReady, data, tables
  <2>. QED  BY <1>3, <1>4, <2>1, <2>3, SeedAssumption DEF AwaitsOwn, CalmProgress
<1>8. CASE SeedLabel(c) \/ SeedStops(c)
  <2>1. seed'[c] = Null
    BY <1>1, <1>8 DEF SeedLabel, SeedStops
  <2>2. ~ calm'[c]
    BY <2>1 DEF CalmNext
  <2>. QED  BY <1>3, <1>4, <2>1, <2>2, SeedAssumption DEF AwaitsOwn, CalmProgress
<1>. QED  BY <1>6, <1>7, <1>8

LEMMA StatementKeeps ==
  ASSUME SeedInv, CalmNext, Statement
  PROVE  \A d \in Callers : AwaitsOwn(d)' /\ CalmProgress(d)'
<1>1. PICK c \in Callers :
        /\ CallStep(c)
        /\ seed[c] # Null => call[c] # Null
        /\ \A d \in Callers \ {c} : call'[d] = call[d] /\ at'[d] = at[d]
  BY StatementOfOne
<1>2. UNCHANGED seed /\ IInv /\ AwaitsOwn(c) /\ CalmProgress(c)
  BY DEF Statement, SeedInv, RepositoryInv, SInv
<1>3. \A d \in Callers \ {c} : AwaitsOwn(d)' /\ CalmProgress(d)'
  BY <1>1, <1>2, IdleKeeps
<1>4. CASE seed[c] = Null
  <2>1. ~ calm'[c]
    BY <1>2, <1>4 DEF CalmNext
  <2>. QED  BY <1>2, <1>3, <1>4, <2>1, SeedAssumption DEF AwaitsOwn, CalmProgress
<1>5. CASE seed[c] = "account"
  <2>1. seed[c] # Null /\ call[c] = EnsureBuiltinAccount
    BY <1>1, <1>2, <1>5, SeedAssumption DEF AwaitsOwn
  <2>2. /\ call'[c] \in {Null, call[c]}
        /\ call'[c] = Null /\ at'[c] = "ok" => AccountReady'
    BY <1>1, <1>2, <2>1, AccountAwaited
  <2>. QED  BY <1>2, <1>3, <1>5, <2>1, <2>2 DEF AwaitsOwn, CalmProgress
<1>6. CASE seed[c] = "binding"
  <2>1. seed[c] # Null /\ call[c] = EnsureBuiltinBinding
    BY <1>1, <1>2, <1>6, SeedAssumption DEF AwaitsOwn
  <2>2. /\ UNCHANGED account
        /\ call'[c] \in {Null, call[c]}
        /\ call'[c] = Null /\ at'[c] = "ok" => BindingReady'
    BY <1>1, <1>2, <2>1, BindingAwaited
  <2>3. calm'[c] => calm[c]
    BY <2>1 DEF CalmNext
  <2>4. calm'[c] => AccountReady'
    BY <1>2, <1>6, <2>2, <2>3 DEF CalmProgress, AccountReady
  <2>. QED  BY <1>2, <1>3, <1>6, <2>1, <2>2, <2>4 DEF AwaitsOwn, CalmProgress
<1>7. seed[c] \in {"account", "binding", Null}
  BY DEF SeedInv
<1>. QED  BY <1>4, <1>5, <1>6, <1>7

\* In a seeded catalogue a seed writes each row as it is.
LEMMA SeedWritesNothing ==
  ASSUME SeedInv, settled, [SeedNext]_seedVars, NEW c \in Callers, Seeds(c)
  PROVE  UNCHANGED data
<1>1. Seeded /\ IInv /\ AwaitsOwn(c) /\ seed[c] \in {"account", "binding", Null}
  BY DEF SeedInv, RepositoryInv, SInv
<1>2. ~ UNCHANGED <<vars, seed>> /\ SeedNext
  BY DEF Seeds, Moves, seedVars, vars
<1>3. ~ EnsureLabel
  BY <1>2 DEF EnsureLabel
<1>4. ASSUME NEW d \in Callers, SeedAccount(d) \/ SeedBinding(d) \/ SeedLabel(d) \/ SeedStops(d)
      PROVE  UNCHANGED data
  BY <1>1, <1>4 DEF SeedAccount, SeedBinding, SeedLabel, SeedStops, Await, data, vars, tables,
     Seeded
<1>5. CASE Statement
  <2>1. PICK d \in Callers :
          /\ CallStep(d)
          /\ seed[d] # Null => call[d] # Null
          /\ \A e \in Callers \ {d} : call'[e] = call[e] /\ at'[e] = at[e]
    BY <1>5, StatementOfOne
  <2>2. UNCHANGED <<label, seed>>
    BY <1>5 DEF Statement
  <2>3. d = c
    BY <2>1, <2>2 DEF Seeds, Moves
  <2>4. call[c] \in {EnsureBuiltinAccount, EnsureBuiltinBinding}
    BY <1>1, <2>1, <2>3 DEF Seeds, AwaitsOwn
  <2>5. UNCHANGED tables
    BY <1>1, <2>1, <2>3, <2>4, AccountAwaited, BindingAwaited DEF Seeded
  <2>. QED  BY <2>2, <2>5 DEF data
<1>. QED  BY <1>2, <1>3, <1>4, <1>5 DEF SeedNext

LEMMA SettledStays ==
  ASSUME SeedInv, SeedNext, settled'
  PROVE  Seeded'
<1>1. CASE \E c \in Callers : Through(c)
  <2>1. PICK c \in Callers : SeedLabel(c) /\ calm[c]
    BY <1>1 DEF Through
  <2>2. AccountReady /\ BindingReady
    BY <2>1 DEF SeedInv, CalmProgress, SeedLabel
  <2>3. UNCHANGED vars /\ label' = [default |-> BuiltinBinding]
    BY <2>1 DEF SeedLabel
  <2>. QED  BY <2>2, <2>3 DEF Seeded, AccountReady, BindingReady, vars
<1>2. CASE settled /\ data' = data
  BY <1>2 DEF SeedInv, Seeded, AccountReady, BindingReady, data, tables
<1>3. CASE settled /\ \E c \in Callers : Seeds(c)
  <2>1. data' = data
    BY <1>3, SeedWritesNothing
  <2>. QED  BY <1>2, <1>3, <2>1
<1>. QED  BY <1>1, <1>2, <1>3 DEF SeedNext

-----------------------------------------------------------------------------
(* The invariant.                                                          *)

LEMMA InitSeedInv == SeedInit => SeedInv
<1>. SUFFICES ASSUME SeedInit PROVE SeedInv
  OBVIOUS
<1>1. RepositoryInv
  BY InitRepositoryInv DEF SeedInit
<1>2. call = [c \in Callers |-> Null]
  BY DEF SeedInit, Init
<1>. QED  BY <1>1, <1>2 DEF SeedInit, SeedInv, AwaitsOwn, CalmProgress

LEMMA NextSeedInv == SeedInv /\ [SeedNext]_seedVars => SeedInv'
<1>. SUFFICES ASSUME SeedInv, [SeedNext]_seedVars PROVE SeedInv'
  OBVIOUS
<1>1. CASE UNCHANGED seedVars
  <2>1. UNCHANGED vars /\ UNCHANGED <<label, seed, calm, settled>>
    BY <1>1 DEF seedVars
  <2>2. RepositoryInv'
    BY <2>1, NextRepositoryInv DEF SeedInv
  <2>. QED
    BY <2>1, <2>2
    DEF SeedInv, AwaitsOwn, CalmProgress, Seeded, AccountReady, BindingReady, vars
<1>2. CASE SeedNext
  <2>1. RepositoryInv'
    BY <1>2, SeedStepsRepository, NextRepositoryInv DEF SeedInv
  <2>2. CalmNext /\ calm' \in [Callers -> BOOLEAN] /\ settled' \in BOOLEAN
    BY <1>2 DEF SeedNext, CalmNext
  <2>3. label' \in LabelRow \cup {Null}
    <3>1. BuiltinBinding \in Bindings
      BY BuiltinKnown
    <3>. QED
      BY <1>2, <3>1 DEF SeedNext, SeedInv, Statement, EnsureLabel, SeedAccount, SeedBinding,
         SeedLabel, SeedStops, Await, data, LabelRow
  <2>4. /\ \A d \in Callers : AwaitsOwn(d)' /\ CalmProgress(d)'
        /\ seed' \in [Callers -> {"account", "binding", Null}]
    <3>1. CASE Statement
      BY <2>2, <3>1, StatementKeeps DEF Statement, SeedInv
    <3>2. CASE EnsureLabel
      BY <2>2, <3>2, IdleKeeps DEF EnsureLabel, SeedInv, vars
    <3>. QED  BY <1>2, <2>2, <3>1, <3>2, SeedStepKeeps DEF SeedNext
  <2>5. settled' => Seeded'
    BY <1>2, SettledStays
  <2>. QED  BY <2>1, <2>2, <2>3, <2>4, <2>5 DEF SeedInv
<1>. QED  BY <1>1, <1>2

LEMMA SeedInvariance == SeedSpec => []SeedInv
BY InitSeedInv, NextSeedInv, PTL DEF SeedSpec

-----------------------------------------------------------------------------
(* The theorems.                                                           *)

\* A seed calls the repository like anyone else: whatever the repository keeps
\* among its callers, it keeps with seeds among them.
THEOREM SeedsKeepRepository == SeedSpec => Spec
<1>1. SeedInit => Init
  BY DEF SeedInit
<1>2. [SeedNext]_seedVars => [Next]_vars
  BY SeedStepsRepository DEF seedVars
<1>. QED  BY <1>1, <1>2, PTL DEF SeedSpec, Spec

\* The rows, the calls and the seeds keep their types.
THEOREM SeedTypeCorrect == SeedSpec => []SeedTypeOK
<1>1. SeedInv => SeedTypeOK
  BY DEF SeedInv, SeedTypeOK, RepositoryInv, SInv, IInv
<1>. QED  BY <1>1, SeedInvariance, PTL

\* Wherever earlier seeds stopped and whatever was in the catalogue, a seed
\* that is through undisturbed leaves the builtin label with a route.
THEOREM SettledRoutes == SeedSpec => []SettledCatalogRoutes
<1>1. SeedInv => SettledCatalogRoutes
  <2>. SUFFICES ASSUME SeedInv, settled
                PROVE  /\ label = [default |-> BuiltinBinding]
                       /\ Live(binding[BuiltinBinding]) /\ Pinnable(BuiltinBinding)
                       /\ account[Builtin].health # "down" =>
                            \A t \in Tenants :
                              policy[t, BuiltinLabel] = Null =>
                                RouteOf(account, binding, policy, t, BuiltinLabel) # Null
    BY DEF SettledCatalogRoutes, Builtin
  <2>1. Seeded /\ RepositoryInv
    BY DEF SeedInv
  <2>2. Live(binding[BuiltinBinding]) /\ Pinnable(BuiltinBinding)
    BY <2>1, SeedAssumption DEF Seeded, BindingReady, Pinnable
  <2>3. ASSUME account[Builtin].health # "down", NEW t \in Tenants, policy[t, BuiltinLabel] = Null
        PROVE  RouteOf(account, binding, policy, t, BuiltinLabel) # Null
    <3>1. Servable(account, binding, BuiltinBinding)
      BY <2>1, <2>3, SeedAssumption
      DEF Seeded, BindingReady, AccountReady, Servable, Serves, AccountServes, Builtin
    <3>2. BuiltinLabel \in binding[BuiltinBinding].labels
      BY <2>1 DEF Seeded, BindingReady
    <3>3. ~Hidden(policy[t, BuiltinLabel]) /\ SelectedRevision(policy[t, BuiltinLabel]) = Null
      BY <2>3 DEF Hidden, SelectedRevision, Visible
    <3>. QED  BY <2>1, <3>1, <3>2, <3>3, BuiltinKnown, RouteExists
  <2>. QED  BY <2>1, <2>2, <2>3 DEF Seeded
<1>. QED  BY <1>1, SeedInvariance, PTL

\* Run again by any number of callers at once, and stopping anywhere, the seed
\* changes nothing of a catalogue that has been seeded.
THEOREM SeedTwiceIsSeedOnce == SeedSpec => SeedIsIdempotent
<1>1. SeedInv /\ [SeedNext]_seedVars =>
        [settled /\ (\E c \in Callers : Seeds(c)) => UNCHANGED data]_seedVars
  BY SeedWritesNothing
<1>. QED  BY <1>1, SeedInvariance, PTL DEF SeedSpec, SeedIsIdempotent
=============================================================================

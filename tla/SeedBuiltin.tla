---------------------------- MODULE SeedBuiltin ----------------------------
(***************************************************************************)
(* seedBuiltinCatalog, run by anyone at any time beside the other callers  *)
(* of the repository: it ensures the builtin account, then the builtin     *)
(* binding, then the label that names this binding as its default, under   *)
(* neither a transaction nor a lock.  It may stop after any statement and  *)
(* be run again.                                                           *)
(*                                                                         *)
(* A caller awaits a call of a seed or a call of its own.  Of model_label  *)
(* only the default binding of the builtin label is kept.                  *)
(***************************************************************************)
EXTENDS ModelRepository

CONSTANTS BuiltinBinding, BuiltinLabel, BuiltinFeature, BuiltinGateway, BuiltinPriority

VARIABLES
  label,      \* the row of the builtin label, or Null
  seed,       \* the call that the seed of a caller awaits, or Null
  \* History, which no step reads.
  calm,       \* nobody else has written since the caller's seed began
  settled     \* a calm seed was through, and only seeds have written since

data == <<tables, label>>
seedVars == <<vars, label, seed, calm, settled>>

LabelRow == [default : Bindings \cup {Null}]

\* BUILTIN_PROVIDER and BUILTIN_BINDING, as the calls that ensure them.
EnsureBuiltinAccount ==
  [method |-> "ensureProviderAccount", target |-> AccountOf[BuiltinBinding]]

EnsureBuiltinBinding ==
  [method |-> "ensureModelBinding", target |-> BuiltinBinding, labels |-> {BuiltinLabel},
   feature |-> BuiltinFeature, priority |-> BuiltinPriority, gateway |-> BuiltinGateway]

ASSUME SeedAssumption ==
  /\ {EnsureBuiltinAccount, EnsureBuiltinBinding} \subseteq EnsureRequests
  /\ {"ensureProviderAccount", "ensureModelBinding"} \subseteq Methods
  /\ TransportOf[BuiltinBinding] = "litellm"
  /\ BuiltinGateway # Null
  /\ Null \notin LabelRow \cup {"account", "binding"}

SeedTypeOK ==
  /\ TypeOK
  /\ label \in LabelRow \cup {Null}
  /\ seed \in [Callers -> {"account", "binding", Null}]
  /\ calm \in [Callers -> BOOLEAN] /\ settled \in BOOLEAN

-----------------------------------------------------------------------------
Await(c, step, request) ==
  /\ seed' = [seed EXCEPT ![c] = step]
  /\ call' = [call EXCEPT ![c] = request]
  /\ at' = [at EXCEPT ![c] = "begun"]
  /\ UNCHANGED data

SeedAccount(c) ==
  /\ seed[c] = Null /\ call[c] = Null
  /\ Await(c, "account", EnsureBuiltinAccount)

\* Mutant of SeedBinding: an account that could not be ensured is passed over.
SeedBindingAnyway(c) ==
  /\ seed[c] = "account" /\ call[c] = Null
  /\ Await(c, "binding", EnsureBuiltinBinding)

SeedBinding(c) ==
  /\ seed[c] = "account" /\ call[c] = Null /\ at[c] = "ok"
  /\ Await(c, "binding", EnsureBuiltinBinding)

\* The upsert of the label; the seed is through, whether it hears so or not.
SeedLabel(c) ==
  /\ seed[c] = "binding" /\ call[c] = Null /\ at[c] = "ok"
  /\ label' = [default |-> BuiltinBinding]
  /\ seed' = [seed EXCEPT ![c] = Null]
  /\ UNCHANGED vars

\* Mutant of SeedStops: a seed that stops takes its label back.
SeedStopsUndoing(c) ==
  /\ seed[c] # Null /\ call[c] = Null
  /\ seed' = [seed EXCEPT ![c] = Null]
  /\ label' = Null
  /\ UNCHANGED vars

\* The awaited call has thrown, or the script dies between two of its calls.
SeedStops(c) ==
  /\ seed[c] # Null /\ call[c] = Null
  /\ seed' = [seed EXCEPT ![c] = Null]
  /\ UNCHANGED <<vars, label>>

\* An operator ensures the label with another default, or with none.
EnsureLabel ==
  /\ \E b \in Bindings \cup {Null} :
       /\ b # Null => binding[b] # Null
       /\ label' = [default |-> b]
  /\ UNCHANGED <<vars, seed>>

\* A statement of any call.  The call a seed awaits is not of its caller's choice.
Statement ==
  /\ Next
  /\ \A c \in Callers : seed[c] # Null => ~(call[c] = Null /\ call'[c] # Null)
  /\ UNCHANGED <<label, seed>>

-----------------------------------------------------------------------------
\* The step is one of caller c.
Moves(c) == <<call'[c], at'[c], seed'[c]>> # <<call[c], at[c], seed[c]>>

\* The step is one of a seed of caller c, or the upsert that ends it.
Seeds(c) == seed[c] # Null /\ Moves(c)

Through(c) == SeedLabel(c) /\ calm[c]

SeedInit ==
  /\ Init
  /\ label \in LabelRow \cup {Null}
  /\ label # Null /\ label.default # Null => binding[label.default] # Null
  /\ seed = [c \in Callers |-> Null]
  /\ calm = [c \in Callers |-> FALSE] /\ settled = FALSE

SeedNext ==
  /\ \/ Statement
     \/ EnsureLabel
     \/ \E c \in Callers : SeedAccount(c) \/ SeedBinding(c) \/ SeedLabel(c) \/ SeedStops(c)
  /\ calm' = [c \in Callers |->
       seed'[c] # Null /\ (seed[c] = Null \/ (calm[c] /\ (data' = data \/ Moves(c))))]
  /\ settled' = \/ \E c \in Callers : Through(c)
                \/ /\ settled
                   /\ data' = data \/ (\E c \in Callers : Seeds(c))

SeedSpec == SeedInit /\ [][SeedNext]_seedVars

-----------------------------------------------------------------------------
\* Wherever earlier seeds stopped, one that is through undisturbed leaves the
\* builtin label with a route for every tenant whose policy does not say
\* otherwise, unless the account is marked down, which no seed undoes.
SettledCatalogRoutes ==
  settled =>
    /\ label = [default |-> BuiltinBinding]
    /\ Live(binding[BuiltinBinding]) /\ Pinnable(BuiltinBinding)
    /\ account[AccountOf[BuiltinBinding]].health # "down" =>
         \A t \in Tenants :
           policy[t, BuiltinLabel] = Null =>
             RouteOf(account, binding, policy, t, BuiltinLabel) # Null

\* Run again, by any number of callers at once, and stopping anywhere, the
\* seed changes nothing of a catalogue that has been seeded.
SeedIsIdempotent ==
  [][settled /\ (\E c \in Callers : Seeds(c)) => UNCHANGED data]_seedVars
=============================================================================

SPECIFICATION SeedSpec
CONSTANTS
  a1 = a1
  b1 = b1
  BuiltinBinding = b1
  BuiltinLabel = l1
  BuiltinFeature = f1
  f1 = f1
  BuiltinGateway = g1
  BuiltinPriority = 1
  g1 = g1
  l1 = l1
  Accounts = {a1}
  Labels = {l1}
  Tenants = {t1}
  Features = {f1}
  Callers = {c1, c2}
  Gateways = {g1}
  Null = Null
  Undefined = Undefined
  AccountOf <- MCAccountOf
  Priorities <- MCPriorities
  LabelSets <- MCLabelSets
  MaxGeneration = 2
  Bindings = {b1}
  Operators = {o1}
  TransportOf <- LiteLLMOnly
  Methods = {"ensureProviderAccount", "setProviderAccountStatus", "setProviderHealthStatus", "deleteProviderAccount", "restoreProviderAccount", "ensureModelBinding", "setModelBindingStatus", "deleteModelBinding", "restoreModelBinding"}
INVARIANTS
  SeedTypeOK
  SettledCatalogRoutes
PROPERTIES
  AcknowledgedEnsureIsLive
  RejectedMutationKeepsRoutes
  OnlyRestoreRevives
  ImplementsLifecycle
  SeedIsIdempotent
SYMMETRY CallerSymmetry

SPECIFICATION Spec
CONSTANTS
  a1 = a1
  b1 = b1
  l1 = l1
  Accounts = {a1}
  Labels = {l1}
  Tenants = {t1}
  Features = {f1}
  Callers = {c1, c2}
  Gateways = {g1}
  Null = Null
  Undefined = Undefined
  AccountOf <- MCAccountOf
  Priorities <- MCPriorities
  LabelSets <- MCLabelSets
  MaxGeneration = 2
  Bindings = {b1}
  Operators = {o1}
  TransportOf <- LiteLLMOnly
  Methods = {"ensureProviderAccount", "setProviderAccountStatus", "setProviderHealthStatus", "deleteProviderAccount", "restoreProviderAccount", "ensureModelBinding", "setModelBindingStatus", "deleteModelBinding", "restoreModelBinding", "upsertTenantModelPolicy"}
INVARIANTS
  TypeOK
  PinnedRevisionIsPublished
PROPERTIES
  PolicyChangeTakesNewGeneration
SYMMETRY CallerSymmetry

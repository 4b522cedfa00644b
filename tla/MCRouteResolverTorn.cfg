SPECIFICATION ResolverSpec
CONSTANTS
  a1 = a1
  b1 = b1
  b2 = b2
  l1 = l1
  Accounts = {a1}
  Bindings = {b1, b2}
  Labels = {l1}
  Tenants = {t1}
  Features = {f1}
  Operators = {o1}
  Gateways = {g1}
  Callers = {c1}
  Readers = {r1}
  Null = Null
  Undefined = Undefined
  AccountOf <- MCAccountOf
  TransportOf <- MCTransportOf
  Priorities <- MCPriorities
  LabelSets <- MCLabelSets
  MaxGeneration = 2
  Methods = {"upsertTenantModelPolicy"}
INVARIANTS
  AnswerObeysTheQuotedPolicy

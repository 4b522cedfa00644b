SPECIFICATION CatalogSpec
CONSTANTS
  a1 = a1
  b1 = b1
  b2 = b2
  Accounts = {a1}
  Bindings = {b1, b2}
  Labels = {l1}
  Tenants = {t1}
  Features = {f1, f2}
  Operators = {o1}
  Gateways = {g1}
  Callers = {c1}
  Readers = {r1}
  Asked = {f1, f2}
  Null = Null
  Undefined = Undefined
  AccountOf <- MCAccountOf
  TransportOf <- MCTransportOf
  Priorities <- MCPriorities
  LabelSets <- MCLabelSets
  MaxGeneration = 1
  Methods = {"upsertTenantModelPolicy", "ensureModelBinding"}
INVARIANTS
  CatalogTypeOK
  RoutableLabelIsOffered
  ItemIsAtomicWhilePolicyStands
SYMMETRY FeatureSymmetry

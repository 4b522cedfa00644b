SPECIFICATION Spec
CONSTANTS
  Null = Null
  Keys = {1, 2, 3, 4}
  CreatedAt <- MCCreatedAt
  Priorities = {1, 2}
  Contents = {x}
  Resources = {"admin-model-bindings", "model-bindings"}
  Walkers = {w1}
  Limits = {0, 1, 2}
  MaxLimit = 2
INVARIANTS
  TypeOK
  CalmCursorIsAccepted
PROPERTIES
  WalksAreExact

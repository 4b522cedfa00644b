SPECIFICATION FairSpec
CONSTANTS
  Null = Null
  Clients = {c1}
  Offered <- MCRoutes
  Named <- MCNamed
  Vaults <- MCVaults
INVARIANTS
  TypeOK
  CallersStayInTheirLayer
  ProductionServesEveryRoute
  AnswersTellTheTruth
  ConnectionsOutliveHandlers
PROPERTIES
  ShutdownEnds
CHECK_DEADLOCK FALSE

SPECIFICATION FairSpec
CONSTANTS
  d1 = d1
  Null = Null
  Absent = Absent
  Unavailable = Unavailable
  Decisions <- MCDecisions
  Keys = {k1, k2}
  Readers = {r1}
  Writers = {w1, w2}
  WriteMethods = {"setModelBindingStatus", "setProviderHealthStatus"}
  Faults = TRUE
  TTL = 2
INVARIANTS
  TypeOK
  NoUnexplainedStaleness
PROPERTIES
  AnswersAreShared
  EventuallyFresh

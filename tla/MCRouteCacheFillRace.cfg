SPECIFICATION Spec
CONSTANTS
  d1 = d1
  Null = Null
  Absent = Absent
  Unavailable = Unavailable
  Decisions <- MCDecisions
  Keys = {k1}
  Readers = {r1}
  Writers = {w1}
  WriteMethods = {"setModelBindingStatus"}
  Faults = FALSE
  TTL = 1
INVARIANTS
  WritesLeaveNothingStale

SPECIFICATION Spec
CONSTANTS
  f1 = f1
  f2 = f2
  Setups <- AuditOrState
  Flushes = {f1, f2}
  Every = 4
  Fails = {"append", "set"}
  MaxEvaluations = 2
  MaxCrashes = 1
CHECK_DEADLOCK FALSE
INVARIANTS
  WrittenInOrder
  NoSilentLoss
PROPERTIES
  EveryFlushSettles

SPECIFICATION Spec
CONSTANTS
  g1 = g1
  g2 = g2
  r1 = r1
  r2 = r2
  shared = shared
  partial = partial
  memory = memory
  broken = broken
  Guards <- MCGuards
  Requests <- MCRequests
  Stores <- MCStores
  KindOf <- MCKindOf
  Configs <- MCConfigs
  Assignable = {"signers", "provider", "authorities", "replayStore", "tenancy"}
  Delegations <- MCDelegations
  NoDelegation <- None
  Calls <- MCCalls
  Keys = {"k1", "k2", "krl", "alias"}
  KeySets <- MCKeySets
  FirstKeys = {"k1"}
  Injected <- MCInjected
  Fresh = "fresh"
  Primitive = "primitive"
  DenyError = "deny"
  SharedErrors = {"error"}
  Thrown = {"fresh", "primitive", "deny", "error"}
  MaxChanges = 1
SYMMETRY Interchangeable
CHECK_DEADLOCK FALSE
INVARIANTS
  EnforcedAsConstructed
  OneUsePerReplayDomain
  ReportsAreTrue

SPECIFICATION Spec
CONSTANTS
  a1 = a1
  n1 = n1
  i1 = i1
  i2 = i2
  r1 = r1
  r2 = r2
  r3 = r3
  d1 = d1
  Agents = {a1}
  Configured = {a1}
  Nonces = {n1}
  Tools = {}
  NoTool = NoTool
  BudgetLimit <- MCBudgetLimit
  MaxAmount <- MCMaxAmount
  MaxConcurrent <- MCMaxConcurrent
  MaxDepth <- MCMaxDepth
  MaxCalls <- MCMaxCalls
  MaxCallsByTool <- MCMaxCallsByTool
  ToolWindow = 1
  VelocityWindow = 2
  MaxActions = 3
  ReplayWindow = 1
  MaxNonces = 3
  MaxClockSkew = 1
  MaxIntentAge = 1
  Ttl = 2
  PolicyVersion = "v1"
  Instances = {i1}
  Requests <- MixedRequests
  InstanceOf <- OneInstance
  IntentOf <- MixedIntent
  DelegationOf <- MixedDelegation
  NoDelegation = NoDelegation
  DelegationIds = {d1}
  SharedStore = FALSE
  Evicts = FALSE
  StoresDelegations = TRUE
  AuthoritiesConfigured = TRUE
  RequireRevocation = TRUE
  RevocationProvider = TRUE
  KrlConfigured = TRUE
  Faults = {"replayStore", "revocation"}
  Fresh = Fresh
  DenyError = DenyError
  SharedErrors = {}
  Thrown = {Fresh}
  MaxTime = 2
  MaxVersion = 0
  MaxCrashes = 1
CHECK_DEADLOCK FALSE
INVARIANTS
  UsedOrRevokedNeverRuns

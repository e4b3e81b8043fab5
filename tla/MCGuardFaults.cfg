SPECIFICATION Spec
CONSTANTS
  a1 = a1
  n1 = n1
  i1 = i1
  i2 = i2
  r1 = r1
  r2 = r2
  r3 = r3
  d1 = d1
  Agents = {a1}
  Configured = {a1}
  Nonces = {n1}
  Tools = {}
  NoTool = NoTool
  BudgetLimit <- MCBudgetLimit
  MaxAmount <- MCMaxAmount
  MaxConcurrent <- MCMaxConcurrent
  MaxDepth <- MCMaxDepth
  MaxCalls <- MCMaxCalls
  MaxCallsByTool <- MCMaxCallsByTool
  ToolWindow = 1
  VelocityWindow = 2
  MaxActions = 2
  ReplayWindow = 1
  MaxNonces = 3
  MaxClockSkew = 1
  MaxIntentAge = 1
  Ttl = 1
  PolicyVersion = "v1"
  Instances = {i1, i2}
  Requests <- TwinRequests
  InstanceOf <- TwoInstances
  IntentOf <- TwinIntent
  DelegationOf <- TwinDelegation
  NoDelegation = NoDelegation
  DelegationIds = {d1}
  SharedStore = FALSE
  Evicts = FALSE
  StoresDelegations = TRUE
  AuthoritiesConfigured = TRUE
  RequireRevocation = FALSE
  RevocationProvider = FALSE
  KrlConfigured = FALSE
  Faults = {"getState","normalize","engine","verify","setState","replayStore","beforeExecute","execute"}
  Fresh = Fresh
  DenyError = DenyError
  SharedErrors = {}
  Thrown = {Fresh}
  MaxTime = 1
  MaxVersion = 2
  MaxCrashes = 1
INVARIANTS
  NoIntentExecutedTwice
  OutcomesReportedTruthfully
PROPERTIES
  EngineSpec
  EveryRequestSettles
CHECK_DEADLOCK FALSE

SPECIFICATION Spec
CONSTANTS
  a1 = a1
  a2 = a2
  n1 = n1
  n2 = n2
  n3 = n3
  t1 = t1
  Agents <- MCAgents
  Configured <- MCConfigured
  Nonces = {n1, n2, n3}
  Tools = {t1}
  NoTool = NoTool
  BudgetLimit <- MCBudgetLimit
  MaxAmount <- MCMaxAmount
  MaxConcurrent <- MCMaxConcurrent
  MaxDepth <- MCMaxDepth
  MaxCalls <- MCMaxCalls
  MaxCallsByTool <- MCMaxCallsByTool
  ToolWindow = 2
  VelocityWindow = 4
  MaxActions = 2
  ReplayWindow = 1
  MaxNonces = 2
  MaxClockSkew = 1
  MaxIntentAge = 1
  Ttl = 3
  PolicyVersion = "v1"
  Intents <- MCIntents
  MaxTime = 4
CHECK_DEADLOCK FALSE
INVARIANTS
  NoIntentAdmittedTwice
  LeaseAccounting
  BudgetRespected
  LiveAuthorizationsAreLeased
  VelocityBurstBound
  ToolWindowBound

SPECIFICATION Spec
CONSTANTS
  Requests = {q1, q2}
  Tools = {t1, t2}
  Policies = {"known", "unknown"}
  KnownPolicies = {"known"}
  Deployments = {"memory", "map", "demo"}
  AdapterConfigs <- Configs
  KeyAnswers <- Answers
  Values <- Kinds
  MaxAge = 1
  MaxSkew = 1
  Offsets = {0, 2}
  MaxSafe = 2
  MaxReceipts = 1
  MaxAuths = 2
  MaxNow = 3
  MaxEvents = 1
INVARIANTS
  EffectsTraceToFreshAllow
  SecondUseOnlyAfterEviction
  AnswersMatchEffects
SYMMETRY Symmetric
CHECK_DEADLOCK FALSE

SPECIFICATION Spec
CONSTANTS
  r1 = r1
  r2 = r2
  d1 = d1
  a1 = a1
  a2 = a2
  Requests = {r1, r2, d1}
  Direct = {d1}
  Auths = {a1, a2}
  Presented <- MCPresented
  ActionOf <- MCActionOf
  IssuerOf <- MCIssuerOf
  Expiry <- ExpiresAt2
  OptionValues <- MCOptionValues
  FirstOptions <- Deployed
  DirectHeaders <- MCDirectHeaders
  Evicts = TRUE
  Durable = TRUE
  StoreFails = TRUE
  Timeout = TRUE
  MaxTime = 3
  MaxCrashes = 1
  MaxChanges = 1
CHECK_DEADLOCK FALSE
INVARIANTS
  OutcomeIsHonest
  ExecutedAsVerified
  TimelyPresentationsDispatchOnce
PROPERTIES
  EveryCallerIsAnswered

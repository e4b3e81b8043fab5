SPECIFICATION RevocationSpec
CONSTANTS
  K = "k"
  e1 = e1
  e2 = e2
  Scopes <- TwoScopes
  KeyIssuersOf <- Overlapping
  Krls <- Lists
  KrlKeySets <- KeySets
  Evaluations = {e1, e2}
  KeysOf <- AsksAboutK
  Durable = TRUE
  StoreFails = TRUE
  MaxTime = 2
  MaxCrashes = 1
SYMMETRY EvaluationSymmetry
CHECK_DEADLOCK FALSE
INVARIANTS
  PassesOnlyOnCurrentEvidence
  RevokedStaysRevoked
  HarnessesConfirmCore

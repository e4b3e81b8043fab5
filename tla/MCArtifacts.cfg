CONSTANTS
  Holders = {"pdp", "ops"}
  Policies = {"p1", "p2"}
  Agents = {"A", "B"}
  Owner = "A"
  Delegatee = "B"
  TrustedKeySets <- MCKeySets
  AuthorityPairs <- MCPairs
  SignerPairs <- MCSigners
  Scopes <- MCScopes
  Options <- MCOptions
  MaxSkew = 1
  MaxNow = 2
  MaxChanges = 1
SPECIFICATION Spec
CONSTRAINT Bounds
CHECK_DEADLOCK FALSE
INVARIANTS
  AcceptedOncePerArtifact
  AcceptedAsSigned
  DelegationNeverWidens

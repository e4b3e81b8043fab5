SPECIFICATION ReleaseSpec
CONSTANTS
  N = 2
  F2 = {1, 2}
  DependsOn <- MCDependsOn
  MaxRev = 2
  MaxDirs = 2
  MaxFaults = 1
  MaxDrift = 1
CHECK_DEADLOCK FALSE
INVARIANTS
  DependenciesPublishFirst
  PromotedSetIsOneBuild
  EffectsAreOnRecord

SPECIFICATION Spec
CONSTANTS
  c1 = c1
  r1 = r1
  NoKid = NoKid
  Calls = {c1, r1}
  KidOf <- Kids
  Issuers = {"krl"}
  Krls <- Lists
  KeySets = {{}, {"kid"}}
  Modes = {"signed_required", "signed_preferred", "unsigned_legacy"}
  Stores = {"none", "atomic", "file"}
  HasCache = TRUE
  Fails = {"fetch", "list", "set", "cacheSet", "cacheGet"}
  MaxTime = 1
  MaxCrashes = 1
CHECK_DEADLOCK FALSE
INVARIANTS
  InForceAsReported
  RecordedBeforeAccepted
  FetchedKeysAreCheckedAgain

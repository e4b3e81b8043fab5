SPECIFICATION CliSpec
CONSTANTS
  Procs = {p1, p2}
  Policies <- PolicyFiles
  Nonces = {1, 2}
  Launches <- Launchings
  Ttls = {60, 120}
  Holders = {"h", "other"}
  VerifyFlags <- Flags
  Commands <- SeveralAwaits
  Inspections <- OneRead
  MaxRuns = 3
  MaxNow = 1
  MaxFaults = 1
VIEW WithoutExit
CHECK_DEADLOCK FALSE
INVARIANTS
  AllowPrintedOncePerNonce
  VerdictsHold
PROPERTIES
  EnvelopeCoversSnapshot
  RestoresWhatItExported

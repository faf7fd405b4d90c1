SPECIFICATION FairSpec
CONSTANTS
  Uuids = {u1}
  NoUuid = NoUuid
  Kinds = {"github"}
  MaxVersion = 2
  MaxJobs = 2
  MaxChecks = 1
  MaxFaults = 1
  OneAtATime = TRUE
  Uninstalls = TRUE
INVARIANTS
  InStep
  NeverAhead
PROPERTY InstallsSettle

SPECIFICATION Spec
CONSTANTS
  Uuids = {u1}
  NoUuid = NoUuid
  Kinds = {"ego"}
  MaxVersion = 2
  MaxJobs = 2
  MaxChecks = 1
  MaxFaults = 0
  OneAtATime = TRUE
  Uninstalls = FALSE
INVARIANT MarkedHasUpdate

SPECIFICATION FairSpec
CONSTANTS
  Uuids = {a}
  NoUuid = NoUuid
  MaxBatch = 2
  MaxRawEvents = 2
  MaxStarts = 2
  MaxEvents = 3
  MaxInFlight = 2
INVARIANTS
  ClearedStaysCleared
  AcksMatchStarts
  InStep
  NothingLost
PROPERTIES
  EventsAreShown
  StartsSettle

SPECIFICATION ScanSpec
CONSTANTS
  root = root
  a = a
  b = b
  pa = pa
  pq = pq
  idx = idx
  run = run
  fetch = fetch
  NoObject = NoObject
  Root = root
  Objects <- MCObjects
  Names <- MCNames
  IndexNames <- MCIndexNames
  Graphs <- MCGraphs
  LimitSets <- MCLimitSets
INVARIANTS ScanIsComplete WrapsWhatWasSeen ShallowFirst
CHECK_DEADLOCK FALSE

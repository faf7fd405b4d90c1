SPECIFICATION MCSpec
CONSTANTS
  m1 = m1
  m2 = m2
  fn1 = fn1
  fn2 = fn2
  Uuids = {u1}
  Clients = {c1}
  Slots <- MCSlots
  Funcs <- MCFuncs
  NoValue = NoValue
  MaxBatch = 2
  Reentrant = FALSE
  MaxSessions = 2
  MaxWrites = 2
  MaxEvents = 2
  MaxDepth = 2
INVARIANTS
  Transparent
  ExactlyRestored
  BatchOfOneRecording
  FlushArmed
  DepthIsNesting
PROPERTY RecorderSpec

SPECIFICATION FairSpec
CONSTANTS
  Conns = {c1, c2, c3}
  NoConn = NoConn
  Objects = {k1, k2}
  NoObject = NoObject
  MaxSends = 2
  MaxLines = 1
  MaxDrops = 1
  MaxAppRuns = 2
  MaxEvents = 2
INVARIANTS
  SignalsAlternate
  QueueIsServed
  SentInOrder
PROPERTY Heals
CHECK_DEADLOCK FALSE

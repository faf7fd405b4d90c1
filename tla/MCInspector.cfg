SPECIFICATION Spec
CONSTANTS
  e1 = e1
  e2 = e2
  obj = obj
  map = map
  arr = arr
  Uuids <- MCUuids
  NoUuid = NoUuid
  Objs <- MCObjs
  Prim = Prim
  Missing = Missing
  Root <- MCRoot
  Keys <- MCKeys
  FirstHeap <- MCFirstHeap
  Contents <- MCContents
  MaxChildren = 3
  MaxClicks = 4
  MaxChanges = 1
  MaxSwitches = 1
  MaxLosses = 1
INVARIANTS RowsMatchPath ShowsLastAnswer DrillReaches
CHECK_DEADLOCK FALSE

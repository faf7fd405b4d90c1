SPECIFICATION DataSpec
CONSTANTS
  other = other
  Functions = {fn1, fn2}
  OtherFunctions = {other}
  Foreign <- ForeignEvents
  MaxRawEvents = 2
  GapThreshold = 1
  MaxCalls = 3
  MaxDepth = 3
  MaxTime = 3
  MaxClicks = 2
SYMMETRY FunctionsSymmetry
INVARIANTS TimesAddUp ViewsShowCalls ExportNests
CHECK_DEADLOCK FALSE

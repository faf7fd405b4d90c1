SPECIFICATION Spec
CONSTANTS
  t1 = t1
  t2 = t2
  t3 = t3
  Entries <- MCEntries
  Buckets = {"error", "info"}
  Tags <- MCTags
  NoTag = NoTag
  MaxEntries = 2
  Commands = {"shell", "all"}
  Typed = {"custom"}
  NoText = NoText
  Widths = {2, 3}
  MaxArrivals = 4
  MaxClicks = 3
  MaxRestarts = 1
INVARIANTS CountsAreOfWindow RowsArePassing TagBarTells
PROPERTY CaptureKept
CHECK_DEADLOCK FALSE

SPECIFICATION Spec
CONSTANTS
  Bridge = Bridge
  Others = {e1}
  NoUuid = NoUuid
  MaxClicks = 3
  MaxTroubles = 2
  MaxSessions = 1
INVARIANTS CacheAgrees SwitchSettles WindowAgrees
CHECK_DEADLOCK FALSE

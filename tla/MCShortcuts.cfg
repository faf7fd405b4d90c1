SPECIFICATION Spec
CONSTANTS
  toggle = toggle
  restart = restart
  quit = quit
  run = run
  logs = logs
  k1 = k1
  k2 = k2
  k3 = k3
  Actions <- MCActions
  NoAction = NoAction
  Kind <- MCKind
  Scope <- MCScope
  Default <- MCDefault
  Accels <- MCAccels
  MaxClicks = 6
  MaxLosses = 2
  MaxRestarts = 1
  MaxWriteErrors = 1
INVARIANTS RowsShowAccels CachesAgree OverridesApart
CHECK_DEADLOCK FALSE

SPECIFICATION Spec
CONSTANTS
  None = None
  Messages = {m1, m2, m3}
  Workflows = {w1, w2}
  Fallback = None
  AllowSwitch = TRUE
  OnlyExplicit = FALSE
  Cooldown = 1
  MaxTurns = 1
  RecentLimit = 1
  MaxTime = 1
  MaxTrouble = 1
  MaxInFlight = 2
SYMMETRY Symmetry
CHECK_DEADLOCK FALSE
INVARIANT ActiveIsStacked
INVARIANT OnlyDisturbedStray
INVARIANT ActiveIsAlive
INVARIANT SwitchesApart

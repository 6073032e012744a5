CONSTANTS
  WatchdogGrace = 1
  ReturnKey = TRUE
SPECIFICATION Spec
INVARIANTS ExitSafe
PROPERTIES LossReachesMenu

CONSTANTS
  WatchdogGrace = 1
  ReturnKey = TRUE
SPECIFICATION Spec
INVARIANT SessionOutlivesTick

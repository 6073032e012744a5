SPECIFICATION PartsSpec
CONSTANTS
  MaxGeneration = 4
  MaxBlocked = 2
  MaxControl = 2
  MaxStarts = 2
  Stray = TRUE
  MaxGen = 2
  MaxPolls = 1
  MaxFailures = 2
CHECK_DEADLOCK FALSE
INVARIANTS StartSafe PublishedPidIsLiveHelper BootSafe AdoptionSafe GuardSafe
PROPERTIES StaleNeverPublished InitOnlyForObservedHelper SessionLive

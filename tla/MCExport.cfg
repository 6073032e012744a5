SPECIFICATION PartsSpec
CONSTANTS
  Devices = {game, other}
  Threads = {t1, t2}
  None = None
  EpochSpace = 6
  MaxOps = 3
  MaxBeats = 1
  MaxQueuedLines = 2
  MaxLines = 3
  MaxToggles = 2
  MaxSessions = 1
  Crashers = {t1, t2}
CHECK_DEADLOCK FALSE
INVARIANTS GateSafe ExportSafe LoggerSafe
PROPERTIES OnlyTargetInvalidated NothingGoesBack WaitsEnd

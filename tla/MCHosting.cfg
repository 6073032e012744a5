SPECIFICATION PartsSpec
CONSTANTS
  MaxStarts = 3
  MaxAttempts = 2
  MaxSerial = 1
  CooldownTicks = 1
  ExternalCancels = TRUE
  NoValue = noValue
CHECK_DEADLOCK FALSE
INVARIANTS HostingSafe OneFamilyRetry ColorsSafe TransportSafe BattleLogSafe

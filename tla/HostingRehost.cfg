SPECIFICATION Spec
CONSTANTS
  MaxStarts = 2
  MaxAttempts = 1
  MaxSerial = 1
  CooldownTicks = 1
  ExternalCancels = FALSE
INVARIANT AutoRehostKept

SPECIFICATION PartsSpec
CONSTANTS
  Frames = {f1, f2, big}
  Oversized = {big}
  NoFrame = none
  Slots = 4
  Laps = 2
CHECK_DEADLOCK FALSE
INVARIANTS RingSafe ReachabilitySafe
PROPERTIES RefinesQueue DiscoveryEnds

SPECIFICATION Spec
CONSTANTS
  MaxJoins = 2
  PollFailureLimit = 2
  MaxFaults = 1
  MaxStarts = 2
CHECK_DEADLOCK FALSE
INVARIANTS LobbySafe
PROPERTIES EndIsReleased StopEnds

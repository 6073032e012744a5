SPECIFICATION Spec
CONSTANT MaxGeneration = 4
PROPERTY CancelledStartCleanedUp
CHECK_DEADLOCK FALSE

SPECIFICATION Spec
CONSTANTS
  Files = 2
  Size = 2
  MaxTries = 2
  MaxOps = 1
PROPERTY PhasesAdvance
CHECK_DEADLOCK FALSE

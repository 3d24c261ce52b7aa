SPECIFICATION Spec
CONSTANTS
  MaxMotors = 1
  Vals = {0, 1}
  Default = 0
  Commands <- SafetyCommands
  MaxCommands = 2
  MaxOpens = 2
  None = None
INVARIANTS TypeOK NothingForgotten NoSecondConnect CacheCoherent FlagBacked NoStuckProcessing
CHECK_DEADLOCK FALSE

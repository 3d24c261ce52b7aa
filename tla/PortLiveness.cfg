SPECIFICATION FairSpec
CONSTANTS
  MaxMotors = 1
  Vals = {0}
  Default = 0
  Commands <- LivenessCommands
  MaxCommands = 2
  MaxOpens = 1
  None = None
CHECK_DEADLOCK FALSE
PROPERTIES CommandAnswered MotorsTracked

SPECIFICATION MotorSpec
CONSTANTS
  MaxSteps = 8
  Margin = 1
  Deadband = 1
  Protected = TRUE
  SrcMin = 1
  SrcMax = 6
  TgtMin = 1
  TgtMax = 6
  BelowAt = {}
  Leads = {1, 4, 6}
  MaxSent = 1
  Unset = Unset
PROPERTIES BlocksTheCause
CHECK_DEADLOCK FALSE

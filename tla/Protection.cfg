SPECIFICATION MotorFairSpec
CONSTANTS
  MaxSteps = 4
  Margin = 1
  Deadband = 1
  Protected = TRUE
  SrcMin = 1
  SrcMax = 2
  TgtMin = 2
  TgtMax = 1
  BelowAt = {2}
  Leads = {0, 2, 3}
  MaxSent = 1
  Unset = Unset
CHECK_DEADLOCK FALSE
INVARIANTS NoDriveIntoWall
PROPERTIES GoalStaysSafe FollowerSettles

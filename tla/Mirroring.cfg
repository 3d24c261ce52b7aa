SPECIFICATION Spec
CONSTANTS
  a = a
  Buses = {a, b, c}
  StoredModes <- Stored
  MaxCommands = 2
  None = None
CHECK_DEADLOCK FALSE
INVARIANTS MapsAgree NoTwoLeaders PublishedCurrent TorqueSettled

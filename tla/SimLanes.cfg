SPECIFICATION FairSpec
CONSTANTS
  LossyCap = 1
  ReliableCap = 1
  OutCap = 2
  None = None
  MaxBatches = 3
CHECK_DEADLOCK FALSE
PROPERTIES LanesInOrder ReliableArrives 

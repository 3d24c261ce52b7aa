SPECIFICATION FairSpec
CONSTANTS
  Target = "normvla"
  SearchStep = 2
  MaxPointer = 2
  MaxEntries = 3
  ReadBatchSize = 2
  Capacity = 1
  MaxId = 4
CHECK_DEADLOCK FALSE
INVARIANTS RangeExact FramesExact SummaryExact
PROPERTIES AlwaysEnds

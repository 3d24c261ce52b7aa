SPECIFICATION Spec
CONSTANTS
  Word = 32
  MaxGap = 2
  Quiet = 2
  Duration = 3
  MinCommands = 2
  Goals = {none, g1, g2}
  NoGoals = none
  Torn = torn
  Absent = absent
  MaxStamp = 7
  FrameBound = 6
  MaxBoots = 2
  GridSize = 2
  MaxRows = 6
  NoEpisode = nil
INVARIANTS SavedQualifies NothingLost VideoExact

SPECIFICATION FairSpec
CONSTANTS
  NumJobs = 2
  NumCells = 2
  Workers = {w1, w2}
  Renderers = {r1, r2}
  Room = 1
  ServiceRoom = 1
INVARIANTS NoPanic PicturesComplete
PROPERTIES Implements

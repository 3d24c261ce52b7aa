SPECIFICATION Spec
CONSTANTS
  N = 3
  Words = {w1, w2}
  Interval = 2
  Unset = unset
  MaxStamp = 8
INVARIANTS FrameWhole Untorn

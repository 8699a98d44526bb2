SPECIFICATION Spec
CONSTANTS
  Keys = {k1, k2}
  MaxPos = 3
  Threshold = 2
  MaxSecond = 3
INVARIANTS
  RepeatInv
  MotionIsDeliberate
CHECK_DEADLOCK FALSE

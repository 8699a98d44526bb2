SPECIFICATION Spec
CONSTANTS
  GraceTime = TRUE
  ReadyFd = TRUE
  CanFail = FALSE
  MaxSleeps = 1
INVARIANT AsleepMeansLocked
CHECK_DEADLOCK FALSE

SPECIFICATION FairSpec
CONSTANTS
  GraceTime = TRUE
  ReadyFd = TRUE
  CanFail = TRUE
  MaxSleeps = 2
INVARIANTS
  GraceInv
PROPERTIES
  GraceOverIsFinal
  GraceEnds
  GraceEndFreesInhibitor
  Usr1Exits
CHECK_DEADLOCK FALSE

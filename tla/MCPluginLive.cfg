SPECIFICATION FairSpec
CONSTANTS
  Outputs = {o1, o2}
  MaxPids = 1
  PauseWhenHidden = TRUE
  CanFail = FALSE
  Main = Main
  None = None
PROPERTIES
  EveryOutputDrawn
  VisibleProgramRuns
CHECK_DEADLOCK FALSE

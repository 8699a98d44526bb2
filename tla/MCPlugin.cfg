SPECIFICATION Spec
CONSTANTS
  Outputs = {o1, o2}
  MaxPids = 3
  PauseWhenHidden = TRUE
  CanFail = TRUE
  Main = Main
  None = None
SYMMETRY MCSymmetry
INVARIANTS
  OwnersInv
  StoppedIsKnown
  BlankIsWatched
  ClientlessDraws
  LoneProgramGone
CHECK_DEADLOCK FALSE

SPECIFICATION SubsSpec
CONSTANTS
  Surfaces = {l, a, b, c}
  Layer = l
  Bg = Bg
  Indicator = Indicator
  NULL = NULL
INVARIANTS
  ListsInv
  HandlersSafe
CHECK_DEADLOCK FALSE

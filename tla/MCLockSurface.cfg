SPECIFICATION Spec
CONSTANTS
  Sizes = {"small", "large"}
  MaxConfigures = 5
  MaxSerial = 7
  None = None
INVARIANTS
  NoProtocolError
  SerialsInv
  AnsweredIsCurrent
CHECK_DEADLOCK FALSE

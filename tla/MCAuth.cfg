SPECIFICATION FairSpec
CONSTANTS
  Chars <- MCChars
  Valid <- MCValid
  BufLen = 6
  IgnoreEmpty = TRUE
  ShowFailedAttempts = TRUE
  ShowCapsLock = TRUE
  MaxShown = 0
  PwBackend = "pam"
  MaxQueue = 2
INVARIANTS
  BufferInv
  TimerInv
  ValidatingHasWork
  UnlockOnlyIfAccepted
  SuccessIsLast
  IndicatorCurrent
PROPERTIES
  AcceptedUnlocks
  ValidatingEnds
CHECK_DEADLOCK FALSE

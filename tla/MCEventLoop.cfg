SPECIFICATION FairSpec
CONSTANTS
  Fds = {f1, f2}
  Timers = {t1, t2}
  MaxDelay = 1
  CapStep = 1
  NoCall = NoCall
INVARIANTS
  LoopInv
PROPERTIES
  KeepsPromise
  EverythingServed
CHECK_DEADLOCK FALSE

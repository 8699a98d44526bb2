SPECIFICATION MCSpec
CONSTANTS
  Buffers = {b1, b2, b3}
  Surfaces = {s1, s2}
  Layer = s1
  None = None
  Committed = Committed
  Unreachable = Unreachable
  Inodes = {i1, i2}
  Pools = {p1, p2, p3}
  Entries = {e1, e2, e3}
  MaxSize = 3
  MaxGen = 1
  NULL = NULL
  Nums = {n1, n2, n3}
  Tables = {t1, t2}
  Devices = {d1, d2}
  Formats = {x1, x2}
  Instances = {fb1, fb2}
  MaxTranches = 1
  NoFd = NoFd
INVARIANTS
  BuffersInv
  HandlersSafe
  PoolsInv
  FeedbackInv
PROPERTIES
  UpstreamGrows
CHECK_DEADLOCK FALSE

SPECIFICATION DescsSpec
CONSTANTS
  Props = {p1, p2, p3, p4}
  Descs = {d1, d2}
  Surfaces = {s1, s2}
  MaxVersion = 3
  NULL = NULL
INVARIANTS
  NoChangeLost
  DescsInv
CHECK_DEADLOCK FALSE

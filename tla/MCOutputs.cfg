SPECIFICATION Spec
CONSTANTS
  Outputs = {o1, o2}
  Surfs = {s1}
  Scales = {1, 2}
  Main = Main
  None = None
SYMMETRY MCSymmetry
INVARIANTS
  OutputsInv
  ScaleTold
  SurfaceThere
CHECK_DEADLOCK FALSE

CONSTANTS
  Ids = {i1, i2, i3}
  Paths = {p1, p2, p3}
  Contents = {c1, c2}
  None = none
  Scanners = {s1, s2}
  MaxChanges = 3
SPECIFICATION Spec
SYMMETRY MCSymmetry
CHECK_DEADLOCK FALSE
PROPERTY ScanReconciles
PROPERTY MoveKeepsIdentity

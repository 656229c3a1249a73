CONSTANTS
  Panes = {p1, p2, p3, p4}
  MaxPanes = 3
SPECIFICATION Spec
SYMMETRY Symmetry
INVARIANTS
  TypeOK
  ActiveHasSession
PROPERTIES
  SessionsKept
  ClosePaneStaysNear
  MoveKeepsFocus

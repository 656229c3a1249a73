CONSTANTS
  Panes = {p1, p2, p3}
  MaxPanes = 3
SPECIFICATION Spec
SYMMETRY Symmetry
INVARIANT
  InputGoesToFocused

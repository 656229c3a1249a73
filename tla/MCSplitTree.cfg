SPECIFICATION Spec
CONSTANTS
  Panes = {p1, p2, p3, p4}
  MaxPanes = 3
  Widths = {5, 12}
  Heights = {8}
  Pointers = {0, 7}
  MinWidth = 2
  MinHeight = 2
  Gap = 1
  Scale = 27720
  Step = 8316
  Nothing = Nothing
SYMMETRY Symmetry
INVARIANTS TypeOK Tiled MinimumHonoured AllReachable
PROPERTIES TabKept ResizeNeverShrinks DragFollowsPointer

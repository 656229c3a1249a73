SPECIFICATION Spec
CONSTANTS
  Panes = {p1, p2}
  MaxPanes = 2
  Widths = {24}
  Heights = {24}
  Pointers = {8, 15}
  MinWidth = 5
  MinHeight = 5
  Gap = 4
  Scale = 27720
  Step = 8316
  Nothing = Nothing
SYMMETRY Symmetry
PROPERTIES DragCentresDivider

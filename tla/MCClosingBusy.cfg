CONSTANTS
  p1 = p1
  p2 = p2
  p3 = p3
  p4 = p4
  p5 = p5
  Panes = {p1, p2}
  SshPanes = {}
  Home <- MCHome
SPECIFICATION Spec
CHECK_DEADLOCK FALSE
PROPERTIES
  NewlyBusyAsksAgain

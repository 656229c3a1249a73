CONSTANTS
  p1 = p1
  p2 = p2
  p3 = p3
  p4 = p4
  p5 = p5
  Panes = {p1, p2, p3, p4, p5}
  SshPanes = {p5}
  Home <- MCHome
SPECIFICATION FairSpec
CHECK_DEADLOCK FALSE
INVARIANTS
  ReviewIsOfSelection
  FlagsInStep
PROPERTIES
  KillsStayInScope
  TermCloses

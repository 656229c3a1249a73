CONSTANTS
  Surfaces = {s1, s2}
  Commands = {a, b}
  NoCommand = NoCommand
  Dirs = {d1}
  HomeDir = HomeDir
SPECIFICATION Spec
SYMMETRY Symmetry
INVARIANTS
  CommandSurvives
  EditorKeepsSubject
PROPERTY
  OnlyReviewedRuns

CONSTANTS
  Procs = {p1, p2}
  MaxSnapshot = 2
  MaxDamage = 2
  Absent = Absent
  Corrupt = Corrupt
  Newer = Newer
SPECIFICATION Spec
SYMMETRY Symmetry
PROPERTIES
  PromiseSpec
  UsableForGood
  LaterVersionKept

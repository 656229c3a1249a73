CONSTANTS
  Procs = {p1}
  MaxSnapshot = 1
  MaxDamage = 1
  Absent = Absent
  Corrupt = Corrupt
  Newer = Newer
SPECIFICATION Spec
PROPERTIES
  LaterVersionNeverRewritten

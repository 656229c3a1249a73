CONSTANTS
  Procs = {p1, p2}
  Panes = {n1}
  Profiles = {i1}
  Hosts = {h1}
  Commands = {c1, c2}
  Resolutions = {plain, forwarding}
  External = {forwarding}
  None = None
SPECIFICATION Spec
SYMMETRY Symmetry
INVARIANTS
  LaunchWasApproved
  EditsClearApproval

SPECIFICATION Spec
CONSTANTS
  p1 = p1
  b1 = b1
  b2 = b2
  Packs = {p1}
  Builds = {b1, b2}
  PackOf <- MCOnePack
  Mods = {x1, x2}
  Loaders = {}
  States = {0, 2}
  Types = {"SINGLE", "MULTIPLE"}
  MaxMembers = 3
  MaxGroups = 2
  Workers = {w1}
  None = None
INVARIANTS
  TypeOK
  SomeDefault
  ItemsBelong
  ExcludedReachable
  
SYMMETRY MCSymmetry
CHECK_DEADLOCK FALSE

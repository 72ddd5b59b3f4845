SPECIFICATION Spec
CONSTANTS
  z1 = z1
  z2 = z2
  j1 = j1
  j2 = j2
  Versions = {v1}
  Zips = {z1, z2}
  Jars = {j1, j2}
  JarOf <- MCJarOf
  Workers = {w1, w2}
  MaxRows = 2
  MaxBegun = 4
  MaxHashes = 1
  None = None
INVARIANTS
  TypeOK
  OverrideMatches
  
SYMMETRY MCSymmetry
CHECK_DEADLOCK FALSE

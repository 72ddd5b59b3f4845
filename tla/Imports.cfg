SPECIFICATION Spec
CONSTANTS
  a = a
  b = b
  c = c
  g = g
  a1 = a1
  a2 = a2
  b1 = b1
  c1 = c1
  c2 = c2
  g1 = g1
  Projects = {a, b, c, g}
  Configs = {g}
  Releases = {a1, a2, b1, c1, c2, g1}
  ProjectOf <- MCProjectOf
  NumberOf <- MCNumberOf
  Catalogs <- MCCatalogs
  Downloaders = {{b, c}}
  Libraries <- MCLibraries
  DateOf <- MCDateOf
  Compatible = {a1, a2, b1, c1, c2}
  Hashed <- MCHashed
  MaxMod = 4
  MaxVersion = 4
  MaxRequests = 2
  MaxEdits = 1
  None = None
INVARIANTS
  TypeOK
  
  ImportedWhole
  
CHECK_DEADLOCK FALSE

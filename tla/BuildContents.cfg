SPECIFICATION Spec
CONSTANTS
  launcher = launcher
  library = library
  addon = addon
  s1 = s1
  s2 = s2
  a1 = a1
  e1 = e1
  e2 = e2
  Mods = {launcher, library, addon}
  Versions <- MCVersions
  Catalog <- MCCatalog
  Launchers = {launcher}
  Loaders = {"FORGE", "FABRIC"}
  SiteRequests = {s1, s2}
  ApiRequests = {a1}
  Editors = {e1, e2}
  Loads <- MCLoads
  Requirable <- MCRequirable
  MaxRows = 2
SYMMETRY MCSymmetry
ACTION_CONSTRAINT WalkAtOnce
INVARIANTS
  TypeOK
  OneVersionPerMod
  NoCircles
PROPERTIES
  AddsAreComplete
  SiteAddsFit

SPECIFICATION ExportSpec
CONSTANTS
  nativeMod = nativeMod
  lostMod = lostMod
  configMod = configMod
  loaderMod = loaderMod
  Mods = {nativeMod, lostMod, configMod, loaderMod}
  TypeOf <- MCType
  SideOf <- MCSide
  ModrinthOf <- MCModrinth
  Stored = {nativeMod}
  Jars = {nativeMod, lostMod, loaderMod}
  Mapped = {nativeMod, configMod}
  SolderToo = {nativeMod}
  MaxAtFirst = 2
  MaxEdits = 1
  Absent = Absent
INVARIANTS
  ExportTypeOK
  
CHECK_DEADLOCK FALSE

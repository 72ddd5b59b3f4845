SPECIFICATION CacheFairSpec
CONSTANTS
  p1 = p1
  p2 = p2
  d1 = d1
  d2 = d2
  d3 = d3
  site = site
  write = write
  job = job
  Procs = {p1, p2}
  Readers = {d1, d2}
  Writers = {site, write}
  ProcOf <- MCProcOf
  KindOf <- MCKindOf
INVARIANTS
  CacheTypeOK
  FreshAfterBump
PROPERTIES
  StaleHeals

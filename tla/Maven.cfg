SPECIFICATION Spec
CONSTANTS
  u1 = u1
  u2 = u2
  m1 = m1
  m2 = m2
  fixed = fixed
  Upstream = {u1, u2}
  Embedded <- MCEmbedded
  Fixed <- MCFixed
  Corrections = {m2}
  Loaders = {"FORGE"}
  Workers = {w1, w2}
  MaxCreated = 1
  MaxSaves = 2
  MaxNews = 1
  None = None
INVARIANTS
  TypeOK
  ManualKept
  RuleFollowed
SYMMETRY MCSymmetry
CHECK_DEADLOCK FALSE

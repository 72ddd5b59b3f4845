SPECIFICATION Spec
CONSTANTS
  Targets = {t1}
  Builds = {b1}
  Bases <- MCBases
  Contents = {c1}
  Workers = {w1, w2}
  MaxRuns = 2
  OwnerCare = "none"
  None = None
INVARIANTS
  TypeOK
  OneActiveAttempt
  NoDuplicateRelease
  PatchesInSequence
PROPERTIES
  SuccessIsFinal
SYMMETRY MCWorkerSymmetry

SPECIFICATION FairSpec
CONSTANTS
  Targets = {t1}
  Builds = {b1}
  Bases <- MCBase
  Contents = {c1}
  Workers = {w1, w2}
  MaxRuns = 3
  OwnerCare = "waits"
  None = None
PROPERTIES
  ImplementsLedger
  UploadsSettle

SPECIFICATION Spec
CONSTANTS
  None = None
  Slugs = {"s1", "s2"}
  Versions <- MCVersions
  Channels <- MCChannels
  Variants = {"optional"}
  Clients = {"c1"}
  Callers <- MCCallers
  Workers = {w1}
  Starts <- MCStarts
  MaxPack = 2
  MaxBuild = 3
  MaxBegun = 2
INVARIANTS
  TypeOK
  AnswersWereRight
  ListedIsServed
CHECK_DEADLOCK FALSE

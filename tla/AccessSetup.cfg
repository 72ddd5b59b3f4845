SPECIFICATION Spec
CONSTANTS
  w1 = w1
  w2 = w2
  owner = owner
  home = home
  old = old
  new = new
  Starts <- MCStarts
  Workers = {w1, w2}
  MaxUser = 2
  Names = {owner}
  Addresses = {home}
  Passwords = {old, new}
  Limit <- MCLimit
  WINDOW = 2
  BLOCK = 2
  IDLE = 1
  MaxNow = 2
  MaxRequests = 5
CHECK_DEADLOCK FALSE
PROPERTIES
  FirstAdministrator

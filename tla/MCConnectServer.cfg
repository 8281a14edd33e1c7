SPECIFICATION Spec
CONSTANTS
  a = a
  b = b
  c1 = c1
  None = None
  Files <- MCFiles
  Addresses = {a, b}
  Clients = {c1}
  IndexRange = 4
  MaxQueue = 2
INVARIANTS TypeOK ListedIsReached ListsAreWhole
CHECK_DEADLOCK FALSE

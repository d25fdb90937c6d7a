CONSTANTS
  a = a
  b = b
  n1 = n1
  n2 = n2
  empty = empty
  c1 = c1
  Worker = {a}
  Node = {n1}
  IdOf <- OneNode
  Content = {empty, c1}
  Empty = empty
  NoOwner = NoOwner
  NoNode = NoNode
  MaxEpoch = 1
  MaxRev = 2
  MaxTries = 2
  MaxFaults = 2
  MaxReleases = 1
SPECIFICATION LiveSpec
CHECK_DEADLOCK FALSE
PROPERTIES
  Converges
  EndsDark

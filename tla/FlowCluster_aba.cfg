CONSTANTS
  a = a
  b = b
  n1 = n1
  n2 = n2
  empty = empty
  c1 = c1
  Worker = {a, b}
  Node = {n1, n2}
  IdOf <- TwoWorkers
  Content = {empty, c1}
  Empty = empty
  NoOwner = NoOwner
  NoNode = NoNode
  MaxEpoch = 2
  MaxRev = 3
  MaxTries = 2
  MaxFaults = 0
  MaxReleases = 1
SPECIFICATION Spec
CHECK_DEADLOCK FALSE
INVARIANT OwnerReprojects

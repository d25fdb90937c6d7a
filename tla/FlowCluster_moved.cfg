CONSTANTS
  a = a
  b = b
  n1 = n1
  n2 = n2
  empty = empty
  c1 = c1
  Worker = {a, b}
  Node = {n1, n2}
  IdOf <- TwoWorkers
  Content = {empty, c1}
  Empty = empty
  NoOwner = NoOwner
  NoNode = NoNode
  MaxEpoch = 2
  MaxRev = 2
  MaxTries = 2
  MaxFaults = 1
  MaxReleases = 0
SPECIFICATION ReconcileSpec
CHECK_DEADLOCK FALSE
INVARIANTS
  TypeOK
  SeenIsApplied
PROPERTY OldOwnerLeaves

CONSTANTS
  w1 = w1
  w2 = w2
  o1 = o1
  o2 = o2
  o3 = o3
  Worker = {w1, w2}
  Org = {o1, o2, o3}
  NoWorker = NoWorker
  Capacity <- OneSmall
  MaxMoves = 3
  MinSpread = 1
  SpreadPart = 5
  MaxWeight <- Unequal
  MaxStale = 1
  MaxChurn = 1
SPECIFICATION LiveSpec
INVARIANTS
  TypeOK
  PlanMatches
  RebalancingHelps
PROPERTIES
  Settles
  Served

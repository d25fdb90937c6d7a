SPECIFICATION Spec
CONSTANTS
  Period = 2
  SelfFence = 4
  Ttl = 11
  CallMax = 1
  LockMax = 3
  Skew = 1
INVARIANTS TypeOK DownBeforeMove

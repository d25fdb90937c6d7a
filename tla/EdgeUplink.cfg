CONSTANTS
  NoMark = NoMark
  Window = 2
  MaxBatch = 2
  MaxPoints = 2
  MaxSeq = 3
  MaxConn = 2
  MaxFaults = 2
SPECIFICATION LiveSpec
CHECK_DEADLOCK FALSE
INVARIANT
  TypeOK
PROPERTIES
  Delivers
  OnceInOrder
  Settles

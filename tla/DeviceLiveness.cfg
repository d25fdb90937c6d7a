CONSTANTS
  Session = {1, 2}
  NoSession = 0
  Ttl = 3
  Lag = 1
  WriteMax = 1
  PassMax = 2
  MaxAge = 5
  MaxFaults = 1
SPECIFICATION LiveSpec
CHECK_DEADLOCK FALSE
INVARIANT TypeOK
PROPERTIES
  SeenGrows
  OffOnlyIfSilent
  ActiveFollows

CONSTANTS
  Session = {1, 2}
  Pod = {p1, p2}
  NoSession = 0
  NoPod = NoPod
  Ttl = 2
  RouteTtl = 6
  Period = 2
  MaxFaults = 2
SPECIFICATION LiveSpec
CHECK_DEADLOCK FALSE
INVARIANT TypeOK
PROPERTIES
  KeepsRegistrations
  CommandsReach

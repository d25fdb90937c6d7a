CONSTANTS
  Holder = {h1, h2, h3}
  NoHolder = NoHolder
  Ttl = 2
SPECIFICATION LeaseLiveSpec
INVARIANTS
  LeaseTypeOK
  GrantBackedByRow
  ExclusiveGrant
PROPERTIES
  NeverStolen
  RoundsGoOn

SPECIFICATION Spec
CONSTANTS
  kitchen = kitchen
  stranger = stranger
  Devices = {kitchen, stranger}
  NoSatellite = "none"
  Identities <- MCIdentities
  SatelliteOf <- MCSatelliteOf
  c1 = c1
  Names = {c1}
  NoName = NoName
  Ttl = 0
  Max = 2
  MaxTime = 1
  MaxMinted = 3
  Backwards = TRUE
INVARIANTS
  KeysResolve
  ResultIsOwn
  BoundedStore
PROPERTIES
  ImplementsConversations
CHECK_DEADLOCK FALSE

SPECIFICATION Spec
CONSTANTS
  kitchen = kitchen
  stranger = stranger
  Devices = {kitchen, stranger}
  NoSatellite = "none"
  Identities <- MCIdentities
  SatelliteOf <- MCSatelliteOf
  c1 = c1
  Names = {c1}
  NoName = NoName
  Ttl = 1
  Max = 2
  MaxTime = 2
  MaxMinted = 3
  Backwards = FALSE
INVARIANTS
  KeysResolve
  ResultIsOwn
  ResultIsHeld
  BoundedStore
PROPERTIES
  ConversationContinues
  EvictsLeastRecent
  ImplementsConversations
CHECK_DEADLOCK FALSE

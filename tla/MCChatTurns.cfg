SPECIFICATION FairChatSpec
CONSTANTS
  kitchen = kitchen
  phone = phone
  c1 = c1
  Devices = {kitchen}
  NoSatellite = "none"
  Identities <- MCIdentities
  SatelliteOf <- MCSatelliteOf
  Names = {c1}
  NoName = NoName
  Ttl = 0
  Max = 3
  MaxTime = 1
  MaxMinted = 3
  Backwards = FALSE
  StartsWith <- MCUnnamed
  Texts = {"words"}
  MaxRetries = 1
  Turns <- MCThreeTurns
  MaxBoots = 1
PROPERTIES
  RequestsAdvance
  ConversationHolds
  RequestsDrain
CHECK_DEADLOCK FALSE

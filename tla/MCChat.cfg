SPECIFICATION FairChatSpec
CONSTANTS
  kitchen = kitchen
  phone = phone
  c1 = c1
  Devices = {kitchen, phone}
  NoSatellite = "none"
  Identities <- MCIdentities
  SatelliteOf <- MCSatelliteOf
  Names = {c1}
  NoName = NoName
  Ttl = 0
  Max = 1
  MaxTime = 1
  MaxMinted = 2
  Backwards = FALSE
  StartsWith <- MCNamed
  Texts = {"words", "blank"}
  MaxRetries = 1
  Turns <- MCUneven
  MaxBoots = 2
INVARIANTS
  ConversationsApart
PROPERTIES
  ConversationHolds
  RequestsDrain
CHECK_DEADLOCK FALSE

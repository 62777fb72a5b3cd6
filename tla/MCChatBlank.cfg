SPECIFICATION ChatSpec
CONSTANTS
  kitchen = kitchen
  phone = phone
  c1 = c1
  Devices = {kitchen}
  NoSatellite = "none"
  Identities <- MCIdentities
  SatelliteOf <- MCSatelliteOf
  Names = {c1}
  NoName = NoName
  Ttl = 1
  Max = 3
  MaxTime = 0
  MaxMinted = 2
  Backwards = FALSE
  StartsWith <- MCNamed
  Texts = {"words", "blank"}
  MaxRetries = 0
  Turns <- MCTwoTurns
  MaxBoots = 2
INVARIANTS
  UnreachableMeansSilence
CHECK_DEADLOCK FALSE

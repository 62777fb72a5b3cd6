SPECIFICATION Spec
CONSTANTS
  Layers <- MCLayers
  Profiles <- MCProfiles
  Registries <- MCRegistries
  Unset = Unset
INVARIANTS
  ServesWithToken
CHECK_DEADLOCK FALSE

SPECIFICATION Spec
CONSTANTS
  Layers <- MCLayers
  Profiles <- MCProfiles
  Registries <- MCRegistries
  Unset = Unset
INVARIANTS
  DryRunIsExplicit
  NothingUnsoundServes
CHECK_DEADLOCK FALSE

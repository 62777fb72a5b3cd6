SPECIFICATION Spec
CONSTANTS
  Matrices <- MCSameRepo
  KvDtypes <- MCDefault
INVARIANTS
  OnlyPinnedDownloaded

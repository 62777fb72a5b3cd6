SPECIFICATION Spec
CONSTANTS
  Matrices <- MCMatrices
  KvDtypes <- MCDefault
INVARIANTS
  CardReleasedAlways

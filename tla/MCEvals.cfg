SPECIFICATION FairSpec
CONSTANTS
  Matrices <- MCMatrices
  KvDtypes <- MCBoth
INVARIANTS
  NumbersAreOwn
  EveryPairRecorded
  CardReleased
  UnpinnedStandBehind
PROPERTIES
  RunEnds

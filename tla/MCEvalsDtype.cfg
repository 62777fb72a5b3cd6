SPECIFICATION Spec
CONSTANTS
  Matrices <- MCDeliberate
  KvDtypes <- MCBoth
INVARIANTS
  DeliberateDtypeKept

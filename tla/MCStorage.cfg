SPECIFICATION Spec
CONSTANTS
  Contracts <- MCContracts
  WordBytes = 5
  ByteMod = 16
INVARIANT PastTheEndIsZero
PROPERTY Implements

CONSTANTS
  LINE_SIZE = 5
  USER_SIZE = 2
  MaxBytes = 11
  USER_PREFIX <- U
  PASS_PREFIX <- P
  Chunks <- MCChunks
SPECIFICATION Pop3Spec
INVARIANT PairsAreThoseSent

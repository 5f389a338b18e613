SPECIFICATION FairSpec
CONSTANTS
  InitialSize = 2
  MaxAttempts = 4
  Modulus = 32
  MaxNeed = 16
INVARIANT NothingWrittenIsEmpty
CHECK_DEADLOCK FALSE

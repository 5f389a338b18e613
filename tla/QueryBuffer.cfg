SPECIFICATION FairSpec
CONSTANTS
  InitialSize = 4
  MaxAttempts = 4
  Modulus = 32
  MaxNeed = 31
INVARIANTS GivesUpOnlyIfOutgrown AnswerIsComplete
PROPERTY Terminates
\* A query is made once and ends.
CHECK_DEADLOCK FALSE

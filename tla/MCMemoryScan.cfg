SPECIFICATION FairSpec
CONSTANTS
  Size = 4
  MaxAddress = {3}
  Bytes = {0, 1}
  Fresh = 0
  Any = Any
  Patterns <- MCPatterns
  Readable = {rw, rx}
  NotReadable = {none}
  ScanChunk = 3
  Modulus = 16
  MaxChanges = 1
INVARIANTS MapTiles StableMatchesAreFound
PROPERTIES MatchesAscend Terminates
\* A scan is made once and ends.
CHECK_DEADLOCK FALSE

SPECIFICATION InspectSpec
CONSTANTS
  Bases = {1, 2, 3}
  MaxLoads = 4
  Junk = Junk
  Unknown = Unknown
  ObjectIds = {1, 2}
  MaxObjects = 3
  CanDestroy = FALSE
INVARIANTS InspectTypeOK StableModulesAreListed ReportsAreOfOne FailsForGoodReason
\* A snapshot is taken once and ends.
CHECK_DEADLOCK FALSE

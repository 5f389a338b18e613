SPECIFICATION ModulesSpec
CONSTANTS
  Bases = {1, 2}
  MaxLoads = 2
  Junk = Junk
  Unknown = Unknown
INVARIANT ReadsStayInArray
CHECK_DEADLOCK FALSE

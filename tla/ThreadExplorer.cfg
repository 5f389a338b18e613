SPECIFICATION Spec
CONSTANTS
  None = None
  Ids = {1, 2}
  Pids = {4, 8}
  MaxInstances = 3
  MaxCpu = 2
  CreateGap = {0, 1}
  ProcessorCount = 0
  Quantum = 2
  MaxNow = 2
INVARIANT RowsAreOfBoundProcess
PROPERTY UsageIsTruthful

SPECIFICATION Spec
CONSTANTS
  None = None
  Ids = {1, 2}
  MaxInstances = 3
  MaxCpu = 1
  CreateGap = {0, 1}
  ProcessorCount = 1
  Quantum = 1
  MaxNow = 1
INVARIANTS EdgesAreReal LiveParentsAreShown TreeShowsEveryRow DetailsAreOfSelectedPid
PROPERTY UsageIsTruthful

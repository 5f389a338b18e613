SPECIFICATION FairSpec
CONSTANTS
  None = None
  NoName = NoName
  Pending = Pending
  Calls = {c1, c2}
  Handles = {h1, h2, h3}
INVARIANTS OpenWhileInUse FinishedCallsHoldNoHandle
PROPERTIES KeepsPromise EveryCallFinishes
\* Each call is made once.
CHECK_DEADLOCK FALSE

SPECIFICATION Spec
CONSTANTS
  None = None
  NoName = NoName
  Pending = Pending
  Calls = {c1, c2}
  Handles = {h1, h2, h3, h4}
INVARIANT DuplicateIsReleased
CHECK_DEADLOCK FALSE

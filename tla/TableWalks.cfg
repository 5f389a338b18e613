SPECIFICATION WalksSpec
CONSTANTS
  HeaderSize = 3
  ThreadSize = 2
  SizeModulus = 128
  UlongModulus = 16
  Totals = {2, 3, 5, 8, 11}
  ThreadCounts = {0, 1, 2, 15}
  Nexts = {0, 2, 3, 5, 15}
  Pids = {p, q}
  Everybody = Everybody
  RecordSize <- MCRecordSize
  Tails <- MCTails
  Terminator = 1
  WordSize = 2
  Unwritten = 8
  MaxRecords = 3
  None = None
INVARIANTS ReadsStayInBuffer WellFormedIsAccepted ResultIsTheChain TablesAreListedWhole HandlesHaveTheirTypes
\* A walk is made once and ends.
CHECK_DEADLOCK FALSE

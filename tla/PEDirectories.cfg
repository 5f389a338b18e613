SPECIFICATION Spec
CONSTANTS
  FileSizes = {1, 5, 9}
  DosSize = 1
  SignatureSize = 1
  FileHeaderSize = 1
  MagicSize = 1
  SectionSize = 1
  OptionalSize <- MCOptionalSize
  RvaModulus = 16
  SizeModulus = 64
  NewOffsets = {1, 62}
  OptionalSizes = {1, 3}
  SectionCounts = {0, 2}
  HeaderSizes = {2}
  SectionHeaders <- MCSectionHeaders
  None = None
  Directories <- MCDirectories
  Rvas = {0, 9, 10}
  Addresses = {0, 20, 25}
  ImageBase = 20
  Offsets = {0, 1, 6}
  Counts = {0, 2, 3}
  Lengths = {1, 2, 3, 15}
  Alignment = 2
  Size <- MCSize
  Cap <- MCCap
INVARIANTS ReadsStayInFile TranslationFollowsLayout SymbolsMirrorFile ResourcesMirrorFile RecordsAscend
PROPERTY NeverGoesBack
\* A directory is parsed once.
CHECK_DEADLOCK FALSE

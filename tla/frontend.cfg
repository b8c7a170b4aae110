SPECIFICATION FairSpec
CONSTANTS
  f1 = f1
  f2 = f2
  f3 = f3
  Files <- AllFiles
  FileSystems <- Everything
  MaxParses = 2
INVARIANTS
  TypeOK
  IncludeStack
  ParsedOnce
  WholeUnits
  UsesClosed
PROPERTIES
  ParseEnds
CHECK_DEADLOCK FALSE

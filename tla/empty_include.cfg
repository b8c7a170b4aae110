SPECIFICATION Spec
CONSTANTS
  f1 = f1
  f2 = f2
  f3 = f3
  Files <- AllFiles
  FileSystems <- EmptyInclude
  MaxParses = 1
PROPERTIES
  IncludesEnd
CHECK_DEADLOCK FALSE

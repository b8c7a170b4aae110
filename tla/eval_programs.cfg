SPECIFICATION FairSpec
CONSTANTS
  Constructions <- Programs
  MaxEvals = 2
  MaxStack = 20
  MaxFrames = 6
  MaxInt = 60
INVARIANTS
  UniquePointers
  StackDiscipline
  CallsSupplied
PROPERTIES
  HostValuesStable
  NoDanglingUse
  EvalReturns
  ImplementsStackMachine
CHECK_DEADLOCK FALSE

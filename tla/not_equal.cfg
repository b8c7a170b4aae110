SPECIFICATION Spec
CONSTANTS
  Constructions <- Comparisons
  MaxEvals = 1
  MaxStack = 8
  MaxFrames = 4
  MaxInt = 20
INVARIANTS
  NotEqualNegatesEqual
CHECK_DEADLOCK FALSE

SPECIFICATION Spec
CONSTANTS
  Constructions <- Literals
  MaxEvals = 1
  MaxStack = 8
  MaxFrames = 4
  MaxInt = 20
PROPERTIES
  ExpressionReturns
CHECK_DEADLOCK FALSE

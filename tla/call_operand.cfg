SPECIFICATION Spec
CONSTANTS
  Constructions <- OperandAndCall
  MaxEvals = 1
  MaxStack = 8
  MaxFrames = 4
  MaxInt = 20
INVARIANTS
  OperandSurvivesCall
CHECK_DEADLOCK FALSE

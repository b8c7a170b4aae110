SPECIFICATION FairSpec
CONSTANTS
  Constructions <- Forever
  MaxEvals = 1
  MaxStack = 8
  MaxFrames = 4
  MaxInt = 20
PROPERTIES
  StopEndsEval
CHECK_DEADLOCK FALSE

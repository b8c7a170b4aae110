SPECIFICATION Spec
CONSTANTS
  Constructions <- SmallPrograms
  MaxEvals = 1
  MaxStack = 8
  MaxFrames = 3
  MaxInt = 12
INVARIANTS
  TypeOK
  FramesMatchCode
  CallerUntouched
PROPERTIES
  MutationIsPrivate
  CallersKept
CHECK_DEADLOCK FALSE

SPECIFICATION Spec
CONSTANTS
  Inputs <- Sentences
INVARIANTS
  PrecedenceDecides
CHECK_DEADLOCK FALSE

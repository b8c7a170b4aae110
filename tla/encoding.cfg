SPECIFICATION FairSpec
CONSTANTS
  Insts <- Letters
  MaxInsts = 3
INVARIANTS
  TypeOK
  OnInstruction
  ListingFaithful
PROPERTIES
  PrintReturns
CHECK_DEADLOCK FALSE

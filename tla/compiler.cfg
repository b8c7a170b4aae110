SPECIFICATION FairSpec
CONSTANTS
  Expr <- AllExpr
  Arity <- Parameters
  OneBlock <- OneBlockExpr
  Translatable <- TranslatableExpr
  Units <- AllUnits
  MaxUnits = 2
INVARIANTS
  TypeOK
  LastAssignmentWins
  Numbered
  ListingsClosed
  Balanced
  Computes
PROPERTIES
  CompiledAndRun
CHECK_DEADLOCK FALSE

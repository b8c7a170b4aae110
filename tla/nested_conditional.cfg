SPECIFICATION Spec
CONSTANTS
  Expr <- AllExpr
  Arity <- Parameters
  OneBlock <- OneBlockExpr
  Translatable <- TranslatableExpr
  Units <- Nested
  MaxUnits = 1
INVARIANTS
  JumpsForward
CHECK_DEADLOCK FALSE

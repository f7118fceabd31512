SPECIFICATION MCSpec
CONSTANTS
  Expr <- MCExpr
  TrueExpr = "1"
  FalseExpr = "0"
  Assignments <- MCAssignments
  Holds <- MCHolds
  IsZero <- MCIsZero
  Smaller = {"nx", "or", "nnor"}
  Queries = {"or", "nor", "x"}
  Lists <- MCLists
  None = None
  CoreFails = TRUE
  CexCacheTryAll = FALSE
  CexCacheExperimental = FALSE
  Arrays = {"a", "b"}
  Index = {0, 1}
  Values = {0, 1}
  AnyIndex = AnyIndex
  IndExpr <- SliceExpr
  Reads <- SliceReads
  IndHolds <- SliceHolds
  Constraints <- SliceConstraints
  IndQueries <- SliceExpr
  NotFound = NotFound
  BitExprs <- MCExprs
INVARIANTS AnswersTrue ModelsExtend SearchesExact 
VIEW Seen
CHECK_DEADLOCK FALSE

SPECIFICATION Spec
CONSTANTS
  p = p
  q = q
  w = w
  x = x
  y = y
  z = z
  Value <- Values
  Functions <- SmallFunctions
  MaxDepth = 7
  Nothing = Nothing
CHECK_DEADLOCK FALSE
INVARIANTS TypeOK ErasedOnlyKnown AnswersByReach CrashOnlyOnCycle
PROPERTY AnalysisEnds

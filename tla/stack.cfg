CONSTANTS
  A = A
  B = B
  None = None
  Block <- MCBlock
  Functions <- MCFunctions
  MaxDepth = 2
  Module = {A, B}
  Typed = {B}
  Ctor <- MCCtor
SPECIFICATION Spec
INVARIANTS TypeOK LiveKnown NoneLeft GlobalsKnown
CHECK_DEADLOCK FALSE

SPECIFICATION Spec
CONSTANTS
  Keys <- EightKeys
  Values <- TwoValues
  v1 = v1
  v2 = v2
  None = None
CONSTRAINT UsualValues
INVARIANTS PointersAgree RedBlack AssertionsHold
PROPERTY ImplementsDictionary

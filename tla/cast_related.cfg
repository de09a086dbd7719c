SPECIFICATION Spec
CONSTANTS
  Base = Base
  Middle = Middle
  Derived = Derived
  Leaf = Leaf
  Other = Other
  a = a
  b = b
  Type <- Chain
  Module <- Modules
  Types <- TwoModules
  Parents <- KnownParents
  Premade <- Nothing
INVARIANTS ListExact CastObjectsTraced FreedAsAllocated

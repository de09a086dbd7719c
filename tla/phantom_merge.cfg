SPECIFICATION Spec
CONSTANTS
  Hash <- FourHashes
  Modules <- SmallModules
  MaxLoads = 2
  None = None
CHECK_DEADLOCK FALSE
INVARIANTS TypeOK RecordsHonoured PhantomsJustified
PROPERTY PhantomsOnlyGrow

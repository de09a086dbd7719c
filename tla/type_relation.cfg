SPECIFICATION Spec
CONSTANTS
  AllTypeNum = 4
  Library = Library
  Foreign = {Library}
  Modules <- SomeModules
  HashOf <- ScatteredHashes
CHECK_DEADLOCK FALSE
INVARIANTS TypeOK SetsExact PhantomsAlike TablesReadBack

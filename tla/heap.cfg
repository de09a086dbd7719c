SPECIFICATION HeapSpec
CONSTANTS
  Base = Base
  Derived = Derived
  Plain = Plain
  Addr <- Addresses
  Type <- Types
  Fields <- TypesFields
  Tracked <- TrackedTypes
  TypeSize <- TypesSize
  Offset = {0, 1}
  Size = {1, 2}
  MaxBytes = 3
  MaxCount = 3
  Grain = 4
  NumMap = 2
  Word = 8
  NoEntry = NoEntry
  NoInfo = NoInfo
  NoBlock = NoBlock
  Inline = TRUE
  Reinterpret = FALSE
  Reregister = TRUE
INVARIANT TracedExactly
PROPERTIES ImplementsRegistry CallersKeepWord Settles

SPECIFICATION Spec
CONSTANTS
  Base = Base
  Derived = Derived
  Other = Other
  Type <- ThreeTypes
  Thread = {t1, t2}
  Addr <- TwoAddresses
  SlotOf <- SlotEach
  Offset <- ThreadOffsets
  Rule <- Parents
  Phantoms <- PhantomPair
  LatePhantoms <- NoPhantoms
  Low <- DistinctBits
  Inline = FALSE
  MaxCasts = 3
  NoEntry = NoEntry
  NoType = NoType
  NoRule = NoRule
CHECK_DEADLOCK FALSE
INVARIANTS NoFalseReport

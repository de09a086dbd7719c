SPECIFICATION Spec
CONSTANTS
  Base = Base
  Derived = Derived
  Other = Other
  Type <- ThreeTypes
  Thread = {t1}
  Addr <- TwoAddresses
  SlotOf <- OneSlot
  Offset <- SmallOffsets
  Rule <- Parents
  Phantoms <- PhantomPair
  LatePhantoms <- NoPhantoms
  Low <- SharedBits
  Inline = TRUE
  MaxCasts = 3
  NoEntry = NoEntry
  NoType = NoType
  NoRule = NoRule
CHECK_DEADLOCK FALSE
INVARIANTS TypeOK CacheRight AnswersRight Accounted

SPECIFICATION Spec
CONSTANTS
  Base = Base
  Derived = Derived
  Other = Other
  Type <- ThreeTypes
  Thread = {t1, t2}
  Addr <- OneAddress
  SlotOf <- OneSlot
  Offset <- ThreadOffsets
  Rule <- Parents
  Phantoms <- NoPhantoms
  LatePhantoms <- LateOne
  Low <- SharedBits
  Inline = TRUE
  MaxCasts = 3
  NoEntry = NoEntry
  NoType = NoType
  NoRule = NoRule
CHECK_DEADLOCK FALSE
INVARIANT MissesExplained
SYMMETRY AnyThread
VIEW ButOutcomes

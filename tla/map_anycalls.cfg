SPECIFICATION Spec
CONSTANTS
  Addr <- BucketAddresses
  Type = {t1}
  Offset = {0}
  Size = {1}
  MaxCount = 2
  Grain = 2
  NumMap = 2
  Word = 8
  NoEntry = NoEntry
  NoInfo = NoInfo
  Inline = TRUE
  Reinterpret = TRUE
  Reregister = TRUE
INVARIANTS TypeOK FindsOwnEntry ArrayRegistered
PROPERTY OnlyNamedAddress

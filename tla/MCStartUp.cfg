SPECIFICATION PowerSpec
CONSTANTS
  FlashBase = 8
  FlashSize = 12
  PageSize = 4
  BootSize = 3
  AddrSpace = 32
  FF = 3
  BlockLen = 2
  MaxBlocks = 4
  Lines <- MCLines
  Decrypt <- MCDecrypt
  FactoryCells <- MCFactoryCells
  TornWords <- MCTornWords
  FlashFaults = {"WRPRTERR", "late"}
  MallocMayFail = TRUE
  OptionFaults = {"PGERR", "WRPRTERR"}
INVARIANT LockedAtStart
PROPERTIES ProtectionSet WellFormedFileAccepted LineCompletes

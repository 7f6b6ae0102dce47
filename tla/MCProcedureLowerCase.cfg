SPECIFICATION ProcSpec
CONSTANTS
  FlashBase = 8
  FlashSize = 12
  PageSize = 4
  BootSize = 3
  AddrSpace = 32
  FF = 3
  BlockLen = 2
  MaxBlocks = 6
  Decrypt <- MCDecrypt
  FactoryCells <- MCFactoryCells
  TornWords <- NoTornWords
  FlashFaults = {}
  MallocMayFail = FALSE
  Lines <- MCLines
  MaxTries = 1
  MaxDamaged = 0
  File <- LowerCaseFile
INVARIANT FileSentStatusOk
CHECK_DEADLOCK FALSE

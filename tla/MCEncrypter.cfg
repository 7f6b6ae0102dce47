SPECIFICATION Spec
CONSTANTS
  Files <- MCFiles
  BlockLen = 2
  MaxBlocks = 6
  Crypt <- MCCrypt
INVARIANTS DeviceGetsPlaintext DamageNoticed
CHECK_DEADLOCK FALSE

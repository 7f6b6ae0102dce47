SPECIFICATION DeviceSpec
CONSTANTS
  Byte <- MCByte
  Input <- MCShortInput
  PackSize = 2
  Reply <- MCReply
  Configurations = {0, 1}
  ZeroLength = TRUE
  MaxResets = 3
INVARIANTS TypeOK IndexInBounds PacketMemoryOwned
CHECK_DEADLOCK FALSE

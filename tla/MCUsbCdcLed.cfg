SPECIFICATION DeviceSpec
CONSTANTS
  Byte <- MCByte
  Input <- MCShortInput
  PackSize = 2
  Reply <- MCReply
  Configurations = {1}
  ZeroLength = FALSE
  MaxResets = 2
PROPERTY LedShowsConnection

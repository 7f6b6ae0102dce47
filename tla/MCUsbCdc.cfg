SPECIFICATION AttachedSpec
CONSTANTS
  Byte <- MCByte
  Input <- MCInput
  PackSize = 2
  Reply <- MCReply
  Configurations = {1}
  ZeroLength = FALSE
  MaxResets = 1
INVARIANTS NoHandoverLost
PROPERTIES ImplementsTerminal AllAnswered

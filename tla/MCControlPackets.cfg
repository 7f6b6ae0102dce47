SPECIFICATION Spec
CONSTANTS
  Requests <- MCPackets
  PackSize = 2
  DeviceSize = 4
  ConfigSize = 5
  StringSize <- SplitStringSize
  Aborts = TRUE
  Hurries = FALSE
  MaxResets = 2
INVARIANTS DataIsAnswer VerdictRight HostKnowsDevice
PROPERTY TransferEnds
CHECK_DEADLOCK FALSE

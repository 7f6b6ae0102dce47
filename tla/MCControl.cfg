SPECIFICATION Spec
CONSTANTS
  Requests <- MCRequests
  PackSize = 4
  DeviceSize = 2
  ConfigSize = 3
  StringSize <- MCStringSize
  Aborts = TRUE
  Hurries = TRUE
  MaxResets = 2
INVARIANTS TypeOK NothingLeftOver DataIsAnswer VerdictRight HostKnowsDevice
CHECK_DEADLOCK FALSE

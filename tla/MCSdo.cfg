SPECIFICATION SdoSpec
CONSTANTS
  LENGTH = 3
  CAPACITY = 2
  SRV_TIMEOUT = 2
  SRV_BLK_TIMEOUT = 1
  CHANNEL = 2
  Request <- MCRequest
  FIFO = 2
  PST = 3
  CLI_TIMEOUT = 2
  CLI_BLK_TIMEOUT = 1
  LOSSES = 1
INVARIANTS ConfirmedIsStored UploadedIsStored UnitsInPlace
CHECK_DEADLOCK FALSE

CONSTANTS
  TxSize = 3
  Mailboxes = 2
  Polite <- MCPolite
  CountMod = 4
  RxOrder <- MCRxOrder
  StartOrder <- MCStartOrder
  Predefined <- MCPredefined
  Rpdo <- MCRpdo
  Passed <- MCPassed
  Other = {3, 8}
  Depth = 2
SPECIFICATION DriverSpec
INVARIANTS CountedHasWake CountedIsMarked FramesFindTheirObject
PROPERTY BacklogIsScanned

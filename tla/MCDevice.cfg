SPECIFICATION DeviceSpec
CONSTANTS
  DriverOrder <- MCDriverOrder
  Reported = {"RPDO_LENGTH"}
  FullError = "BUFFER_FULL"
  FifoSize = 3
  Entries = 2
  Remote = {"p", "q"}
  HbTimes = {0, 2}
  WATCHDOG = 3
  TIMER_QUEUE = 2
  Led = {1}
  Colour = {"red", "green"}
  MAX_BRIGTH_COUNTER = 2
  BLINK_PERIOD = 1
  Level = {0, 2}
  BackColour = {{"red"}, {"red", "green"}}
INVARIANT ErrorsAreTold
PROPERTIES HeartbeatsAreJudged RestartsForCause LampsShowObject DeviceRecovers

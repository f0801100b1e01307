SPECIFICATION Spec
CONSTANTS
  Subjects <- MCSubjects
  LssSlaves <- MCLssSlaves
  LssTargets <- MCLssTargets
  LssScans <- MCLssScans
  LssSupported <- MCLssSupported
  LssParts = 2
  LssBits = 2
  LssNodeIds = {1}
  BitRates = {125, 500}
  InitialRate = 250
  LssLosses = 1
  LssCalls = 3
  Period = 2
  RpdoTime = 2
  TimerStop = 4
  Cyclic = {1, 3}
  EventTimes = {0, 1, 2}
  InhibitTimes = {0, 2}
  StartValues = {0, 1}
  Overflow = 2
  Differences = {1, 2}
  Longest = 3
  Mappable = {"a", "b"}
  Entries = 2
  MaxSize = 3
  PdoNodeIds = {1, 2}
  BufSize = 4
  FifoTokenSize = 2
  SCT = 2
  SRVT = 1
  REFRESH = 1
  DELAY = 1
  START = 1
  SrdoValues = {"a", "b"}
  SrdoConfigured = {"rx"}
  CHANNEL = 1
  CHANGES = 3
  ObjectSize <- MCObjectSize
  ObjectMaps <- MCObjectMaps
  TextBytes <- MCTextBytes
  TextChars <- MCTextChars
  MaxData = 4
  MaxText = 4
  Space = 3
  GatewayLines <- MCGatewayLines
  COMM = 3
  RESP = 3
  SDO_BUF = 2
  DL_LOW = 1
  HELP = 5
  OBJECT = 3
  WAIT = 1
  LOGS = 2
  SrdoStored <- MCSrdoStored
  SrdoMaps <- MCSrdoMaps
  Configs <- MCConfigs
  Dictionaries <- MCDictionaries
  DictionaryLayout <- MCDictionaryLayout
  OdIndexes <- MCOdIndexes
  OdSubIndexes <- MCOdSubIndexes
  OdCounts <- MCOdCounts
INVARIANTS TypeOK LssReachesChosen PdoIsInEffect TextSurvives GatewayAnswers SrdoIsSafe ObjectsAreWhole DictionaryIsSound
PROPERTIES PdosKeepTime 
CHECK_DEADLOCK FALSE

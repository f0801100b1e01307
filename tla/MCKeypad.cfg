CONSTANTS
  KEYBOARD_COUNT = 2
  QueueSize = 2
  Threshold <- MCThreshold
SPECIFICATION KSpec
INVARIANTS BusMirrorsKeys StaleOnlyIfPreempted
PROPERTIES ImplementsMirror KeysReachBus

CONSTANTS
  Mapped <- MCMapped
  Value = {0, 1}
  Off = 0
SPECIFICATION RpdoSpec
INVARIANTS NewestApplied WrongLengthHasCause
PROPERTIES StoppedKeepsObjects QuietBusSettles

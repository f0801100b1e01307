CONSTANTS
  Legal = {1, 2}
  Default = 1
  Valid = 103
SPECIFICATION WSpec
INVARIANTS ValidHasIdentity RunsWithIdentity NeverMixed AnsweredIsStored ObjectIsRegister
PROPERTY ComesUp

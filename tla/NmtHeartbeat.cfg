CONSTANT Unknown = {"UNKNOWN"}
SPECIFICATION Spec
INVARIANTS OperationalIsErrorFree HeartbeatTells CommandLostOnlyInWindow
PROPERTY HeartbeatFollows

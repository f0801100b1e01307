CONSTANT Unknown = {"UNKNOWN"}
SPECIFICATION Spec
PROPERTY ReceivedIsProcessed

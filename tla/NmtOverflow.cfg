CONSTANT Unknown = {"UNKNOWN"}
SPECIFICATION Spec
PROPERTY OverflowClears

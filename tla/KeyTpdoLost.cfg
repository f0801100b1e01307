CONSTANT Value = {v1, v2, v3}
SPECIFICATION Spec
INVARIANT RequestTransmits

CONSTANTS
    Letters = {"d"}
    Cwds <- MCCwds
    MaxLen = 6
    Input = 12
    MemSize = 20
SPECIFICATION Spec
INVARIANTS TypeOK ResolvesToAbsolute Canonical
PROPERTIES Returns
CHECK_DEADLOCK FALSE

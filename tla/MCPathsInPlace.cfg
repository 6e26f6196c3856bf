CONSTANTS
    Letters = {"d"}
    Cwds <- MCCwds
    MaxLen = 3
    Input = 0
    MemSize = 12
SPECIFICATION Spec
INVARIANTS WritesOnlyTheResult
CHECK_DEADLOCK FALSE

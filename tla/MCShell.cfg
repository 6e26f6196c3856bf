CONSTANTS
    Hda <- D
    Compiled <- MCCompiled
    Wants <- MCWants
    Inputs <- MCInputs
    Limit = 90
SPECIFICATION FairSpec
INVARIANTS TypeOK
PROPERTIES ExecutesTheScript Halts
CHECK_DEADLOCK FALSE

CONSTANTS
    Hda <- D
    Compiled <- MCCompiled
    Wants <- MCWants
    Inputs <- MCGenerated
    Limit = 90
SPECIFICATION Spec
INVARIANTS CompilesTheSource
CHECK_DEADLOCK FALSE

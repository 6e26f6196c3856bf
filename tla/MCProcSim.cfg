CONSTANTS
    p = p
    q = q
    Progs = {p, q}
    NoProg = NoProg
    FileLen <- MCFileLen
    Pad = 1
    ShellFloor = 1
    ZeroLen = 2
    MemCap = 3
    StkTop = 1
    ArgLen = 1
    Touched = {1}
    WaitSlots = {2}
    Brks = {3, 4}
    Zero = Zero
    Root = root
    Dirs = {root, sub}
    Fds = {}
    st0 = st0
    st139 = st139
    StatusWord <- MCStatusWord
    Codes = {0}
    MaxProcs = 3
    SaveCap = 7
    ExecFirst = TRUE
    NoImage = NoImage
SPECIFICATION Spec
INVARIANTS TypeOK NoLeftovers SaveAreaIsStack LiveRecordsAllocated
PROPERTIES ImplementsProcStack
SYMMETRY MCSymmetry

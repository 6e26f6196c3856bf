CONSTANTS
    p = p
    q = q
    st0 = st0
    st139 = st139
    Progs = {p}
    NoProg = NoProg
    FileLen <- MCFileLen
    Pad = 0
    ShellFloor = 1
    ZeroLen = 1
    MemCap = 1
    StkTop = 1
    ArgLen = 1
    Touched = {}
    WaitSlots = {0}
    Brks = {1}
    Zero = Zero
    Root = root
    Dirs = {root, sub}
    Fds = {f}
    StatusWord <- MCStatusWord
    Codes = {}
    MaxProcs = 3
    SaveCap = 6
    ExecFirst = FALSE
    NoImage = NoImage
SPECIFICATION Spec
PROPERTY ParentResumesOnExit

CONSTANTS
    d = d
    f = f
    a = a
    b = b
    Paths = {d, f}
    NoName = NoName
    Root = Root
    Parent <- MCParent
    Bytes = {a, b}
    Blank = Blank
    Assembled <- MCAssembled
    Fds = {4, 5}
    Offsets = 8
    MaxFiles = 5
    DataCap = 2
    MaxLevels = 1
    Counts = {1, 2}
    Seeks <- MCSeeks
    Tidy = TRUE
SPECIFICATION Spec
INVARIANTS TypeOK FilesDisjoint
PROPERTIES ImplementsFileStore

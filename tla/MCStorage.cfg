CONSTANTS
    Sectors = {0, 1}
    Values = {a, b}
    IndexSize = 4
    None = None
    Boards <- MCBoards
    MmioDevice <- MCDevice
    BlockSize = 2
    Bytes = {0, 254}
    AddressSpace = 6
    Polls = 2
    MaxDelay = 2
    StdinSector = 1
    PreloadBlocks = 2
SPECIFICATION MCSpec
INVARIANTS StorageTypeOK OneOwner FindsTheDevice InStep InTurn
PROPERTIES ImplementsDisk CardImplementsDisk Returns CardReturns
PROPERTIES PreloadsTheDisk HostImplementsDisk HostReturns
CHECK_DEADLOCK FALSE

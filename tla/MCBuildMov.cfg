CONSTANTS
    SectorSize = 3
    MaxBooted = 0
    Images <- MCOldImages
    OldDisk <- MCOldDisk
    Sources <- MCMovSources
    Drafts = {}
SPECIFICATION WholeSpec
INVARIANT AddressesAgree
CHECK_DEADLOCK FALSE

CONSTANTS
    SectorSize = 3
    MaxBooted = 2
    Images <- MCImages
    OldDisk <- MCOldDisk
    Sources <- MCSources
    Drafts <- MCDrafts
SPECIFICATION WholeSpec
INVARIANTS BuildTypeOK CompilesTheSource HandsOverTheScript CompilesTheFile
INVARIANTS ToolsTypeOK MakesTheSource SaysWhatItMeans AddressesAgree BytesInStep BootsWhatWasLinked
PROPERTIES Jumps
CHECK_DEADLOCK FALSE

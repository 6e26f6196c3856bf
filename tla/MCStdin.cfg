CONSTANTS
    SectorSize = 4
    DiskSectors = 8
    StartSector = 2
    Preloads = {0, 3}
    ProgramsRead = {0}
SPECIFICATION Spec
INVARIANTS TypeOK
PROPERTIES ReadsTheImage

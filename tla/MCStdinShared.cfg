CONSTANTS
    SectorSize = 3
    DiskSectors = 6
    StartSector = 2
    Preloads = {2}
    ProgramsRead = {2}
SPECIFICATION Spec
PROPERTIES ReadsTheImage

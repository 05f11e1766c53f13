SPECIFICATION Spec
CONSTANTS
    UINT_RANGE = 16
    Registers = {"SPI0_DR"}
    Free = Free
    Junk = Junk
    PhysSectors = {0, 1, 2, 3, 4, 5, 6, 7, 8}
    TIMEOUT = 3
    NBUF = 2
    NoSector = 99
    Tasks = {1, 2}
    Values = {a, b}
    VolSectors = {0, 1, 2, 3, 4, 5, 6}
    BkBoot = 2
    VolumeStart = 2
    StrayLbas = {0, 1, 2, 7}
    LeftPads = {16, 40}
    a = a
    b = b
INVARIANTS SdPinsRouted DmaOnLiveBlock CommandsMeetReadyCard CacheCoherent SemaphoresExact MountedBootSector
PROPERTY TransfersEnd
CHECK_DEADLOCK FALSE

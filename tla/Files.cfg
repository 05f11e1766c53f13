CONSTANTS
    LAST_CLUS = 5
    FAT_LAST = 6
    CLUS = 6
    ENTRY_CACHE_NUM = 5
    Tasks = {1, 2}
    NFILE = 2
    NOFILE = 5
    Paths <- MCPaths
    Modes = {{}, {"O_APPEND"}, {"O_CREATE", "O_TRUNC"}}
    Length = 12
    MAX_CALLS = 4
SPECIFICATION Spec
INVARIANTS
    CachedNamesTrue
    RefsExact
    ChainsSound
    InsideUntilFull
CHECK_DEADLOCK FALSE

CONSTANTS
    start = 1
    end = 38
    PAGE_SIZE = 2
    PTES = 8
    USER_STACK = 1
    KERNEL_STACK = 1
    VMA_START = 40
    TRAMPOLINE = 63
    InitCode = 1
    TEXT = 1
    DATA = 1
    LOADED = 1
    MAX_PID = 3
    Breaks = {7, 8, 11, 12, 14}
    Lengths = {3}
    Prots = {{"R"}, {"W"}, {"R", "W"}}
    MAX_VMAS = 2
    MAX_TRAPS = 5
SPECIFICATION Spec
INVARIANTS
    TablesMatchAreas
    FramesPartitioned
    BelowBreakMapped
    RemapHasCause
CHECK_DEADLOCK FALSE

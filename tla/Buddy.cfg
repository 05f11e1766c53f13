CONSTANTS
    Size = 128
    Requests = {5, 12, 24, 64}
    MAX_LIVE = 5
SPECIFICATION Spec
INVARIANTS
    BlocksDisjoint
    BlocksFoundAgain
    PanicsAfterFailure
CHECK_DEADLOCK FALSE

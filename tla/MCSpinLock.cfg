CONSTANTS
    c0 = c0
    c1 = c1
    tickslock = ticks
    tl = tcb
    tm = tcb1
    NULL = NULL
    CPUs = {c0, c1}
    Locks = {ticks, tcb, tcb1}
    tcb_lock <- MCtcb_lock
SPECIFICATION Spec
INVARIANTS MutualExclusion HolderMasksIrq NoPanic DepthMatched IrqRestored
CHECK_DEADLOCK FALSE

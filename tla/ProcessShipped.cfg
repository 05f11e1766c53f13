CONSTANTS
    Tasks = {1, 2, 3}
    INITPROC = 1
    Queues = {"sleep_vec"}
    NULL = NULL
    Dir = Dir
    BootTasks = 0
    ExitCodes = {3}
    Options = {0}
    Addrs = {"ok"}
SPECIFICATION Spec
INVARIANTS NoDeadLock
CHECK_DEADLOCK FALSE

CONSTANTS
    Tasks = {1, 2, 3}
    INITPROC = 1
    Queues = {"sleep_vec"}
    NULL = NULL
    Dir = Dir
    BootTasks = 1
    ExitCodes = {3}
    Options = {0, 1}
    Addrs = {"ok"}
SPECIFICATION Spec
INVARIANTS LockedOnlyInWaitpid
CHECK_DEADLOCK FALSE

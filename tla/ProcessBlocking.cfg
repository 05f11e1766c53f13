CONSTANTS
    Tasks = {1, 2, 3, 4, 5}
    INITPROC = 1
    Queues = {"sleep_vec"}
    NULL = NULL
    Dir = Dir
    BootTasks = 2
    ExitCodes = {3}
    Options = {0}
    Addrs = {"ok"}
SPECIFICATION Spec
INVARIANTS LockedOnlyInWaitpid StatusCollected
PROPERTIES ReadyQueueServed LoadedStarted WaitCompletes
CHECK_DEADLOCK FALSE

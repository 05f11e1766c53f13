CONSTANTS
    Tasks = {1, 2, 3, 4, 5}
    INITPROC = 1
    Queues = {"sleep_vec"}
    NULL = NULL
    Dir = Dir
    BootTasks = 2
    ExitCodes = {3}
    Options = {0, 1}
    Addrs = {"ok", "bad"}
SPECIFICATION Spec
INVARIANTS TypeOK QueueDiscipline FamilyTree NoLostWakeup
PROPERTIES ZombiesStay
CHECK_DEADLOCK FALSE

CONSTANTS
    r1 = r1
    r2 = r2
    w1 = w1
    NULL = NULL
    a = a
    b = b
    Tasks = {r1, w1}
    Readers = {r1}
    Writers = {w1}
    Queues = {"rwaiter", "wwaiter"}
    Bytes = {a, b}
    PIPESIZE = 2
    UINT = 4
    MaxCount = 3
SPECIFICATION Spec
INVARIANTS TypeOK QueueDiscipline SleepersHaveReason
PROPERTIES ImplementsFifo CallsFinish

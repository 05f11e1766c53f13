-------------------------------- MODULE Pipe --------------------------------
(***************************************************************************)
(* One pipe (fs_pipe.c) shared by tasks that read it and tasks that write  *)
(* it, over the queues of Scheduler: the ring buffer with its wrapping     *)
(* counters, the two wait queues, sleeping with the pipe's lock given back *)
(* and the wake-ups.  A step is what a task does between two calls of      *)
(* schedule(), so the pipe's own lock never blocks anybody.                *)
(***************************************************************************)
EXTENDS Scheduler

CONSTANTS
    Readers,    \* tasks that share the reading struct file
    Writers,    \* tasks that share the writing struct file
    Bytes,
    PIPESIZE,
    UINT,       \* the counters are uint: they count modulo UINT (2^32)
    MaxCount    \* largest n of a read or a write

ASSUME PipeAssumption ==
    /\ Tasks = Readers \cup Writers
    /\ IsFiniteSet(Tasks)
    /\ Readers \cap Writers = {}
    /\ Readers # {} /\ Writers # {}
    /\ Queues = {"rwaiter", "wwaiter"}
    /\ PIPESIZE \in Nat \ {0}
    /\ UINT \in Nat
    /\ UINT > PIPESIZE
    /\ UINT % PIPESIZE = 0
    /\ MaxCount \in Nat \ {0}
    /\ NULL \notin Bytes

VARIABLES
    data,       \* pi->data
    nread,      \* pi->nread
    nwrite,     \* pi->nwrite
    readopen,
    writeopen,
    holds,      \* tasks that have not closed their descriptor (struct file ref)
    call,       \* "user", or the call the task is in: "read", "write"
    todo,       \* what is left of a writer's buffer
    want,       \* a reader's n, and how many of them its buffer has room for
    out         \* the last read: of any byte?, handed over, faulted

pipeVars == <<data, nread, nwrite, readopen, writeopen, holds, call, todo,
              want, out>>
vars == <<schedVars, pipeVars>>

(* A writer's buffer: its bytes, and NULL where copyin2 fails on the next. *)
Chunks == BoundedSeq(Bytes, MaxCount)
            \cup {Append(s, NULL) : s \in BoundedSeq(Bytes, MaxCount - 1)}
Readable(buf) == IF buf # <<>> /\ Last(buf) = NULL THEN Front(buf) ELSE buf

Counts == {w \in [n : 0..MaxCount, room : 0..MaxCount] : w.room <= w.n}

-----------------------------------------------------------------------------
(* pipealloc; the heap hands memory out zeroed: NULL stands for the zero   *)
(* in a cell that was never written.                                       *)
Init ==
    /\ task_status = [t \in Tasks |-> "Ready"]
    /\ ready_queue \in SetToSeqs(Tasks)
    /\ all_task = <<>>
    /\ wait_queue = [q \in Queues |-> <<>>]
    /\ current = NULL
    /\ idle = TRUE
    /\ tcb_lock = [t \in Tasks |-> FALSE]
    /\ panicked = "no"
    /\ data = [j \in 0..PIPESIZE - 1 |-> NULL]
    /\ nread = 0
    /\ nwrite = 0
    /\ readopen = TRUE
    /\ writeopen = TRUE
    /\ holds = Tasks
    /\ call = [t \in Tasks |-> "user"]
    /\ todo = [t \in Writers |-> <<>>]
    /\ want = [t \in Readers |-> NULL]
    /\ out = [asked |-> FALSE, bytes |-> <<>>, fault |-> FALSE]

Run == Dispatch /\ UNCHANGED pipeVars

InUser(t) == Runs(t) /\ call[t] = "user"

Yield(t) == InUser(t) /\ Suspend(t) /\ UNCHANGED pipeVars

Empty == nread = nwrite
Full == nwrite = (nread + PIPESIZE) % UINT
Used == (nwrite - nread) % UINT

(* The cell of data that a counter, wrapped at UINT, selects. *)
Slot(m) == (m % UINT) % PIPESIZE

(* The writer's loop with the test nwrite == nread + PIPESIZE one late. *)
Space_OneLate == (nread + PIPESIZE + 1 - nwrite) % UINT

(* How many bytes the writer's loop stores before it finds the pipe full. *)
Space == (nread + PIPESIZE - nwrite) % UINT

(* The sleep and the return of a call; sleep() keeps t's tcb_lock until t  *)
(* runs again.                                                             *)
SleepOn(t) ==
    /\ tcb_lock' = [tcb_lock EXCEPT ![t] = TRUE]
    /\ Schedule
    /\ UNCHANGED <<all_task, panicked>>

Return(t) ==
    /\ tcb_lock' = [tcb_lock EXCEPT ![t] = FALSE]
    /\ call' = [call EXCEPT ![t] = "user"]
    /\ UNCHANGED <<all_task, current, idle, panicked>>

(* wakeup_fromwq(q) with nobody put to sleep after it. *)
Wakeup(q) ==
    /\ task_status' = StatusAfterWakeup(q)
    /\ ready_queue' = ReadyAfterWakeup(q)
    /\ wait_queue' = [wait_queue EXCEPT ![q] = QueueAfterWakeup(q)]

-----------------------------------------------------------------------------
(* pipewrite, from its call or from the return of its sleep. *)
Writing(t, buf) ==
    IF call[t] = "write" THEN Runs(t) /\ buf = todo[t]
    ELSE InUser(t) /\ t \in Writers \cap holds

(* The first n bytes of buf go to data[nwrite++ % PIPESIZE]. *)
Store(buf, n) ==
    /\ nwrite' = (nwrite + n) % UINT
    /\ data' = [j \in DOMAIN data |->
                  LET ks == {k \in 1..n : Slot(nwrite + k - 1) = j}
                  IN IF ks = {} THEN data[j] ELSE buf[Max(ks)]]

(* The loop is done, or stops where copyin2 fails. *)
WriteDone(t, buf) ==
    /\ Writing(t, buf)
    /\ Len(buf) <= Space
    /\ Store(buf, Len(Readable(buf)))
    /\ Wakeup("rwaiter")
    /\ Return(t)
    /\ todo' = [todo EXCEPT ![t] = <<>>]
    /\ UNCHANGED <<nread, readopen, writeopen, holds, want, out>>

(* Full, and nobody will ever read: -1, without a wake-up. *)
WriteBroken(t, buf) ==
    /\ Writing(t, buf)
    /\ Len(buf) > Space
    /\ ~readopen
    /\ Store(buf, Space)
    /\ Return(t)
    /\ todo' = [todo EXCEPT ![t] = <<>>]
    /\ UNCHANGED <<task_status, ready_queue, wait_queue, nread, readopen,
                   writeopen, holds, want, out>>

(* pipewrite that starts over after its sleep. *)
WriteSleep_Restart(t, buf) ==
    /\ Writing(t, buf)
    /\ Len(buf) > Space
    /\ readopen
    /\ Store(buf, Space)
    /\ task_status' = [StatusAfterWakeup("rwaiter") EXCEPT ![t] = "Sleeping"]
    /\ ready_queue' = ReadyAfterWakeup("rwaiter")
    /\ wait_queue' = [wait_queue EXCEPT !["rwaiter"] = QueueAfterWakeup("rwaiter"),
                                        !["wwaiter"] = Append(@, t)]
    /\ SleepOn(t)
    /\ call' = [call EXCEPT ![t] = "write"]
    /\ todo' = [todo EXCEPT ![t] = buf]
    /\ UNCHANGED <<nread, readopen, writeopen, holds, want, out>>

WriteSleep(t, buf) ==
    /\ Writing(t, buf)
    /\ Len(buf) > Space
    /\ readopen
    /\ Store(buf, Space)
    /\ task_status' = [StatusAfterWakeup("rwaiter") EXCEPT ![t] = "Sleeping"]
    /\ ready_queue' = ReadyAfterWakeup("rwaiter")
    /\ wait_queue' = [wait_queue EXCEPT !["rwaiter"] = QueueAfterWakeup("rwaiter"),
                                        !["wwaiter"] = Append(@, t)]
    /\ SleepOn(t)
    /\ call' = [call EXCEPT ![t] = "write"]
    /\ todo' = [todo EXCEPT ![t] = SubSeq(buf, Space + 1, Len(buf))]
    /\ UNCHANGED <<nread, readopen, writeopen, holds, want, out>>

-----------------------------------------------------------------------------
(* piperead, from its call or from the return of its sleep. *)
Reading(t, w) ==
    IF call[t] = "read" THEN Runs(t) /\ w = want[t]
    ELSE InUser(t) /\ t \in Readers \cap holds

ReadSleep(t, w) ==
    /\ Reading(t, w)
    /\ Empty
    /\ writeopen
    /\ task_status' = [task_status EXCEPT ![t] = "Sleeping"]
    /\ wait_queue' = [wait_queue EXCEPT !["rwaiter"] = Append(@, t)]
    /\ SleepOn(t)
    /\ call' = [call EXCEPT ![t] = "read"]
    /\ want' = [want EXCEPT ![t] = w]
    /\ UNCHANGED <<ready_queue, data, nread, nwrite, readopen, writeopen, holds,
                   todo, out>>

(* nread++ comes before copyout2: the byte that does not fit is gone. *)
ReadDone(t, w) ==
    LET k == Min({w.room, Used})
        lost == IF w.room < w.n /\ w.room < Used THEN 1 ELSE 0
    IN
    /\ Reading(t, w)
    /\ ~Empty \/ ~writeopen
    /\ nread' = (nread + k + lost) % UINT
    /\ out' = [asked |-> w.n # 0,
               bytes |-> [j \in 1..k |-> data[Slot(nread + j - 1)]],
               fault |-> lost = 1]
    /\ Wakeup("wwaiter")
    /\ Return(t)
    /\ want' = [want EXCEPT ![t] = NULL]
    /\ UNCHANGED <<data, nwrite, readopen, writeopen, holds, todo>>

-----------------------------------------------------------------------------
(* fileclose: the last holder of an end calls pipeclose, which wakes one   *)
(* task that waits for the other end.                                      *)
CloseReader(t) ==
    /\ InUser(t)
    /\ t \in Readers \cap holds
    /\ holds' = holds \ {t}
    /\ IF holds \cap Readers = {t}
       THEN readopen' = FALSE /\ Wakeup("wwaiter")
       ELSE UNCHANGED <<readopen, task_status, ready_queue, wait_queue>>
    /\ UNCHANGED <<all_task, current, idle, tcb_lock, panicked, data, nread,
                   nwrite, writeopen, call, todo, want, out>>

(* pipeclose that forgets the readers. *)
CloseWriter_NoWakeup(t) ==
    /\ InUser(t)
    /\ t \in Writers \cap holds
    /\ holds' = holds \ {t}
    /\ writeopen' = (holds' \cap Writers # {})
    /\ UNCHANGED <<schedVars, data, nread, nwrite, readopen, call, todo, want,
                   out>>

CloseWriter(t) ==
    /\ InUser(t)
    /\ t \in Writers \cap holds
    /\ holds' = holds \ {t}
    /\ IF holds \cap Writers = {t}
       THEN writeopen' = FALSE /\ Wakeup("rwaiter")
       ELSE UNCHANGED <<writeopen, task_status, ready_queue, wait_queue>>
    /\ UNCHANGED <<all_task, current, idle, tcb_lock, panicked, data, nread,
                   nwrite, readopen, call, todo, want, out>>

-----------------------------------------------------------------------------
Next ==
    \/ Run
    \/ \E t \in Tasks : Yield(t)
    \/ \E t \in Writers, buf \in Chunks :
          WriteDone(t, buf) \/ WriteBroken(t, buf) \/ WriteSleep(t, buf)
    \/ \E t \in Readers, w \in Counts : ReadSleep(t, w) \/ ReadDone(t, w)
    \/ \E t \in Readers : CloseReader(t)
    \/ \E t \in Writers : CloseWriter(t)

Spec == Init /\ [][Next]_vars /\ WF_vars(Run)

-----------------------------------------------------------------------------
(***************************************************************************)
(* The fields keep their types, and the pipe never holds more than         *)
(* PIPESIZE bytes, which the equality test of pipewrite relies on: one     *)
(* byte too many and it would never find the pipe full again.              *)
(***************************************************************************)
TypeOK ==
    /\ data \in [0..PIPESIZE - 1 -> Bytes \cup {NULL}]
    /\ nread \in 0..UINT - 1
    /\ nwrite \in 0..UINT - 1
    /\ Used <= PIPESIZE
    /\ readopen \in BOOLEAN
    /\ writeopen \in BOOLEAN
    /\ holds \subseteq Tasks
    /\ call \in [Tasks -> {"user", "read", "write"}]
    /\ todo \in [Writers -> Chunks]
    /\ want \in [Readers -> Counts \cup {NULL}]

(* The bytes in the pipe, oldest first. *)
Contents == [i \in 1..Used |-> data[Slot(nread + i - 1)]]

Fifo == INSTANCE PipeFifo WITH
            queue <- Contents, Capacity <- PIPESIZE,
            pending <- [t \in Writers |-> Readable(todo[t])]

(***************************************************************************)
(* The ring buffer implements the queue: whatever the counters do when     *)
(* they wrap, however calls are cut in pieces by sleeping, bytes come out  *)
(* in the order they went in, none twice, and none is lost but the one at  *)
(* which a read's buffer ended.                                            *)
(***************************************************************************)
ImplementsFifo == Fifo!FifoSpec

(***************************************************************************)
(* With one reader and one writer no wake-up is lost: who sleeps has       *)
(* reason to.  A reader only while the pipe is empty and may still be      *)
(* written, a writer only while it is full and may still be read (so they  *)
(* never both sleep).                                                      *)
(***************************************************************************)
SleepersHaveReason ==
    /\ wait_queue["rwaiter"] # <<>> => Empty /\ writeopen
    /\ wait_queue["wwaiter"] # <<>> => Full /\ readopen

(***************************************************************************)
(* A call that can finish does, with one reader and one writer: a read     *)
(* once there are bytes or the writing end is closed, a write once the     *)
(* reading end is closed.                                                  *)
(***************************************************************************)
CallsFinish ==
    ([]<>idle) =>
    \A t \in Tasks :
        /\ (call[t] = "read" /\ (~Empty \/ ~writeopen)) ~> (call[t] = "user")
        /\ (call[t] = "write" /\ ~readopen) ~> (call[t] = "user")

(***************************************************************************)
(* pipeclose releases everybody who waits for the end it closes ("wakeup   *)
(* wakes all processes that sleep on chan", sync_sem.c): no task is left   *)
(* asleep on a pipe whose other end is gone.  wakeup_fromwq wakes one.     *)
(***************************************************************************)
CloseWakesAll ==
    ([]<>idle) =>
    \A t \in Tasks :
        /\ (call[t] = "read" /\ ~writeopen) ~> (call[t] = "user")
        /\ (call[t] = "write" /\ ~readopen) ~> (call[t] = "user")
=============================================================================

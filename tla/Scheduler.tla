----------------------------- MODULE Scheduler -----------------------------
(***************************************************************************)
(* Tasks, the queues of TASK_MANAGER and the idle loop run() (tk_proc.c,   *)
(* tk_manage.c, list.c), as the components that block and wake tasks use   *)
(* them.  Only hart 0 runs tasks and no timer is armed, so the kernel      *)
(* changes control flow only where schedule() is called: a step of a task  *)
(* is everything it does between two such points.  The spin locks taken    *)
(* and given back inside one step (the lists', TASK_MANAGER's, the pipe's) *)
(* are invisible here; tcb_lock is the one a task may hold while another   *)
(* runs.                                                                   *)
(***************************************************************************)
EXTENDS Integers, SequencesExt

CONSTANTS
    Tasks,      \* task control blocks, each named by its pid
    Queues,     \* the lists sleep() may be given
    NULL

ASSUME SchedulerAssumption == NULL \notin Tasks

VARIABLES
    task_status,    \* p->task_status
    ready_queue,    \* TASK_MANAGER.ready_queue, linked through p->tag
    all_task,       \* TASK_MANAGER.all_task: loaded programs not yet started
    wait_queue,     \* the lists of sleepers, linked through p->tag
    current,        \* cpus[0].current; schedule() leaves it behind
    idle,           \* the hart executes run()
    tcb_lock,       \* p->tcb_lock is held
    panicked        \* the panic or fault that halted the kernel, or "no"

schedVars == <<task_status, ready_queue, all_task, wait_queue, current, idle,
               tcb_lock, panicked>>

Statuses == {"UNINIT", "Ready", "Running", "Zombie", "Sleeping"}

-----------------------------------------------------------------------------
Halted == panicked # "no"

(* mytask() = t, and t executes. *)
Runs(t) == ~Halted /\ ~idle /\ current = t

(* __panic prints, shuts the machine down and loops: nothing happens after. *)
Panic(why) ==
    /\ panicked' = why
    /\ UNCHANGED <<task_status, ready_queue, all_task, wait_queue, current,
                   idle, tcb_lock>>

(* schedule(): back to the idle loop. *)
Schedule == idle' = TRUE /\ UNCHANGED current

(* What is left of ready_queue once task_fetch() has taken its head. *)
Fetched == IF ready_queue = <<>> THEN <<>> ELSE Tail(ready_queue)

(* run() that takes the loaded program without looking at ready_queue. *)
Dispatch_DropQueue ==
    /\ idle /\ ~Halted
    /\ ready_queue # <<>> \/ all_task # <<>>
    /\ IF all_task # <<>>
       THEN /\ ready_queue' = <<Head(all_task)>>
            /\ all_task' = Tail(all_task)
       ELSE /\ ready_queue' = Fetched
            /\ UNCHANGED all_task
    /\ IF ready_queue = <<>>
       THEN UNCHANGED <<current, idle, task_status>>
       ELSE /\ current' = Head(ready_queue)
            /\ idle' = FALSE
            /\ task_status' = [task_status EXCEPT ![current'] = "Running"]
    /\ UNCHANGED <<wait_queue, tcb_lock, panicked>>

(* run() that serves the youngest of ready_queue first. *)
Dispatch_Lifo ==
    /\ idle /\ ~Halted
    /\ ready_queue # <<>>
    /\ ready_queue' = SubSeq(ready_queue, 1, Len(ready_queue) - 1)
    /\ current' = ready_queue[Len(ready_queue)]
    /\ idle' = FALSE
    /\ task_status' = [task_status EXCEPT ![current'] = "Running"]
    /\ UNCHANGED <<all_task, wait_queue, tcb_lock, panicked>>

(* run() that looks at ready_queue before it fetches. *)
Dispatch_TestFirst ==
    /\ idle /\ ~Halted
    /\ ready_queue # <<>> \/ all_task # <<>>
    /\ IF ready_queue = <<>>
       THEN /\ ready_queue' = <<Head(all_task)>>
            /\ all_task' = Tail(all_task)
            /\ UNCHANGED <<current, idle, task_status>>
       ELSE /\ ready_queue' = Fetched
            /\ current' = Head(ready_queue)
            /\ idle' = FALSE
            /\ task_status' = [task_status EXCEPT ![current'] = "Running"]
            /\ UNCHANGED all_task
    /\ UNCHANGED <<wait_queue, tcb_lock, panicked>>

(* One turn of run(): fetch the head of ready_queue; when that empties the *)
(* queue, put one loaded program into it; switch to what was fetched.      *)
Dispatch ==
    /\ idle /\ ~Halted
    /\ ready_queue # <<>> \/ all_task # <<>>
    /\ IF Fetched = <<>> /\ all_task # <<>>
       THEN /\ ready_queue' = <<Head(all_task)>>
            /\ all_task' = Tail(all_task)
       ELSE /\ ready_queue' = Fetched
            /\ UNCHANGED all_task
    /\ IF ready_queue = <<>>
       THEN UNCHANGED <<current, idle, task_status>>
       ELSE /\ current' = Head(ready_queue)
            /\ idle' = FALSE
            /\ task_status' = [task_status EXCEPT ![current'] = "Running"]
    /\ UNCHANGED <<wait_queue, tcb_lock, panicked>>

(* suspend_current_and_run_next(), the queues' side of it. *)
Suspend(t) ==
    /\ task_status' = [task_status EXCEPT ![t] = "Ready"]
    /\ ready_queue' = Append(ready_queue, t)
    /\ Schedule
    /\ UNCHANGED <<all_task, wait_queue, tcb_lock, panicked>>

(* wakeup_fromwq that never finds anybody. *)
Woken_Nobody(q) == {}

(* wakeup_fromwq(q): the head of q, if there is one, moves to the end of   *)
(* ready_queue.  Its check that the task is Sleeping, and sleep()'s check  *)
(* that the caller is in no queue, are implied by QueueDiscipline.         *)
Woken(q) == IF wait_queue[q] = <<>> THEN {} ELSE {Head(wait_queue[q])}

StatusAfterWakeup(q) ==
    [t \in Tasks |-> IF t \in Woken(q) THEN "Ready" ELSE task_status[t]]
ReadyAfterWakeup(q) ==
    IF Woken(q) = {} THEN ready_queue ELSE Append(ready_queue, Head(wait_queue[q]))

(* A pop that leaves the node in its list. *)
QueueAfterWakeup_Keep(q) == wait_queue[q]

QueueAfterWakeup(q) ==
    IF Woken(q) = {} THEN wait_queue[q] ELSE Tail(wait_queue[q])

-----------------------------------------------------------------------------
(* How often t is linked into the queue s. *)
Links(s, t) == {i \in 1..Len(s) : s[i] = t}

(***************************************************************************)
(* A task's list node p->tag is a single pair of pointers, so a task must  *)
(* be in exactly the one queue its status names, once: Ready in            *)
(* ready_queue (or still in all_task), Sleeping in one wait queue,         *)
(* otherwise in none, and only the current task is Running.  A second      *)
(* insertion would tie two lists together; a missing one loses the task.   *)
(***************************************************************************)
QueueDiscipline ==
    ~Halted =>
    \A t \in Tasks :
        LET places ==
                {<<"ready", i>> : i \in Links(ready_queue, t)}
                \cup {<<"all", i>> : i \in Links(all_task, t)}
                \cup UNION {{<<q, i>> : i \in Links(wait_queue[q], t)} :
                              q \in Queues}
        IN /\ task_status[t] = "Ready" =>
                \E p \in places : places = {p} /\ p[1] \in {"ready", "all"}
           /\ task_status[t] = "Sleeping" =>
                \E p \in places : places = {p} /\ p[1] \in Queues
           /\ task_status[t] \in {"UNINIT", "Running", "Zombie"} => places = {}
           /\ task_status[t] = "Running" <=> Runs(t)
=============================================================================

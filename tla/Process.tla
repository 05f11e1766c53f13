------------------------------ MODULE Process ------------------------------
(***************************************************************************)
(* The life of a task (tk_task.c): fork, yield, exit, waitpid and the      *)
(* reparenting of orphans, over the queues of Scheduler.  A task that      *)
(* finds no zombie sleeps inside waitpid on TASK_MANAGER.sleep_vec, with   *)
(* its own tcb_lock held, and goes round waitpid's loop again when it is   *)
(* dispatched.  A second acquire of a held lock on the only hart panics.   *)
(***************************************************************************)
EXTENDS Scheduler

CONSTANTS
    INITPROC,   \* the task add_initproc() builds
    BootTasks,  \* how many programs file_search() loaded before task_run():
                \* none while its loader is under `if (0)`
    ExitCodes,  \* arguments of sys_exit and of a fault (-2, -3)
    Options,    \* arguments of wait4: 0 blocks, anything else is WNOHANG
    Addrs,      \* "ok": code_exit_addr is 0 or valid, "bad": copyout2 fails
    Dir         \* a directory entry; a task's cwd is this or NULL

AnyChild == -1  \* waitpid's pid argument for "whichever child"

(* A status word: val shifted left by 8 * bytes, 0 from four bytes on. *)
Words == [val : ExitCodes \cup {0}, bytes : 0..4]
WaitCalls == [pid : Tasks \cup {AnyChild}, addr : Addrs, options : Options]

ASSUME ProcessAssumption ==
    /\ IsFiniteSet(Tasks) /\ Tasks = 1..Cardinality(Tasks)
    /\ INITPROC = 1
    /\ BootTasks \in Nat /\ BootTasks < Cardinality(Tasks)
    /\ ExitCodes \subseteq Int
    /\ Options \subseteq Nat
    /\ Addrs \subseteq {"ok", "bad"}
    /\ Queues = {"sleep_vec"}
    /\ Dir # NULL
    /\ NULL \notin WaitCalls
    /\ NULL \notin Words

VARIABLES
    parent,     \* p->parent
    child,      \* p->child, linked through ctag
    exit_code,  \* p->exit_code
    cwd,        \* p->cwd
    next_pid,   \* PID_ALLOCATOR.current; no caller of pid_dealloc exists
    call,       \* the arguments of the waitpid the task is in, or NULL
    sent,       \* history: the code the task exited with
    got         \* history: the status its parent's waitpid copied out

vars == <<schedVars, parent, child, exit_code, cwd, next_pid, call, sent, got>>
procVars == <<parent, child, exit_code, cwd, next_pid, call, sent, got>>

Word(code) == [val |-> code, bytes |-> 0]
(* The shift forgotten. *)
Shift_None(w) == w
Shift(w) == [w EXCEPT !.bytes = IF @ < 4 THEN @ + 1 ELSE @]

-----------------------------------------------------------------------------
(* add_initproc(), then one tcb_new() and task_create() per loaded program: *)
(* its parent is INITPROC, but it is not on INITPROC's child list.          *)
Booted == 2 .. 1 + BootTasks

Init ==
    /\ task_status = [t \in Tasks |-> IF t <= 1 + BootTasks THEN "Ready"
                                      ELSE "UNINIT"]
    /\ ready_queue = <<INITPROC>>
    /\ all_task = [i \in 1..BootTasks |-> 2 + BootTasks - i]
    /\ wait_queue = [q \in Queues |-> <<>>]
    /\ current = NULL
    /\ idle = TRUE
    /\ tcb_lock = [t \in Tasks |-> FALSE]
    /\ panicked = "no"
    /\ parent = [t \in Tasks |-> IF t \in Booted THEN INITPROC ELSE NULL]
    /\ child = [t \in Tasks |-> <<>>]
    /\ exit_code = [t \in Tasks |-> Word(0)]
    /\ cwd = [t \in Tasks |-> IF t \in Booted THEN Dir ELSE NULL]
    /\ next_pid = 2 + BootTasks
    /\ call = [t \in Tasks |-> NULL]
    /\ sent = [t \in Tasks |-> NULL]
    /\ got = [t \in Tasks |-> NULL]

(* t runs user code and is about to make a system call. *)
InUser(t) == Runs(t) /\ call[t] = NULL

(* Every call below but execve's path lookup and chdir starts by acquiring *)
(* the caller's own tcb_lock.                                              *)
Enters(t) == InUser(t) /\ ~tcb_lock[t]

DeadLock == Panic("dead_lock") /\ UNCHANGED procVars

AcquireOwnAgain(t) == InUser(t) /\ tcb_lock[t] /\ DeadLock

-----------------------------------------------------------------------------
Run == Dispatch /\ UNCHANGED procVars

Yield(t) ==
    /\ Enters(t)
    /\ Suspend(t)
    /\ UNCHANGED procVars

(* sys_fork: the child gets the next pid, its parent's cwd and a place at  *)
(* the end of its parent's child list and of ready_queue.                  *)
Fork(t) ==
    LET c == next_pid IN
    /\ Enters(t)
    /\ c \in Tasks
    /\ next_pid' = next_pid + 1
    /\ parent' = [parent EXCEPT ![c] = t]
    /\ child' = [child EXCEPT ![t] = Append(@, c)]
    /\ cwd' = [cwd EXCEPT ![c] = cwd[t]]
    /\ exit_code' = [exit_code EXCEPT ![c] = Word(0)]
    /\ task_status' = [task_status EXCEPT ![c] = "Ready"]
    /\ ready_queue' = Append(ready_queue, c)
    /\ UNCHANGED <<all_task, wait_queue, current, idle, tcb_lock, panicked,
                   call, sent, got>>

(* sys_exec replaces the address space and then panics unconditionally. *)
Exec(t) ==
    /\ Enters(t)
    /\ Panic("stop")
    /\ UNCHANGED procVars

(* sys_chdir gives the old cwd back with eput(), which reads through it.   *)
(* The handler of that fault exits the task, and panics on the way.        *)
ChdirWithoutCwd(t) ==
    /\ InUser(t)
    /\ cwd[t] = NULL
    /\ Panic("null_cwd")
    /\ UNCHANGED procVars

-----------------------------------------------------------------------------
(* exit_current_and_run_next(). *)
ExitOfInit ==
    /\ InUser(INITPROC)
    /\ Panic("initproc_exit")
    /\ UNCHANGED procVars

(* INITPROC.tcb_lock is taken to hand the children over, whether there are *)
(* children or not.                                                        *)
ExitWithInitLocked(t) ==
    /\ Enters(t)
    /\ t # INITPROC
    /\ tcb_lock[INITPROC]
    /\ DeadLock

ExitWithoutCwd(t) ==
    /\ Enters(t)
    /\ t # INITPROC
    /\ ~tcb_lock[INITPROC]
    /\ cwd[t] = NULL
    /\ Panic("null_cwd")
    /\ UNCHANGED procVars

(* wakeup_fromsv(p) that never finds p in sleep_vec. *)
Waits_Never(p) == FALSE

(* wakeup_fromsv(p) wakes p when it finds it in sleep_vec. *)
Waits(p) == p \in ToSet(wait_queue["sleep_vec"])

(* list_del of the first node of s that carries p. *)
Unlinked(s, p) == RemoveAt(s, Min(Links(s, p)))

(* exit that leaves the children with their dead parent. *)
HandOver_Keep(t) == UNCHANGED <<parent, child>>

(* The children of t become the last children of INITPROC. *)
HandOver(t) ==
    /\ parent' = [c \in Tasks |-> IF c \in ToSet(child[t]) THEN INITPROC
                                  ELSE parent[c]]
    /\ child' = [child EXCEPT ![INITPROC] = @ \o child[t], ![t] = <<>>]

Exit(t, code) ==
    LET p == parent[t] IN
    /\ Enters(t)
    /\ t # INITPROC
    /\ ~tcb_lock[INITPROC]
    /\ cwd[t] # NULL
    /\ exit_code' = [exit_code EXCEPT ![t] = Word(code)]
    /\ sent' = [sent EXCEPT ![t] = code]
    /\ HandOver(t)
    /\ IF Waits(p)
       THEN /\ task_status' = [task_status EXCEPT ![t] = "Zombie", ![p] = "Ready"]
            /\ wait_queue' = [wait_queue EXCEPT !["sleep_vec"] = Unlinked(@, p)]
            /\ ready_queue' = Append(ready_queue, p)
       ELSE /\ task_status' = [task_status EXCEPT ![t] = "Zombie"]
            /\ UNCHANGED <<wait_queue, ready_queue>>
    /\ Schedule
    /\ UNCHANGED <<all_task, tcb_lock, panicked, cwd, next_pid, call, got>>

-----------------------------------------------------------------------------
(* waitpid: a turn of its loop, entered from user code or on waking up. *)
Turn(t, r) == IF call[t] = NULL THEN Enters(t) ELSE Runs(t) /\ call[t] = r

Matches(r, c) == r.pid = AnyChild \/ r.pid = c

(* The scan without the test of task_status. *)
Zombies_AnyStatus(t, r) ==
    {i \in 1..Len(child[t]) : Matches(r, child[t][i])}

(* Positions in the child list of the zombies the call may collect. *)
Zombies(t, r) == {i \in 1..Len(child[t]) :
                    Matches(r, child[t][i]) /\ task_status[child[t][i]] = "Zombie"}

(* The scan takes and gives back the lock of every child up to the one it  *)
(* collects, or of all of them.                                            *)
Scanned(t, r) ==
    {child[t][i] : i \in 1..(IF Zombies(t, r) = {} THEN Len(child[t])
                             ELSE Min(Zombies(t, r)))}

ScanPanics(t, r) == \E c \in Scanned(t, r) : tcb_lock[c]

WaitScanLocked(t, r) == Turn(t, r) /\ ScanPanics(t, r) /\ DeadLock

(* The call returns without releasing the caller's lock. *)
ReturnFromWait_KeepLock(t) ==
    /\ tcb_lock' = [tcb_lock EXCEPT ![t] = TRUE]
    /\ call' = [call EXCEPT ![t] = NULL]

(* The call returns with the caller's lock released. *)
ReturnFromWait(t) ==
    /\ tcb_lock' = [tcb_lock EXCEPT ![t] = FALSE]
    /\ call' = [call EXCEPT ![t] = NULL]

(* Collect the first matching zombie: its exit_code, shifted in place, is  *)
(* copied to the caller, and it leaves the child list for good.            *)
WaitReap(t, r) ==
    LET i == Min(Zombies(t, r))
        c == child[t][i]
    IN
    /\ Turn(t, r)
    /\ Zombies(t, r) # {}
    /\ ~ScanPanics(t, r)
    /\ r.addr = "ok"
    /\ exit_code' = [exit_code EXCEPT ![c] = Shift(@)]
    /\ got' = [got EXCEPT ![c] = Shift(exit_code[c])]
    /\ child' = [child EXCEPT ![t] = RemoveAt(@, i)]
    /\ ReturnFromWait(t)
    /\ UNCHANGED <<task_status, ready_queue, all_task, wait_queue, current,
                   idle, panicked, parent, cwd, next_pid, sent>>

(* copyout2 fails: -1, the zombie stays, its exit_code stays shifted. *)
WaitCopyoutFails(t, r) ==
    LET c == child[t][Min(Zombies(t, r))] IN
    /\ Turn(t, r)
    /\ Zombies(t, r) # {}
    /\ ~ScanPanics(t, r)
    /\ r.addr = "bad"
    /\ exit_code' = [exit_code EXCEPT ![c] = Shift(@)]
    /\ ReturnFromWait(t)
    /\ UNCHANGED <<task_status, ready_queue, all_task, wait_queue, current,
                   idle, panicked, parent, child, cwd, next_pid, sent, got>>

(* No zombie, but a child that may become one (flag). *)
MustWait(t, r) ==
    /\ Zombies(t, r) = {}
    /\ \E c \in ToSet(child[t]) : Matches(r, c)
    /\ ~ScanPanics(t, r)

(* WNOHANG leaves the loop by break: 0 is returned and nothing released. *)
WaitNoHang(t, r) ==
    /\ Turn(t, r)
    /\ MustWait(t, r)
    /\ r.options # 0
    /\ tcb_lock' = [tcb_lock EXCEPT ![t] = TRUE]
    /\ UNCHANGED <<task_status, ready_queue, all_task, wait_queue, current,
                   idle, panicked, procVars>>

(* waitpid that blocks whatever its options say. *)
WaitSleep_Always(t, r) ==
    /\ Turn(t, r)
    /\ MustWait(t, r)
    /\ tcb_lock' = [tcb_lock EXCEPT ![t] = TRUE]
    /\ call' = [call EXCEPT ![t] = r]
    /\ wait_queue' = [wait_queue EXCEPT !["sleep_vec"] = Append(@, t)]
    /\ task_status' = [task_status EXCEPT ![t] = "Sleeping"]
    /\ Schedule
    /\ UNCHANGED <<ready_queue, all_task, panicked, parent, child, exit_code,
                   cwd, next_pid, sent, got>>

(* sleep(&TASK_MANAGER.sleep_vec, &p->tcb_lock). *)
WaitSleep(t, r) ==
    /\ Turn(t, r)
    /\ MustWait(t, r)
    /\ r.options = 0
    /\ tcb_lock' = [tcb_lock EXCEPT ![t] = TRUE]
    /\ call' = [call EXCEPT ![t] = r]
    /\ wait_queue' = [wait_queue EXCEPT !["sleep_vec"] = Append(@, t)]
    /\ task_status' = [task_status EXCEPT ![t] = "Sleeping"]
    /\ Schedule
    /\ UNCHANGED <<ready_queue, all_task, panicked, parent, child, exit_code,
                   cwd, next_pid, sent, got>>

(* No matching child: -1 (Turn excludes a caller that sleeps). *)
WaitNoChild(t, r) ==
    /\ Turn(t, r)
    /\ Zombies(t, r) = {}
    /\ ~\E c \in ToSet(child[t]) : Matches(r, c)
    /\ ~ScanPanics(t, r)
    /\ ReturnFromWait(t)
    /\ UNCHANGED <<task_status, ready_queue, all_task, wait_queue, current,
                   idle, panicked, parent, child, exit_code, cwd, next_pid,
                   sent, got>>

-----------------------------------------------------------------------------
Waitpid(t, r) ==
    \/ WaitScanLocked(t, r)
    \/ WaitReap(t, r)
    \/ WaitCopyoutFails(t, r)
    \/ WaitNoHang(t, r)
    \/ WaitSleep(t, r)
    \/ WaitNoChild(t, r)

SystemCall(t) ==
    \/ AcquireOwnAgain(t)
    \/ Yield(t)
    \/ Fork(t)
    \/ Exec(t)
    \/ ChdirWithoutCwd(t)
    \/ ExitWithInitLocked(t)
    \/ ExitWithoutCwd(t)
    \/ \E code \in ExitCodes : Exit(t, code)
    \/ \E r \in WaitCalls : Waitpid(t, r)

Next == Run \/ ExitOfInit \/ \E t \in Tasks : SystemCall(t)

Spec == Init /\ [][Next]_vars /\ WF_vars(Run)

-----------------------------------------------------------------------------
(***************************************************************************)
(* The fields keep their types; only a blocking waitpid (options 0) is     *)
(* ever in progress while another task runs.                               *)
(***************************************************************************)
TypeOK ==
    /\ task_status \in [Tasks -> Statuses]
    /\ ready_queue \in Seq(Tasks)
    /\ all_task \in Seq(Tasks)
    /\ wait_queue \in [Queues -> Seq(Tasks)]
    /\ current \in Tasks \cup {NULL}
    /\ idle \in BOOLEAN
    /\ tcb_lock \in [Tasks -> BOOLEAN]
    /\ panicked \in {"no", "dead_lock", "stop", "null_cwd", "initproc_exit"}
    /\ parent \in [Tasks -> Tasks \cup {NULL}]
    /\ child \in [Tasks -> Seq(Tasks)]
    /\ exit_code \in [Tasks -> Words]
    /\ cwd \in [Tasks -> {Dir, NULL}]
    /\ next_pid \in Nat
    /\ call \in [Tasks -> {r \in WaitCalls : r.options = 0} \cup {NULL}]
    /\ sent \in [Tasks -> ExitCodes \cup {NULL}]
    /\ got \in [Tasks -> Words \cup {NULL}]

(***************************************************************************)
(* The family tree.  A child list names each child once and only the       *)
(* children of its owner; every forked task stays on the list of a parent  *)
(* that has not exited until it is collected, so that somebody can still   *)
(* wait for it (exit hands the children to INITPROC, fork and waitpid keep *)
(* the lists).                                                             *)
(***************************************************************************)
FamilyTree ==
    /\ \A p \in Tasks : \A i, j \in 1..Len(child[p]) :
          /\ parent[child[p][i]] = p
          /\ child[p][i] = child[p][j] => i = j
    /\ \A c \in Tasks : (2 + BootTasks <= c /\ c < next_pid /\ got[c] = NULL) =>
          /\ task_status[parent[c]] # "Zombie"
          /\ c \in ToSet(child[parent[c]])

(***************************************************************************)
(* No lost wake-up: a task asleep in waitpid has no child it could         *)
(* collect.  exit makes the zombie and wakes the parent in one go; waitpid *)
(* looks at every child before it sleeps.                                  *)
(***************************************************************************)
NoLostWakeup ==
    ~Halted =>
    \A t \in Tasks : task_status[t] = "Sleeping" => Zombies(t, call[t]) = {}

(***************************************************************************)
(* Who holds a tcb_lock while another task runs: exactly the tasks inside  *)
(* waitpid.  Back in user code the caller has released it ("push_off and   *)
(* pop_off are matched", sync_spinlock.c).  Fails for WNOHANG.             *)
(***************************************************************************)
LockedOnlyInWaitpid ==
    ~Halted => \A t \in Tasks : tcb_lock[t] => call[t] # NULL

(***************************************************************************)
(* The status a parent collects is the code its child exited with, in the  *)
(* second byte.                                                            *)
(***************************************************************************)
StatusCollected ==
    \A c \in Tasks : got[c] # NULL => got[c] = [val |-> sent[c], bytes |-> 1]

(***************************************************************************)
(* A dead child can always wake a waiting parent: no exit and no waitpid   *)
(* runs into a lock that a sleeper keeps.                                  *)
(***************************************************************************)
NoDeadLock == panicked # "dead_lock"

(***************************************************************************)
(* A task leaves a child list only as a zombie its parent collects or when *)
(* it is handed to INITPROC, and a zombie never becomes anything else.     *)
(***************************************************************************)
ZombiesStay ==
    [][\A c \in Tasks :
         /\ task_status[c] = "Zombie" => task_status'[c] = "Zombie"
         /\ parent[c] # parent'[c] /\ parent[c] # NULL =>
              parent'[c] = INITPROC /\ task_status'[parent[c]] = "Zombie"
         /\ got[c] = NULL /\ got'[c] # NULL => task_status[c] = "Zombie"
         /\ got[c] # NULL => got'[c] = got[c]]_vars

(***************************************************************************)
(* Nobody starves in ready_queue: as long as tasks keep giving up the      *)
(* hart, whoever is in it is dispatched, although run() puts loaded        *)
(* programs into the same queue whenever a fetch has emptied it.           *)
(***************************************************************************)
ReadyQueueServed ==
    ([]<>idle) =>
    \A t \in Tasks : t \in ToSet(ready_queue) ~>
                       (Halted \/ task_status[t] = "Running")

(***************************************************************************)
(* A program that waits in all_task is started if ready_queue runs down to *)
(* one task again and again: run() takes one over when its fetch empties   *)
(* the queue.  The premise is needed.  Tasks that yield to each other can  *)
(* keep the queue longer for ever, and the program waits for ever.         *)
(***************************************************************************)
LoadedStarted ==
    ([]<>(idle /\ Len(ready_queue) <= 1)) =>
    \A t \in Tasks : t \in ToSet(all_task) ~>
                       (Halted \/ task_status[t] = "Running")

(***************************************************************************)
(* A waitpid that has something to collect returns: the exit that made the *)
(* zombie has woken the caller, and the caller is dispatched.              *)
(***************************************************************************)
WaitCompletes ==
    ([]<>idle) =>
    \A t \in Tasks : (call[t] # NULL /\ Zombies(t, call[t]) # {}) ~>
                       (Halted \/ call[t] = NULL)
=============================================================================

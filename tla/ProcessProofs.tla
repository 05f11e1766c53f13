--------------------------- MODULE ProcessProofs ---------------------------
(***************************************************************************)
(* Proofs about Process for any number of tasks and loaded programs.  The  *)
(* inductive invariant joins the queues (QueueInv of SchedulerProofs), the *)
(* family tree (pids, child lists, who still has to be collected) and what *)
(* is known of a task asleep in waitpid.                                   *)
(***************************************************************************)
EXTENDS Process, SchedulerProofs

(* Pids are handed out in order, and INITPROC never exits. *)
PidInv ==
    /\ next_pid >= 2 + BootTasks
    /\ \A t \in Tasks : task_status[t] = "UNINIT" <=> next_pid <= t
    /\ \A t \in Tasks : next_pid <= t => parent[t] = NULL
    /\ task_status[INITPROC] # "Zombie"

(* A child list has its owner's children, each once and not yet collected. *)
ListInv ==
    \A p \in Tasks :
        /\ Once(child[p])
        /\ \A c \in ToSet(child[p]) :
              parent[c] = p /\ c < next_pid /\ got[c] = NULL

(* Who was forked and not collected is on the list of a live parent. *)
CareInv ==
    \A c \in Tasks : 2 + BootTasks <= c /\ c < next_pid =>
        /\ parent[c] \in Tasks
        /\ got[c] = NULL =>
              task_status[parent[c]] # "Zombie" /\ c \in ToSet(child[parent[c]])

GotInv == \A c \in Tasks : got[c] # NULL => task_status[c] = "Zombie"

FamilyInv == PidInv /\ ListInv /\ CareInv /\ GotInv

(* A task inside waitpid holds its lock; one that sleeps there has nothing *)
(* to collect.                                                             *)
WaitInv ==
    \A t \in Tasks :
        /\ call[t] # NULL => tcb_lock[t]
        /\ task_status[t] = "Sleeping" =>
              /\ call[t] # NULL
              /\ \A c \in ToSet(child[t]) :
                    Matches(call[t], c) => task_status[c] # "Zombie"

ProcInv == TypeOK /\ QueueInv /\ FamilyInv /\ WaitInv

-----------------------------------------------------------------------------
LEMMA TasksArePids ==
  /\ Cardinality(Tasks) \in Nat /\ Tasks = 1..Cardinality(Tasks)
  /\ BootTasks \in Nat /\ BootTasks < Cardinality(Tasks)
  /\ INITPROC = 1 /\ INITPROC \in Tasks
  /\ Tasks \subseteq Nat
<1>1. /\ IsFiniteSet(Tasks) /\ Tasks = 1..Cardinality(Tasks)
      /\ BootTasks \in Nat /\ BootTasks < Cardinality(Tasks) /\ INITPROC = 1
  BY ProcessAssumption
<1>2. Cardinality(Tasks) \in Nat
  BY <1>1, FS_CardinalityType
<1>3. 1 \in 1..Cardinality(Tasks) /\ 1..Cardinality(Tasks) \subseteq Nat
  BY <1>1, <1>2
<1> QED
  BY <1>1, <1>2, <1>3

LEMMA TypeIsSchedType == TypeOK => SchedTypeOK
BY DEF TypeOK, SchedTypeOK

LEMMA SleepVec == Queues = {"sleep_vec"}
BY ProcessAssumption

(* A step that changes no lock, list or pid, makes no task a zombie or     *)
(* asleep and brings none to life keeps FamilyInv and WaitInv.             *)
LEMMA FamilyFrame ==
  ASSUME TypeOK, FamilyInv, WaitInv,
         UNCHANGED <<parent, child, next_pid, got, call, tcb_lock>>,
         \A t \in Tasks :
            /\ task_status'[t] = "UNINIT" <=> task_status[t] = "UNINIT"
            /\ task_status'[t] = "Zombie" <=> task_status[t] = "Zombie"
            /\ task_status'[t] = "Sleeping" => task_status[t] = "Sleeping"
  PROVE  FamilyInv' /\ WaitInv'
<1>1. PidInv'
  BY TasksArePids DEF FamilyInv, PidInv
<1>2. ListInv' /\ GotInv'
  BY DEF FamilyInv, ListInv, GotInv
<1>3. CareInv'
  BY DEF FamilyInv, CareInv
<1>4. \A t \in Tasks : \A c \in ToSet(child[t]) : c \in Tasks
  BY ToSetOf DEF TypeOK
<1>5. WaitInv'
  BY <1>4 DEF WaitInv, Matches
<1> QED
  BY <1>1, <1>2, <1>3, <1>5 DEF FamilyInv

-----------------------------------------------------------------------------
LEMMA InitProcInv == Init => ProcInv
<1> SUFFICES ASSUME Init PROVE ProcInv
  OBVIOUS
<1>0. DOMAIN all_task = 1..BootTasks /\ Len(all_task) = BootTasks
  BY TasksArePids DEF Init
<1>1. all_task \in Seq(Tasks)
  <2>1. \A i \in 1..BootTasks : 2 + BootTasks - i \in Tasks
    BY TasksArePids
  <2> QED
    BY <2>1, TasksArePids DEF Init
<1>2. ToSet(all_task) = 2..1 + BootTasks
  <2>1. ToSet(all_task) = {2 + BootTasks - i : i \in 1..BootTasks}
    BY <1>0 DEF Init, ToSet
  <2>2. \A i \in 1..BootTasks : 2 + BootTasks - i \in 2..1 + BootTasks
    BY TasksArePids
  <2>3. \A t \in 2..1 + BootTasks :
          2 + BootTasks - t \in 1..BootTasks /\ t = 2 + BootTasks - (2 + BootTasks - t)
    BY TasksArePids
  <2> QED
    BY <2>1, <2>2, <2>3
<1>3. Once(all_task)
  BY <1>0, TasksArePids DEF Init, Once
<1>4. ready_queue \in Seq(Tasks) /\ Once(ready_queue) /\ ToSet(ready_queue) = {1}
  BY TasksArePids, SingletonLinks DEF Init
<1>5. QueueInv
  <2>1. ListsOnce
    <3>1. ToSet(ready_queue) \cap ToSet(all_task) = {}
      BY <1>2, <1>4, TasksArePids
    <3>2. \A q \in Queues : wait_queue[q] = <<>>
      BY DEF Init
    <3> QED
      BY <1>3, <1>4, <3>1, <3>2, EmptyLinks DEF ListsOnce
  <2>2. StatusOfList
    <3>1. \A t \in Tasks : t <= 1 + BootTasks <=> t \in {1} \cup 2..1 + BootTasks
      BY TasksArePids
    <3> QED
      BY <1>2, <1>4, <3>1, EmptyLinks, SchedulerAssumption DEF Init, StatusOfList
  <2> QED
    BY <2>1, <2>2 DEF QueueInv
<1>6. FamilyInv
  <2>1. \A t \in Tasks : t \in Nat /\ (t <= 1 + BootTasks <=> ~(2 + BootTasks <= t))
    BY TasksArePids
  <2>2. PidInv
    BY <2>1, TasksArePids DEF Init, PidInv, Booted
  <2>3. ListInv /\ GotInv
    BY EmptyLinks DEF Init, ListInv, GotInv
  <2>4. CareInv
    BY <2>1, TasksArePids DEF Init, CareInv
  <2> QED
    BY <2>2, <2>3, <2>4 DEF FamilyInv
<1>7. WaitInv
  BY DEF Init, WaitInv
<1>8. TypeOK
  <2>1. Word(0) \in Words
    BY DEF Word, Words
  <2>2. \A q \in Queues : wait_queue[q] \in Seq(Tasks)
    BY DEF Init
  <2>3. \A t \in Tasks : child[t] \in Seq(Tasks)
    BY DEF Init
  <2>4. task_status \in [Tasks -> Statuses]
    BY DEF Init, Statuses
  <2>5. parent \in [Tasks -> Tasks \cup {NULL}]
    BY TasksArePids DEF Init
  <2>6. next_pid \in Nat
    BY TasksArePids DEF Init
  <2> QED
    BY <1>1, <1>4, <2>1, <2>2, <2>3, <2>4, <2>5, <2>6 DEF Init, TypeOK
<1> QED
  BY <1>5, <1>6, <1>7, <1>8 DEF ProcInv

-----------------------------------------------------------------------------
LEMMA RunKeeps == ProcInv /\ Run => ProcInv'
<1> SUFFICES ASSUME ProcInv, Run PROVE ProcInv'
  OBVIOUS
<1>1. TypeOK /\ QueueInv /\ FamilyInv /\ WaitInv /\ SchedTypeOK /\ Dispatch
  BY TypeIsSchedType DEF ProcInv, Run
<1>2. SchedTypeOK' /\ QueueInv'
  BY <1>1, DispatchKeeps
<1>3. UNCHANGED procVars /\ tcb_lock' = tcb_lock /\ panicked' = panicked
  BY <1>1 DEF Run, Dispatch
<1>4. TypeOK'
  BY <1>1, <1>2, <1>3 DEF TypeOK, SchedTypeOK, procVars
<1>5. \A t \in Tasks :
        \/ task_status'[t] = task_status[t]
        \/ task_status[t] = "Ready" /\ task_status'[t] = "Running"
  <2>1. CASE ready_queue = <<>>
    BY <1>1, <2>1 DEF Dispatch
  <2>2. CASE ready_queue # <<>>
    <3>1. Head(ready_queue) \in Tasks /\ Head(ready_queue) \in ToSet(ready_queue)
      BY <1>1, <2>2, TailLinks DEF TypeOK
    <3>2. task_status[Head(ready_queue)] = "Ready"
      BY <1>1, <3>1 DEF QueueInv, StatusOfList
    <3> QED
      BY <1>1, <2>2, <3>1, <3>2 DEF Dispatch, TypeOK
  <2> QED
    BY <2>1, <2>2
<1>6. FamilyInv' /\ WaitInv'
  BY <1>1, <1>3, <1>5, FamilyFrame DEF procVars
<1> QED
  BY <1>2, <1>4, <1>6 DEF ProcInv

LEMMA YieldKeeps == ASSUME ProcInv, NEW t \in Tasks, Yield(t) PROVE ProcInv'
<1>1. /\ TypeOK /\ QueueInv /\ FamilyInv /\ WaitInv /\ SchedTypeOK
      /\ Suspend(t) /\ Runs(t)
  BY TypeIsSchedType DEF ProcInv, Yield, Enters, InUser
<1>2. SchedTypeOK' /\ QueueInv'
  BY <1>1, SuspendKeeps
<1>3. UNCHANGED procVars /\ tcb_lock' = tcb_lock /\ panicked' = panicked
  BY <1>1 DEF Yield, Suspend
<1>4. TypeOK'
  BY <1>1, <1>2, <1>3 DEF TypeOK, SchedTypeOK, procVars
<1>5. task_status[t] = "Running" /\ task_status' = [task_status EXCEPT ![t] = "Ready"]
  BY <1>1 DEF QueueInv, StatusOfList, Runs, Suspend
<1>6. FamilyInv' /\ WaitInv'
  BY <1>1, <1>3, <1>5, FamilyFrame DEF procVars, TypeOK
<1> QED
  BY <1>2, <1>4, <1>6 DEF ProcInv

(* Every panic of the calls leaves all the rest as it was. *)
LEMMA PanicsKeep ==
  ASSUME ProcInv, UNCHANGED procVars,
         NEW why \in {"dead_lock", "stop", "null_cwd", "initproc_exit"}, Panic(why)
  PROVE  ProcInv'
<1>1. TypeOK /\ QueueInv /\ FamilyInv /\ WaitInv /\ SchedTypeOK
  BY TypeIsSchedType DEF ProcInv
<1>2. SchedTypeOK' /\ QueueInv'
  BY <1>1, HaltKeeps
<1>3. TypeOK'
  BY <1>1, <1>2 DEF TypeOK, SchedTypeOK, procVars, Panic
<1>4. FamilyInv' /\ WaitInv'
  BY <1>1, FamilyFrame DEF procVars, Panic
<1> QED
  BY <1>2, <1>3, <1>4 DEF ProcInv

LEMMA ForkKeeps == ASSUME ProcInv, NEW t \in Tasks, Fork(t) PROVE ProcInv'
<1> DEFINE c == next_pid
<1>1. /\ TypeOK /\ QueueInv /\ FamilyInv /\ WaitInv /\ SchedTypeOK
      /\ Runs(t) /\ c \in Tasks /\ c \in Nat /\ Tasks \subseteq Nat
  BY TypeIsSchedType, TasksArePids DEF ProcInv, Fork, Enters, InUser
<1>2. /\ next_pid' = c + 1
      /\ parent' = [parent EXCEPT ![c] = t]
      /\ child' = [child EXCEPT ![t] = Append(child[t], c)]
      /\ cwd' = [cwd EXCEPT ![c] = cwd[t]]
      /\ exit_code' = [exit_code EXCEPT ![c] = Word(0)]
      /\ task_status' = [task_status EXCEPT ![c] = "Ready"]
      /\ ready_queue' = Append(ready_queue, c)
      /\ UNCHANGED <<all_task, wait_queue, current, idle, tcb_lock, panicked,
                     call, sent, got>>
  BY DEF Fork
<1> HIDE DEF c
<1>3. /\ task_status[t] = "Running" /\ ~idle /\ current = t
      /\ task_status[c] = "UNINIT" /\ t # c /\ got[c] = NULL
  <2>1. task_status[t] = "Running" /\ ~idle /\ current = t
    BY <1>1 DEF Runs, QueueInv, StatusOfList
  <2>2. task_status[c] = "UNINIT"
    BY <1>1 DEF FamilyInv, PidInv, c
  <2> QED
    BY <1>1, <2>1, <2>2 DEF FamilyInv, GotInv
<1>4. /\ ListsOnce' /\ ready_queue' \in Seq(Tasks)
      /\ ToSet(ready_queue') = ToSet(ready_queue) \cup {c}
  BY <1>1, <1>2, <1>3, EnqueueKeeps
<1>5. StatusOfList'
  BY <1>1, <1>2, <1>3, <1>4 DEF SchedTypeOK, QueueInv, StatusOfList
<1>6. /\ child[t] \in Seq(Tasks) /\ Once(child[t]) /\ c \notin ToSet(child[t])
      /\ \A p \in Tasks : \A x \in ToSet(child[p]) : x \in Tasks /\ x # c
  <2>1. \A p \in Tasks : \A x \in ToSet(child[p]) : x \in Tasks /\ x # c
    <3> SUFFICES ASSUME NEW p \in Tasks, NEW x \in ToSet(child[p])
                 PROVE  x \in Tasks /\ x # c
      OBVIOUS
    <3>1. x \in Tasks
      BY <1>1, ToSetOf DEF TypeOK
    <3>2. x < c
      BY <1>1 DEF FamilyInv, ListInv, c
    <3> QED
      BY <1>1, <3>1, <3>2
  <2> QED
    BY <1>1, <2>1 DEF TypeOK, FamilyInv, ListInv
<1>7. /\ Append(child[t], c) \in Seq(Tasks) /\ Once(Append(child[t], c))
      /\ ToSet(Append(child[t], c)) = ToSet(child[t]) \cup {c}
  BY <1>1, <1>6, AppendLinks
<1>8. TypeOK'
  <2>1. Word(0) \in Words
    BY DEF Word, Words
  <2>2. exit_code' \in [Tasks -> Words]
    BY <1>1, <1>2, <2>1 DEF TypeOK
  <2>3. child' \in [Tasks -> Seq(Tasks)]
    BY <1>1, <1>2, <1>7 DEF TypeOK
  <2>4. next_pid' \in Nat /\ task_status' \in [Tasks -> Statuses]
    BY <1>1, <1>2 DEF TypeOK, Statuses
  <2>5. parent' \in [Tasks -> Tasks \cup {NULL}] /\ cwd' \in [Tasks -> {Dir, NULL}]
    BY <1>1, <1>2 DEF TypeOK
  <2> QED
    BY <1>1, <1>2, <1>4, <2>2, <2>3, <2>4, <2>5 DEF TypeOK
<1>9. PidInv'
  <2>1. \A x \in Tasks : x # c => (c <= x <=> c + 1 <= x)
    BY <1>1
  <2>2. c + 1 >= 2 + BootTasks /\ INITPROC # c /\ ~(c + 1 <= c)
    BY <1>1, TasksArePids DEF FamilyInv, PidInv, c
  <2>3. next_pid = c
    BY DEF c
  <2>4. \A x \in Tasks : task_status'[x] = "UNINIT" <=> c + 1 <= x
    BY <1>1, <1>2, <2>1, <2>2, <2>3 DEF TypeOK, FamilyInv, PidInv
  <2>5. \A x \in Tasks : c + 1 <= x => parent'[x] = NULL
    BY <1>1, <1>2, <2>1, <2>2, <2>3 DEF TypeOK, FamilyInv, PidInv
  <2>6. task_status'[INITPROC] # "Zombie"
    BY <1>1, <1>2, <2>2, TasksArePids DEF TypeOK, FamilyInv, PidInv
  <2> QED
    BY <1>2, <2>2, <2>4, <2>5, <2>6 DEF PidInv
<1>10. ListInv'
  <2> SUFFICES ASSUME NEW p \in Tasks
               PROVE  /\ Once(child'[p])
                      /\ \A x \in ToSet(child'[p]) :
                            parent'[x] = p /\ x < c + 1 /\ got[x] = NULL
    BY <1>2 DEF ListInv
  <2>1. /\ Once(child[p])
        /\ \A x \in ToSet(child[p]) :
              /\ parent'[x] = p /\ x < c + 1 /\ got[x] = NULL
    <3>1. \A x \in Nat : x < c => x < c + 1
      BY <1>1
    <3>4. ToSet(child[p]) \subseteq Nat
      BY <1>1, <1>6
    <3>2. \A x \in ToSet(child[p]) : parent'[x] = parent[x]
      BY <1>1, <1>2, <1>6 DEF TypeOK
    <3>3. /\ Once(child[p])
          /\ \A x \in ToSet(child[p]) : parent[x] = p /\ x < c /\ got[x] = NULL
      BY <1>1 DEF FamilyInv, ListInv, c
    <3> QED
      BY <3>1, <3>2, <3>3, <3>4
  <2>2. CASE p # t
    BY <1>1, <1>2, <2>1, <2>2 DEF TypeOK
  <2>3. CASE p = t
    <3>1. child'[p] = Append(child[t], c)
      BY <1>1, <1>2, <2>3 DEF TypeOK
    <3>2. parent'[c] = t /\ c < c + 1 /\ got[c] = NULL
      BY <1>1, <1>2, <1>3 DEF TypeOK
    <3> QED
      BY <1>7, <2>1, <2>3, <3>1, <3>2
  <2> QED
    BY <2>2, <2>3
<1>11. CareInv'
  <2> SUFFICES ASSUME NEW x \in Tasks, 2 + BootTasks <= x, x < c + 1
               PROVE  /\ parent'[x] \in Tasks
                      /\ got[x] = NULL =>
                           /\ task_status'[parent'[x]] # "Zombie"
                           /\ x \in ToSet(child'[parent'[x]])
    BY <1>2 DEF CareInv
  <2>1. CASE x = c
    <3>1. parent'[x] = t /\ child'[t] = Append(child[t], c) /\ task_status'[t] = "Running"
      BY <1>1, <1>2, <1>3, <2>1 DEF TypeOK
    <3> QED
      BY <1>7, <2>1, <3>1
  <2>2. CASE x # c
    <3>1. x < c /\ parent'[x] = parent[x]
      BY <1>1, <1>2, <2>2 DEF TypeOK
    <3>2. /\ parent[x] \in Tasks
          /\ got[x] = NULL =>
                task_status[parent[x]] # "Zombie" /\ x \in ToSet(child[parent[x]])
      BY <1>1, <3>1 DEF FamilyInv, CareInv, c
    <3>3. \A p \in Tasks : ToSet(child[p]) \subseteq ToSet(child'[p])
      BY <1>1, <1>2, <1>7 DEF TypeOK
    <3> QED
      BY <1>1, <1>2, <3>1, <3>2, <3>3 DEF TypeOK
  <2> QED
    BY <2>1, <2>2
<1>12. GotInv'
  BY <1>1, <1>2, <1>3 DEF TypeOK, FamilyInv, GotInv
<1>13. WaitInv'
  <2> SUFFICES ASSUME NEW s \in Tasks
               PROVE  /\ call[s] # NULL => tcb_lock[s]
                      /\ task_status'[s] = "Sleeping" =>
                           /\ call[s] # NULL
                           /\ \A x \in ToSet(child'[s]) :
                                 Matches(call[s], x) => task_status'[x] # "Zombie"
    BY <1>2 DEF WaitInv, Matches
  <2>1. call[s] # NULL => tcb_lock[s]
    BY <1>1 DEF WaitInv
  <2>2. ASSUME task_status'[s] = "Sleeping"
        PROVE  /\ call[s] # NULL
               /\ \A x \in ToSet(child'[s]) :
                     Matches(call[s], x) => task_status'[x] # "Zombie"
    <3>1. s # t /\ s # c /\ task_status[s] = "Sleeping"
      BY <1>1, <1>2, <1>3, <2>2 DEF TypeOK
    <3>2. child'[s] = child[s]
      BY <1>1, <1>2, <3>1 DEF TypeOK
    <3>3. \A x \in ToSet(child[s]) : task_status'[x] = task_status[x]
      BY <1>1, <1>2, <1>6 DEF TypeOK
    <3> QED
      BY <1>1, <3>1, <3>2, <3>3 DEF WaitInv
  <2> QED
    BY <2>1, <2>2
<1> QED
  BY <1>4, <1>5, <1>8, <1>9, <1>10, <1>11, <1>12, <1>13 DEF ProcInv, QueueInv, FamilyInv

-----------------------------------------------------------------------------
LEMMA TurnRuns ==
  ASSUME NEW t \in Tasks, NEW r, Turn(t, r), QueueInv
  PROVE  Runs(t) /\ task_status[t] = "Running" /\ ~idle /\ current = t
<1>1. Runs(t)
  BY DEF Turn, Enters, InUser
<1> QED
  BY <1>1 DEF Runs, QueueInv, StatusOfList

LEMMA QueueFrame ==
  ASSUME QueueInv,
         UNCHANGED <<task_status, ready_queue, all_task, wait_queue, current, idle>>
  PROVE  QueueInv'
BY DEF QueueInv, ListsOnce, StatusOfList

(* Positions of zombies and zombies are the same thing. *)
LEMMA ZombiePositions ==
  ASSUME TypeOK, NEW t \in Tasks, NEW r
  PROVE  /\ Zombies(t, r) = {} =>
               \A c \in ToSet(child[t]) :
                  Matches(r, c) => task_status[c] # "Zombie"
         /\ Zombies(t, r) # {} =>
               LET i == Min(Zombies(t, r)) IN
               /\ i \in 1..Len(child[t])
               /\ child[t][i] \in ToSet(child[t]) /\ child[t][i] \in Tasks
               /\ task_status[child[t][i]] = "Zombie"
               /\ Matches(r, child[t][i])
<1>1. /\ ToSet(child[t]) = {child[t][i] : i \in 1..Len(child[t])}
      /\ ToSet(child[t]) \subseteq Tasks /\ Len(child[t]) \in Nat
  BY ToSetOf DEF TypeOK
<1>2. Zombies(t, r) = {} =>
        \A c \in ToSet(child[t]) : Matches(r, c) => task_status[c] # "Zombie"
  BY <1>1 DEF Zombies
<1>3. Zombies(t, r) \subseteq Nat
  BY <1>1 DEF Zombies
<1>4. Zombies(t, r) # {} => Min(Zombies(t, r)) \in Zombies(t, r)
  BY <1>3, MinProperty
<1> QED
  BY <1>1, <1>2, <1>4 DEF Zombies

LEMMA ShiftType == ASSUME NEW w \in Words PROVE Shift(w) \in Words /\ Shift(w) # NULL
<1>1. Shift(w) \in Words
  BY DEF Shift, Words
<1> QED
  BY <1>1, ProcessAssumption

(* A turn of waitpid that sleeps on nothing and collects nobody: the tree  *)
(* is as it was, and the caller is awake.                                  *)
LEMMA TurnFrame ==
  ASSUME ProcInv, NEW t \in Tasks, task_status[t] = "Running",
         UNCHANGED <<task_status, ready_queue, all_task, wait_queue, current,
                     idle, parent, child, next_pid, got>>,
         \A s \in Tasks \ {t} : call'[s] = call[s] /\ tcb_lock'[s] = tcb_lock[s],
         call'[t] # NULL => tcb_lock'[t]
  PROVE  QueueInv' /\ FamilyInv' /\ WaitInv'
<1>1. TypeOK /\ QueueInv /\ FamilyInv /\ WaitInv
  BY DEF ProcInv
<1>2. QueueInv'
  BY <1>1, QueueFrame
<1>3. PidInv' /\ ListInv' /\ CareInv' /\ GotInv'
  BY <1>1 DEF FamilyInv, PidInv, ListInv, CareInv, GotInv
<1>4. WaitInv'
  BY <1>1 DEF WaitInv, Matches
<1> QED
  BY <1>2, <1>3, <1>4 DEF FamilyInv

LEMMA ReapKeeps ==
  ASSUME ProcInv, NEW t \in Tasks, NEW r \in WaitCalls, WaitReap(t, r)
  PROVE  ProcInv'
<1> DEFINE i == Min(Zombies(t, r))
           c == child[t][i]
<1>1. /\ TypeOK /\ QueueInv /\ FamilyInv /\ WaitInv
      /\ Turn(t, r) /\ Zombies(t, r) # {}
  BY DEF ProcInv, WaitReap
<1>2. /\ exit_code' = [exit_code EXCEPT ![c] = Shift(exit_code[c])]
      /\ got' = [got EXCEPT ![c] = Shift(exit_code[c])]
      /\ child' = [child EXCEPT ![t] = RemoveAt(child[t], i)]
      /\ tcb_lock' = [tcb_lock EXCEPT ![t] = FALSE]
      /\ call' = [call EXCEPT ![t] = NULL]
      /\ UNCHANGED <<task_status, ready_queue, all_task, wait_queue, current,
                     idle, panicked, parent, cwd, next_pid, sent>>
  BY DEF WaitReap, ReturnFromWait
<1>3. task_status[t] = "Running"
  BY <1>1, TurnRuns
<1>4. /\ i \in 1..Len(child[t]) /\ c \in ToSet(child[t]) /\ c \in Tasks
      /\ task_status[c] = "Zombie"
  BY <1>1, ZombiePositions
<1>5. Shift(exit_code[c]) \in Words /\ Shift(exit_code[c]) # NULL
  BY <1>1, <1>4, ShiftType DEF TypeOK
<1>6. /\ RemoveAt(child[t], i) \in Seq(Tasks) /\ Once(RemoveAt(child[t], i))
      /\ ToSet(RemoveAt(child[t], i)) = ToSet(child[t]) \ {c}
  BY <1>1, <1>4, RemoveAtLinks DEF TypeOK, FamilyInv, ListInv
<1> HIDE DEF i, c
<1>7. TypeOK'
  BY <1>1, <1>2, <1>4, <1>5, <1>6 DEF TypeOK
<1>8. QueueInv'
  BY <1>1, <1>2, QueueFrame
<1>9. PidInv'
  BY <1>1, <1>2 DEF FamilyInv, PidInv
<1>10. \A p \in Tasks : ToSet(child'[p]) = ToSet(child[p]) \ {c} /\ Once(child'[p])
  <2> SUFFICES ASSUME NEW p \in Tasks
               PROVE  ToSet(child'[p]) = ToSet(child[p]) \ {c} /\ Once(child'[p])
    OBVIOUS
  <2>1. CASE p = t
    BY <1>1, <1>2, <1>6, <2>1 DEF TypeOK
  <2>2. CASE p # t
    <3>1. child'[p] = child[p] /\ Once(child[p])
      BY <1>1, <1>2, <2>2 DEF TypeOK, FamilyInv, ListInv
    <3>2. c \notin ToSet(child[p])
      BY <1>1, <1>4, <2>2 DEF FamilyInv, ListInv
    <3> QED
      BY <3>1, <3>2
  <2> QED
    BY <2>1, <2>2
<1>11. ListInv'
  <2> SUFFICES ASSUME NEW p \in Tasks, NEW x \in ToSet(child[p]), x # c
               PROVE  parent[x] = p /\ x < next_pid /\ got'[x] = NULL
    BY <1>2, <1>10 DEF ListInv
  <2>1. x \in Tasks
    BY <1>1, ToSetOf DEF TypeOK
  <2> QED
    BY <1>1, <1>2, <2>1 DEF TypeOK, FamilyInv, ListInv
<1>12. CareInv' /\ GotInv'
  <2>1. \A x \in Tasks : x # c => got'[x] = got[x]
    BY <1>1, <1>2 DEF TypeOK
  <2>2. got'[c] # NULL
    BY <1>1, <1>2, <1>4, <1>5 DEF TypeOK
  <2> QED
    BY <1>1, <1>2, <1>4, <1>10, <2>1, <2>2 DEF FamilyInv, CareInv, GotInv
<1>13. WaitInv'
  <2>1. \A s \in Tasks \ {t} : call'[s] = call[s] /\ tcb_lock'[s] = tcb_lock[s]
    BY <1>1, <1>2 DEF TypeOK
  <2>2. call'[t] = NULL
    BY <1>1, <1>2 DEF TypeOK
  <2> QED
    BY <1>1, <1>2, <1>3, <1>10, <2>1, <2>2 DEF WaitInv, Matches
<1> QED
  BY <1>7, <1>8, <1>9, <1>11, <1>12, <1>13 DEF ProcInv, FamilyInv

LEMMA CopyoutFailsKeeps ==
  ASSUME ProcInv, NEW t \in Tasks, NEW r \in WaitCalls, WaitCopyoutFails(t, r)
  PROVE  ProcInv'
<1> DEFINE c == child[t][Min(Zombies(t, r))]
<1>1. TypeOK /\ QueueInv /\ Turn(t, r) /\ Zombies(t, r) # {}
  BY DEF ProcInv, WaitCopyoutFails
<1>2. /\ exit_code' = [exit_code EXCEPT ![c] = Shift(exit_code[c])]
      /\ tcb_lock' = [tcb_lock EXCEPT ![t] = FALSE]
      /\ call' = [call EXCEPT ![t] = NULL]
      /\ UNCHANGED <<task_status, ready_queue, all_task, wait_queue, current,
                     idle, panicked, parent, child, cwd, next_pid, sent, got>>
  BY DEF WaitCopyoutFails, ReturnFromWait
<1>3. task_status[t] = "Running"
  BY <1>1, TurnRuns
<1>4. c \in Tasks
  BY <1>1, ZombiePositions
<1>5. Shift(exit_code[c]) \in Words
  BY <1>1, <1>4, ShiftType DEF TypeOK
<1> HIDE DEF c
<1>6. TypeOK'
  BY <1>1, <1>2, <1>4, <1>5 DEF TypeOK
<1>7. QueueInv' /\ FamilyInv' /\ WaitInv'
  BY <1>1, <1>2, <1>3, TurnFrame DEF TypeOK
<1> QED
  BY <1>6, <1>7 DEF ProcInv

LEMMA NoHangKeeps ==
  ASSUME ProcInv, NEW t \in Tasks, NEW r \in WaitCalls, WaitNoHang(t, r)
  PROVE  ProcInv'
<1>1. TypeOK /\ QueueInv /\ Turn(t, r)
  BY DEF ProcInv, WaitNoHang
<1>2. /\ tcb_lock' = [tcb_lock EXCEPT ![t] = TRUE]
      /\ UNCHANGED <<task_status, ready_queue, all_task, wait_queue, current,
                     idle, panicked, parent, child, exit_code, cwd, next_pid,
                     call, sent, got>>
  BY DEF WaitNoHang, procVars
<1>3. task_status[t] = "Running"
  BY <1>1, TurnRuns
<1>4. TypeOK'
  BY <1>1, <1>2 DEF TypeOK
<1>5. QueueInv' /\ FamilyInv' /\ WaitInv'
  BY <1>1, <1>2, <1>3, TurnFrame DEF TypeOK
<1> QED
  BY <1>4, <1>5 DEF ProcInv

LEMMA NoChildKeeps ==
  ASSUME ProcInv, NEW t \in Tasks, NEW r \in WaitCalls, WaitNoChild(t, r)
  PROVE  ProcInv'
<1>1. TypeOK /\ QueueInv /\ Turn(t, r)
  BY DEF ProcInv, WaitNoChild
<1>2. /\ tcb_lock' = [tcb_lock EXCEPT ![t] = FALSE]
      /\ call' = [call EXCEPT ![t] = NULL]
      /\ UNCHANGED <<task_status, ready_queue, all_task, wait_queue, current,
                     idle, panicked, parent, child, exit_code, cwd, next_pid,
                     sent, got>>
  BY DEF WaitNoChild, ReturnFromWait
<1>3. task_status[t] = "Running"
  BY <1>1, TurnRuns
<1>4. TypeOK'
  BY <1>1, <1>2 DEF TypeOK
<1>5. QueueInv' /\ FamilyInv' /\ WaitInv'
  BY <1>1, <1>2, <1>3, TurnFrame DEF TypeOK
<1> QED
  BY <1>4, <1>5 DEF ProcInv

LEMMA SleepKeeps ==
  ASSUME ProcInv, NEW t \in Tasks, NEW r \in WaitCalls, WaitSleep(t, r)
  PROVE  ProcInv'
<1> DEFINE sv == wait_queue["sleep_vec"]
<1>1. /\ TypeOK /\ QueueInv /\ FamilyInv /\ WaitInv
      /\ Turn(t, r) /\ Zombies(t, r) = {} /\ r.options = 0
  BY DEF ProcInv, WaitSleep, MustWait
<1>2. /\ tcb_lock' = [tcb_lock EXCEPT ![t] = TRUE]
      /\ call' = [call EXCEPT ![t] = r]
      /\ wait_queue' = [wait_queue EXCEPT !["sleep_vec"] = Append(sv, t)]
      /\ task_status' = [task_status EXCEPT ![t] = "Sleeping"]
      /\ idle' = TRUE
      /\ UNCHANGED <<current, ready_queue, all_task, panicked, parent, child,
                     exit_code, cwd, next_pid, sent, got>>
  BY DEF WaitSleep, Schedule
<1>3. task_status[t] = "Running" /\ ~idle /\ current = t
  BY <1>1, TurnRuns
<1>4. "sleep_vec" \in Queues /\ sv \in Seq(Tasks) /\ Once(sv) /\ t \notin ToSet(sv)
  BY <1>1, <1>3, SleepVec DEF TypeOK, QueueInv, ListsOnce, StatusOfList
<1>5. /\ Append(sv, t) \in Seq(Tasks) /\ Once(Append(sv, t))
      /\ ToSet(Append(sv, t)) = ToSet(sv) \cup {t}
  BY <1>4, AppendLinks
<1> DEFINE sv2 == wait_queue'["sleep_vec"]
<1>6. sv2 = Append(sv, t) /\ wait_queue' \in [Queues -> Seq(Tasks)]
  BY <1>1, <1>2, <1>4, <1>5 DEF TypeOK
<1> HIDE DEF sv, sv2
<1>7. TypeOK'
  BY <1>1, <1>2, <1>6 DEF TypeOK, Statuses
<1>8. QueueInv'
  <2>1. ListsOnce'
    <3>1. \A q \in Queues : q = "sleep_vec"
      BY SleepVec
    <3> QED
      BY <1>1, <1>2, <1>5, <1>6, <3>1 DEF QueueInv, ListsOnce, sv2
  <2>2. \A x \in Tasks : task_status'[x] = "Sleeping" <=> x \in ToSet(sv2)
    <3>1. \A x \in Tasks : task_status[x] = "Sleeping" <=> x \in ToSet(sv)
      BY <1>1, SleepVec DEF QueueInv, StatusOfList, sv
    <3> QED
      BY <1>1, <1>2, <1>5, <1>6, <3>1 DEF TypeOK
  <2>3. StatusOfList'
    BY <1>1, <1>2, <1>3, <2>2, SleepVec DEF TypeOK, QueueInv, StatusOfList, sv2
  <2> QED
    BY <2>1, <2>3 DEF QueueInv
<1>9. FamilyInv'
  <2>1. /\ \A x \in Tasks : task_status'[x] = "Zombie" <=> task_status[x] = "Zombie"
        /\ \A x \in Tasks : task_status'[x] = "UNINIT" <=> task_status[x] = "UNINIT"
    BY <1>1, <1>2, <1>3 DEF TypeOK
  <2>2. PidInv'
    BY <1>1, <1>2, <2>1, TasksArePids DEF FamilyInv, PidInv
  <2>3. ListInv' /\ GotInv'
    BY <1>1, <1>2, <2>1 DEF FamilyInv, ListInv, GotInv
  <2>4. CareInv'
    BY <1>1, <1>2, <2>1 DEF FamilyInv, CareInv
  <2> QED
    BY <2>2, <2>3, <2>4 DEF FamilyInv
<1>10. WaitInv'
  <2>1. r # NULL
    BY ProcessAssumption
  <2>2. \A x \in Tasks : task_status'[x] = "Zombie" <=> task_status[x] = "Zombie"
    BY <1>1, <1>2, <1>3 DEF TypeOK
  <2>3. \A p \in Tasks : ToSet(child[p]) \subseteq Tasks
    BY <1>1, ToSetOf DEF TypeOK
  <2>4. \A c \in ToSet(child[t]) : Matches(r, c) => task_status[c] # "Zombie"
    BY <1>1, ZombiePositions
  <2>5. /\ \A s \in Tasks \ {t} : /\ call'[s] = call[s] /\ tcb_lock'[s] = tcb_lock[s]
                                 /\ task_status'[s] = task_status[s]
        /\ call'[t] = r /\ tcb_lock'[t]
    BY <1>1, <1>2 DEF TypeOK
  <2> QED
    BY <1>1, <1>2, <2>1, <2>2, <2>3, <2>4, <2>5 DEF WaitInv, Matches
<1> QED
  BY <1>7, <1>8, <1>9, <1>10 DEF ProcInv

-----------------------------------------------------------------------------
(* wakeup_fromsv(p), or its finding nobody, next to a task that exits. *)
LEMMA ExitQueues ==
  ASSUME ProcInv, NEW t \in Tasks, NEW code \in ExitCodes, Exit(t, code)
  PROVE  /\ SchedTypeOK' /\ QueueInv'
         /\ \A x \in Tasks :
               /\ task_status'[x] = "UNINIT" <=> task_status[x] = "UNINIT"
               /\ task_status'[x] = "Zombie" <=> x = t \/ task_status[x] = "Zombie"
               /\ task_status'[x] = "Sleeping" =>
                     task_status[x] = "Sleeping" /\ x # parent[t]
<1> DEFINE p == parent[t]
           sv == wait_queue["sleep_vec"]
<1>1. TypeOK /\ QueueInv /\ SchedTypeOK /\ Runs(t)
  BY TypeIsSchedType DEF ProcInv, Exit, Enters, InUser
<1>2. task_status[t] = "Running" /\ ~idle /\ current = t
  BY <1>1 DEF Runs, QueueInv, StatusOfList
<1>3. idle' = TRUE /\ UNCHANGED <<current, all_task, tcb_lock>>
  BY DEF Exit, Schedule
<1>4. "sleep_vec" \in Queues /\ sv \in Seq(Tasks) /\ Once(sv)
      /\ \A x \in Tasks : task_status[x] = "Sleeping" <=> x \in ToSet(sv)
  BY <1>1, SleepVec DEF TypeOK, QueueInv, ListsOnce, StatusOfList
<1>5. CASE Waits(p)
  <2>1. /\ task_status' = [task_status EXCEPT ![t] = "Zombie", ![p] = "Ready"]
        /\ wait_queue' = [wait_queue EXCEPT !["sleep_vec"] = Unlinked(sv, p)]
        /\ ready_queue' = Append(ready_queue, p)
    BY <1>5 DEF Exit
  <2>2. p \in ToSet(sv) /\ p \in Tasks /\ task_status[p] = "Sleeping" /\ p # t
    <3>1. p \in ToSet(sv) /\ p \in Tasks
      BY <1>4, <1>5, ToSetOf DEF Waits
    <3> QED
      BY <1>2, <1>4, <3>1
  <2>3. /\ Unlinked(sv, p) \in Seq(Tasks) /\ Once(Unlinked(sv, p))
        /\ ToSet(Unlinked(sv, p)) = ToSet(sv) \ {p}
    <3>1. Links(sv, p) \subseteq Nat /\ Links(sv, p) # {}
      BY <1>4, <2>2, ToSetOf DEF Links
    <3>2. Min(Links(sv, p)) \in Links(sv, p)
      BY <3>1, MinProperty
    <3>3. Min(Links(sv, p)) \in 1..Len(sv) /\ sv[Min(Links(sv, p))] = p
      BY <3>2 DEF Links
    <3> QED
      BY <1>4, <3>3, RemoveAtLinks DEF Unlinked
  <2>4. /\ p \notin ToSet(ready_queue) /\ p \notin ToSet(all_task)
        /\ ready_queue \in Seq(Tasks) /\ Once(ready_queue)
    BY <1>1, <2>2 DEF TypeOK, QueueInv, StatusOfList, ListsOnce
  <2>5. /\ Append(ready_queue, p) \in Seq(Tasks) /\ Once(Append(ready_queue, p))
        /\ ToSet(Append(ready_queue, p)) = ToSet(ready_queue) \cup {p}
    BY <2>2, <2>4, AppendLinks
  <2> HIDE DEF p, sv
  <2>6. /\ wait_queue' \in [Queues -> Seq(Tasks)]
        /\ \A q \in Queues : /\ Once(wait_queue'[q])
                             /\ ToSet(wait_queue'[q]) = ToSet(sv) \ {p}
    BY <1>1, <1>4, <2>1, <2>3, SleepVec DEF TypeOK
  <2>7. ListsOnce'
    <3>1. \A q, r \in Queues : q = r
      BY SleepVec
    <3> QED
      BY <1>1, <1>3, <2>1, <2>4, <2>5, <2>6, <3>1 DEF QueueInv, ListsOnce
  <2>8. /\ task_status'[t] = "Zombie" /\ task_status'[p] = "Ready"
        /\ \A x \in Tasks : x # t /\ x # p => task_status'[x] = task_status[x]
        /\ task_status' \in [Tasks -> Statuses]
    BY <1>1, <2>1, <2>2 DEF TypeOK, Statuses
  <2>9. StatusOfList'
    <3>1. /\ t \notin ToSet(ready_queue) /\ t \notin ToSet(all_task)
          /\ t \notin ToSet(sv)
      BY <1>1, <1>2, <1>4 DEF QueueInv, StatusOfList
    <3>2. \A x \in Tasks : task_status'[x] = "Sleeping" <=>
                              \E q \in Queues : x \in ToSet(wait_queue'[q])
      BY <1>4, <2>2, <2>6, <2>8, <3>1
    <3>3. \A x \in Tasks : task_status'[x] = "Ready" <=>
                              x \in ToSet(ready_queue') \cup ToSet(all_task')
      BY <1>1, <1>3, <2>1, <2>2, <2>4, <2>5, <2>8, <3>1 DEF QueueInv, StatusOfList
    <3>4. \A x \in Tasks : task_status'[x] # "Running"
      BY <1>1, <1>2, <2>8 DEF QueueInv, StatusOfList
    <3> QED
      BY <1>3, <3>2, <3>3, <3>4 DEF StatusOfList
  <2>10. SchedTypeOK'
    BY <1>1, <1>3, <2>1, <2>5, <2>6, <2>8 DEF SchedTypeOK
  <2> QED
    BY <1>2, <2>2, <2>7, <2>8, <2>9, <2>10 DEF QueueInv, p
<1>6. CASE ~Waits(p)
  <2>1. /\ task_status' = [task_status EXCEPT ![t] = "Zombie"]
        /\ UNCHANGED <<wait_queue, ready_queue>>
    BY <1>6 DEF Exit
  <2>2. \A x \in Tasks : task_status[x] = "Sleeping" => x # p
    BY <1>4, <1>6 DEF Waits
  <2>3. ListsOnce'
    BY <1>1, <1>3, <2>1 DEF QueueInv, ListsOnce
  <2>4. /\ task_status'[t] = "Zombie"
        /\ \A x \in Tasks : x # t => task_status'[x] = task_status[x]
        /\ task_status' \in [Tasks -> Statuses]
    BY <1>1, <2>1 DEF TypeOK, Statuses
  <2>5. StatusOfList'
    BY <1>1, <1>2, <1>3, <2>1, <2>4 DEF QueueInv, StatusOfList
  <2>6. SchedTypeOK'
    BY <1>1, <1>3, <2>1, <2>4 DEF SchedTypeOK
  <2> QED
    BY <1>2, <2>2, <2>3, <2>4, <2>5, <2>6 DEF QueueInv
<1> QED
  BY <1>5, <1>6

LEMMA ExitKeeps ==
  ASSUME ProcInv, NEW t \in Tasks, NEW code \in ExitCodes, Exit(t, code)
  PROVE  ProcInv'
<1>1. /\ TypeOK /\ QueueInv /\ FamilyInv /\ WaitInv /\ Runs(t)
      /\ t # INITPROC /\ ~tcb_lock[INITPROC] /\ INITPROC \in Tasks
  BY TasksArePids DEF ProcInv, Exit, Enters, InUser
<1>2. /\ exit_code' = [exit_code EXCEPT ![t] = Word(code)]
      /\ sent' = [sent EXCEPT ![t] = code]
      /\ parent' = [c \in Tasks |-> IF c \in ToSet(child[t]) THEN INITPROC
                                    ELSE parent[c]]
      /\ child' = [child EXCEPT ![INITPROC] = @ \o child[t], ![t] = <<>>]
      /\ UNCHANGED <<panicked, cwd, next_pid, call, got, tcb_lock>>
  BY DEF Exit, HandOver
<1>3. /\ SchedTypeOK' /\ QueueInv'
      /\ \A x \in Tasks :
            /\ task_status'[x] = "UNINIT" <=> task_status[x] = "UNINIT"
            /\ task_status'[x] = "Zombie" <=> x = t \/ task_status[x] = "Zombie"
            /\ task_status'[x] = "Sleeping" =>
                  task_status[x] = "Sleeping" /\ x # parent[t]
  BY ExitQueues
<1>4. task_status[t] = "Running"
  BY <1>1 DEF Runs, QueueInv, StatusOfList
<1>5. \A p \in Tasks : child[p] \in Seq(Tasks) /\ ToSet(child[p]) \subseteq Tasks
  BY <1>1, ToSetOf DEF TypeOK
<1>6. \A p \in Tasks :
        /\ Once(child[p])
        /\ \A x \in ToSet(child[p]) : parent[x] = p /\ x < next_pid /\ got[x] = NULL
  BY <1>1 DEF FamilyInv, ListInv
<1>7. /\ child[INITPROC] \o child[t] \in Seq(Tasks)
      /\ Once(child[INITPROC] \o child[t])
      /\ ToSet(child[INITPROC] \o child[t])
            = ToSet(child[INITPROC]) \cup ToSet(child[t])
  <2>1. ToSet(child[INITPROC]) \cap ToSet(child[t]) = {}
    BY <1>1, <1>6
  <2> QED
    BY <1>1, <1>5, <1>6, <2>1, ConcatLinks
<1>8. /\ child'[t] = <<>> /\ child'[INITPROC] = child[INITPROC] \o child[t]
      /\ \A p \in Tasks : p # t /\ p # INITPROC => child'[p] = child[p]
      /\ child' \in [Tasks -> Seq(Tasks)]
  <2>1. /\ child'[t] = <<>> /\ child'[INITPROC] = child[INITPROC] \o child[t]
        /\ \A p \in Tasks : p # t /\ p # INITPROC => child'[p] = child[p]
    BY <1>1, <1>2 DEF TypeOK
  <2>2. <<>> \in Seq(Tasks)
    OBVIOUS
  <2>3. \A p \in Tasks : child'[p] \in Seq(Tasks)
    BY <1>5, <1>7, <2>1, <2>2
  <2> QED
    BY <1>1, <1>2, <2>1, <2>3 DEF TypeOK
<1>9. TypeOK'
  <2>1. exit_code' \in [Tasks -> Words]
    <3>1. Word(code) \in Words
      BY DEF Word, Words
    <3> QED
      BY <1>1, <1>2, <3>1 DEF TypeOK
  <2>2. parent' \in [Tasks -> Tasks \cup {NULL}] /\ sent' \in [Tasks -> ExitCodes \cup {NULL}]
    BY <1>1, <1>2 DEF TypeOK
  <2> QED
    BY <1>1, <1>2, <1>3, <1>8, <2>1, <2>2 DEF TypeOK, SchedTypeOK
<1>10. PidInv'
  <2>1. \A x \in Tasks : next_pid <= x => x \notin ToSet(child[t])
    <3> SUFFICES ASSUME NEW x \in Tasks, next_pid <= x, x \in ToSet(child[t])
                 PROVE  FALSE
      OBVIOUS
    <3>1. x < next_pid /\ x \in Nat /\ next_pid \in Nat
      BY <1>1, <1>6, TasksArePids DEF TypeOK
    <3> QED
      BY <3>1
  <2> QED
    BY <1>1, <1>2, <1>3, <2>1 DEF FamilyInv, PidInv
<1>11. ListInv'
  <2> SUFFICES ASSUME NEW p \in Tasks
               PROVE  /\ Once(child'[p])
                      /\ \A x \in ToSet(child'[p]) :
                            parent'[x] = p /\ x < next_pid /\ got[x] = NULL
    BY <1>2 DEF ListInv
  <2>1. CASE p = t
    BY <1>8, <2>1, EmptyLinks
  <2>2. CASE p = INITPROC
    <3>1. \A x \in ToSet(child'[p]) :
            x \in Tasks /\ x \in ToSet(child[INITPROC]) \cup ToSet(child[t])
      BY <1>1, <1>5, <1>7, <1>8, <2>2
    <3>2. \A x \in ToSet(child'[p]) : parent'[x] = INITPROC
      BY <1>1, <1>2, <1>6, <3>1
    <3> QED
      BY <1>1, <1>6, <1>7, <1>8, <2>2, <3>1, <3>2
  <2>3. CASE p # t /\ p # INITPROC
    <3>1. \A x \in ToSet(child[p]) : x \in Tasks
      BY <1>5
    <3>2. \A x \in ToSet(child[p]) : x \notin ToSet(child[t])
      BY <1>6, <2>3
    <3> QED
      BY <1>2, <1>6, <1>8, <2>3, <3>1, <3>2
  <2> QED
    BY <2>1, <2>2, <2>3
<1>12. CareInv'
  <2> SUFFICES ASSUME NEW x \in Tasks, 2 + BootTasks <= x, x < next_pid
               PROVE  /\ parent'[x] \in Tasks
                      /\ got[x] = NULL =>
                           /\ task_status'[parent'[x]] # "Zombie"
                           /\ x \in ToSet(child'[parent'[x]])
    BY <1>2 DEF CareInv
  <2>1. /\ parent[x] \in Tasks
        /\ got[x] = NULL =>
              task_status[parent[x]] # "Zombie" /\ x \in ToSet(child[parent[x]])
    BY <1>1 DEF FamilyInv, CareInv
  <2>2. CASE x \in ToSet(child[t])
    <3>1. parent'[x] = INITPROC /\ x \in ToSet(child'[INITPROC])
      BY <1>2, <1>7, <1>8, <2>2
    <3>2. task_status'[INITPROC] # "Zombie"
      BY <1>1, <1>3 DEF FamilyInv, PidInv
    <3> QED
      BY <1>1, <3>1, <3>2
  <2>3. CASE x \notin ToSet(child[t])
    <3>1. parent'[x] = parent[x]
      BY <1>2, <2>3
    <3>2. ASSUME got[x] = NULL
          PROVE  /\ task_status'[parent[x]] # "Zombie"
                 /\ x \in ToSet(child'[parent[x]])
      <4>1. parent[x] # t
        BY <2>1, <2>3, <3>2
      <4>2. x \in ToSet(child'[parent[x]])
        BY <1>7, <1>8, <2>1, <3>2, <4>1
      <4> QED
        BY <1>3, <2>1, <3>2, <4>1, <4>2
    <3> QED
      BY <2>1, <3>1, <3>2
  <2> QED
    BY <2>2, <2>3
<1>13. GotInv'
  BY <1>1, <1>2, <1>3 DEF FamilyInv, GotInv
<1>14. WaitInv'
  <2> SUFFICES ASSUME NEW s \in Tasks, task_status'[s] = "Sleeping"
               PROVE  /\ call[s] # NULL
                      /\ \A x \in ToSet(child'[s]) :
                            Matches(call[s], x) => task_status'[x] # "Zombie"
    BY <1>1, <1>2 DEF WaitInv, Matches
  <2>1. task_status[s] = "Sleeping" /\ s # parent[t] /\ s # t
    BY <1>3, <1>4
  <2>2. /\ call[s] # NULL /\ tcb_lock[s]
        /\ \A x \in ToSet(child[s]) :
              Matches(call[s], x) => task_status[x] # "Zombie"
    BY <1>1, <2>1 DEF WaitInv
  <2>3. child'[s] = child[s]
    BY <1>1, <1>8, <2>1, <2>2
  <2>4. \A x \in ToSet(child[s]) : x \in Tasks /\ x # t
    BY <1>5, <1>6, <2>1
  <2> QED
    BY <1>3, <2>2, <2>3, <2>4
<1> QED
  BY <1>3, <1>9, <1>10, <1>11, <1>12, <1>13, <1>14 DEF ProcInv, FamilyInv

-----------------------------------------------------------------------------
LEMMA NextProcInv == ProcInv /\ [Next]_vars => ProcInv'
<1> SUFFICES ASSUME ProcInv, [Next]_vars PROVE ProcInv'
  OBVIOUS
<1>1. CASE UNCHANGED vars
  <2>1. TypeOK /\ QueueInv /\ FamilyInv /\ WaitInv
    BY DEF ProcInv
  <2>2. TypeOK'
    BY <1>1, <2>1 DEF vars, schedVars, TypeOK
  <2>3. QueueInv'
    BY <1>1, <2>1, QueueFrame DEF vars, schedVars
  <2>4. FamilyInv' /\ WaitInv'
    BY <1>1, <2>1, FamilyFrame DEF vars, schedVars
  <2> QED
    BY <2>2, <2>3, <2>4 DEF ProcInv
<1>2. CASE Run
  BY <1>2, RunKeeps
<1>3. CASE ExitOfInit
  BY <1>3, PanicsKeep DEF ExitOfInit
<1>4. ASSUME NEW t \in Tasks, SystemCall(t) PROVE ProcInv'
  <2>1. CASE AcquireOwnAgain(t) \/ ExitWithInitLocked(t)
    BY <2>1, PanicsKeep DEF AcquireOwnAgain, ExitWithInitLocked, DeadLock
  <2>2. CASE Exec(t) \/ ChdirWithoutCwd(t) \/ ExitWithoutCwd(t)
    BY <2>2, PanicsKeep DEF Exec, ChdirWithoutCwd, ExitWithoutCwd
  <2>3. CASE Yield(t) \/ Fork(t)
    BY <2>3, YieldKeeps, ForkKeeps
  <2>4. CASE \E code \in ExitCodes : Exit(t, code)
    BY <2>4, ExitKeeps
  <2>5. ASSUME NEW r \in WaitCalls, Waitpid(t, r) PROVE ProcInv'
    <3>1. CASE WaitScanLocked(t, r)
      BY <3>1, PanicsKeep DEF WaitScanLocked, DeadLock
    <3>2. CASE WaitReap(t, r)
      BY <3>2, ReapKeeps
    <3>3. CASE WaitCopyoutFails(t, r)
      BY <3>3, CopyoutFailsKeeps
    <3>4. CASE WaitNoHang(t, r)
      BY <3>4, NoHangKeeps
    <3>5. CASE WaitSleep(t, r)
      BY <3>5, SleepKeeps
    <3>6. CASE WaitNoChild(t, r)
      BY <3>6, NoChildKeeps
    <3> QED
      BY <2>5, <3>1, <3>2, <3>3, <3>4, <3>5, <3>6 DEF Waitpid
  <2> QED
    BY <1>4, <2>1, <2>2, <2>3, <2>4, <2>5 DEF SystemCall
<1> QED
  BY <1>1, <1>2, <1>3, <1>4 DEF Next

(* The inductive invariant holds for any number of tasks, loaded programs, *)
(* exit codes and arguments of waitpid.                                    *)
THEOREM ProcInvCorrect == Spec => []ProcInv
<1>1. Init => ProcInv
  BY InitProcInv
<1>2. ProcInv /\ [Next]_vars => ProcInv'
  BY NextProcInv
<1> QED
  BY <1>1, <1>2, PTL DEF Spec

(* The fields keep their types. *)
THEOREM TypeCorrect == Spec => []TypeOK
<1>1. ProcInv => TypeOK
  BY DEF ProcInv
<1> QED
  BY <1>1, ProcInvCorrect, PTL

(* fork, yield, exit, waitpid and run() keep every task in exactly the one *)
(* list its status names, once: no list node p->tag is ever linked twice.  *)
THEOREM QueuesExact == Spec => []QueueDiscipline
<1>1. ProcInv => QueueDiscipline
  BY TypeIsSchedType, InvGivesDiscipline DEF ProcInv
<1> QED
  BY <1>1, ProcInvCorrect, PTL

(* Every forked task stays on the child list of a parent that has not      *)
(* exited until it is collected.                                           *)
THEOREM FamilyTreeSound == Spec => []FamilyTree
<1>1. ASSUME ProcInv PROVE FamilyTree
  <2>1. TypeOK /\ FamilyInv
    BY <1>1 DEF ProcInv
  <2>2. ASSUME NEW p \in Tasks, NEW i \in 1..Len(child[p]), NEW j \in 1..Len(child[p])
        PROVE  parent[child[p][i]] = p /\ (child[p][i] = child[p][j] => i = j)
    <3>1. child[p][i] \in ToSet(child[p])
      BY <2>1, ToSetOf DEF TypeOK
    <3> QED
      BY <2>1, <3>1 DEF FamilyInv, ListInv, Once
  <2> QED
    BY <2>1, <2>2 DEF FamilyTree, FamilyInv, CareInv
<1> QED
  BY <1>1, ProcInvCorrect, PTL

(* A task asleep in waitpid has no child it could collect: the exit that   *)
(* made one has woken it.                                                  *)
THEOREM NoWakeupLost == Spec => []NoLostWakeup
<1>1. ASSUME ProcInv PROVE NoLostWakeup
  <2> SUFFICES ASSUME NEW t \in Tasks, task_status[t] = "Sleeping",
                      NEW i \in Zombies(t, call[t])
               PROVE  FALSE
    BY DEF NoLostWakeup
  <2>1. /\ i \in 1..Len(child[t]) /\ Matches(call[t], child[t][i])
        /\ task_status[child[t][i]] = "Zombie"
    BY DEF Zombies
  <2>2. child[t][i] \in ToSet(child[t])
    BY <1>1, <2>1, ToSetOf DEF ProcInv, TypeOK
  <2> QED
    BY <1>1, <2>1, <2>2 DEF ProcInv, WaitInv
<1> QED
  BY <1>1, ProcInvCorrect, PTL

-----------------------------------------------------------------------------
(* ZombiesStay, one step of it. *)
ZombieStep ==
    \A c \in Tasks :
         /\ task_status[c] = "Zombie" => task_status'[c] = "Zombie"
         /\ parent[c] # parent'[c] /\ parent[c] # NULL =>
              parent'[c] = INITPROC /\ task_status'[parent[c]] = "Zombie"
         /\ got[c] = NULL /\ got'[c] # NULL => task_status[c] = "Zombie"
         /\ got[c] # NULL => got'[c] = got[c]

LEMMA NextZombieStep == ProcInv /\ Next => ZombieStep
<1> SUFFICES ASSUME ProcInv, Next PROVE ZombieStep
  OBVIOUS
<1>0. TypeOK /\ QueueInv /\ FamilyInv
  BY DEF ProcInv
<1>1. ASSUME NEW why, Panic(why), UNCHANGED procVars PROVE ZombieStep
  BY <1>1 DEF Panic, procVars, ZombieStep
<1>2. CASE Run
  <2>1. Dispatch /\ UNCHANGED <<parent, got>>
    BY <1>2 DEF Run, procVars
  <2>2. CASE ready_queue = <<>>
    BY <2>1, <2>2 DEF Dispatch, ZombieStep
  <2>3. CASE ready_queue # <<>>
    <3>1. Head(ready_queue) \in Tasks /\ Head(ready_queue) \in ToSet(ready_queue)
      BY <1>0, <2>3, TailLinks DEF TypeOK
    <3>2. task_status[Head(ready_queue)] = "Ready"
      BY <1>0, <3>1 DEF QueueInv, StatusOfList
    <3>3. \A c \in Tasks : task_status[c] = "Zombie" => task_status'[c] = "Zombie"
      BY <1>0, <2>1, <2>3, <3>1, <3>2 DEF Dispatch, TypeOK
    <3> QED
      BY <2>1, <3>3 DEF ZombieStep
  <2> QED
    BY <2>2, <2>3
<1>3. CASE ExitOfInit
  BY <1>1, <1>3 DEF ExitOfInit
<1>4. ASSUME NEW t \in Tasks, SystemCall(t) PROVE ZombieStep
  <2>1. CASE AcquireOwnAgain(t) \/ ExitWithInitLocked(t)
    BY <1>1, <2>1 DEF AcquireOwnAgain, ExitWithInitLocked, DeadLock
  <2>2. CASE Exec(t) \/ ChdirWithoutCwd(t) \/ ExitWithoutCwd(t)
    BY <1>1, <2>2 DEF Exec, ChdirWithoutCwd, ExitWithoutCwd
  <2>3. Runs(t) => task_status[t] = "Running"
    BY <1>0 DEF Runs, QueueInv, StatusOfList
  <2>4. CASE Yield(t)
    BY <1>0, <2>3, <2>4 DEF Yield, Enters, InUser, Suspend, procVars, TypeOK, ZombieStep
  <2>5. CASE Fork(t)
    <3>1. /\ next_pid \in Tasks /\ parent' = [parent EXCEPT ![next_pid] = t]
          /\ task_status' = [task_status EXCEPT ![next_pid] = "Ready"]
          /\ UNCHANGED got
      BY <2>5 DEF Fork
    <3>2. task_status[next_pid] = "UNINIT" /\ parent[next_pid] = NULL
      BY <1>0, <3>1, TasksArePids DEF FamilyInv, PidInv
    <3> QED
      BY <1>0, <3>1, <3>2 DEF TypeOK, ZombieStep
  <2>6. ASSUME NEW code \in ExitCodes, Exit(t, code) PROVE ZombieStep
    <3>1. /\ parent' = [c \in Tasks |-> IF c \in ToSet(child[t]) THEN INITPROC
                                        ELSE parent[c]]
          /\ UNCHANGED got
      BY <2>6 DEF Exit, HandOver
    <3>2. \A x \in Tasks :
            task_status'[x] = "Zombie" <=> x = t \/ task_status[x] = "Zombie"
      BY <2>6, ExitQueues
    <3>3. \A x \in ToSet(child[t]) : parent[x] = t
      BY <1>0 DEF FamilyInv, ListInv
    <3> QED
      BY <3>1, <3>2, <3>3 DEF ZombieStep
  <2>7. ASSUME NEW r \in WaitCalls, Waitpid(t, r) PROVE ZombieStep
    <3>1. CASE WaitScanLocked(t, r)
      BY <1>1, <3>1 DEF WaitScanLocked, DeadLock
    <3>2. CASE WaitReap(t, r)
      <4> DEFINE c == child[t][Min(Zombies(t, r))]
      <4>1. /\ got' = [got EXCEPT ![c] = Shift(exit_code[c])]
            /\ UNCHANGED <<task_status, parent>> /\ Zombies(t, r) # {}
        BY <3>2 DEF WaitReap
      <4>2. c \in ToSet(child[t]) /\ c \in Tasks /\ task_status[c] = "Zombie"
        BY <1>0, <4>1, ZombiePositions
      <4>3. got[c] = NULL
        BY <1>0, <4>2 DEF FamilyInv, ListInv
      <4> HIDE DEF c
      <4> QED
        BY <1>0, <4>1, <4>2, <4>3 DEF TypeOK, ZombieStep
    <3>3. CASE WaitCopyoutFails(t, r)
      BY <3>3 DEF WaitCopyoutFails, ZombieStep
    <3>4. CASE WaitNoHang(t, r)
      BY <3>4 DEF WaitNoHang, procVars, ZombieStep
    <3>5. CASE WaitSleep(t, r)
      <4>1. task_status[t] = "Running"
        BY <1>0, <3>5, TurnRuns DEF WaitSleep
      <4> QED
        BY <1>0, <3>5, <4>1 DEF WaitSleep, TypeOK, ZombieStep
    <3>6. CASE WaitNoChild(t, r)
      BY <3>6 DEF WaitNoChild, ZombieStep
    <3> QED
      BY <2>7, <3>1, <3>2, <3>3, <3>4, <3>5, <3>6 DEF Waitpid
  <2> QED
    BY <1>4, <2>1, <2>2, <2>4, <2>5, <2>6, <2>7 DEF SystemCall
<1> QED
  BY <1>2, <1>3, <1>4 DEF Next

(* A zombie stays one, changes parent only when its parent exits, and is   *)
(* collected once.                                                         *)
THEOREM ZombiesRemain == Spec => ZombiesStay
<1>1. ProcInv /\ [Next]_vars => [ZombieStep]_vars
  BY NextZombieStep
<1>2. Spec => [][ZombieStep]_vars
  BY <1>1, ProcInvCorrect, PTL DEF Spec
<1> QED
  BY <1>2 DEF ZombiesStay, ZombieStep

-----------------------------------------------------------------------------
LEMMA NextLocked ==
  ASSUME Options \subseteq {0}, ProcInv, LockedOnlyInWaitpid, [Next]_vars
  PROVE  LockedOnlyInWaitpid'
<1>0. TypeOK
  BY DEF ProcInv
<1>1. CASE UNCHANGED vars
  BY <1>1 DEF vars, schedVars, LockedOnlyInWaitpid, Halted
<1>2. CASE Run
  BY <1>2 DEF Run, Dispatch, procVars, LockedOnlyInWaitpid, Halted
<1>3. ASSUME NEW why, why # "no", Panic(why) PROVE LockedOnlyInWaitpid'
  BY <1>3 DEF Panic, LockedOnlyInWaitpid, Halted
<1>4. CASE ExitOfInit
  BY <1>3, <1>4 DEF ExitOfInit
<1>5. ASSUME NEW t \in Tasks, SystemCall(t) PROVE LockedOnlyInWaitpid'
  <2>1. CASE AcquireOwnAgain(t) \/ ExitWithInitLocked(t)
    BY <1>3, <2>1 DEF AcquireOwnAgain, ExitWithInitLocked, DeadLock
  <2>2. CASE Exec(t) \/ ChdirWithoutCwd(t) \/ ExitWithoutCwd(t)
    BY <1>3, <2>2 DEF Exec, ChdirWithoutCwd, ExitWithoutCwd
  <2>3. CASE Yield(t)
    BY <2>3 DEF Yield, Suspend, procVars, LockedOnlyInWaitpid, Halted
  <2>4. CASE Fork(t)
    BY <2>4 DEF Fork, LockedOnlyInWaitpid, Halted
  <2>5. CASE \E code \in ExitCodes : Exit(t, code)
    BY <2>5 DEF Exit, LockedOnlyInWaitpid, Halted
  <2>6. ASSUME NEW r \in WaitCalls, Waitpid(t, r) PROVE LockedOnlyInWaitpid'
    <3>0. r.options = 0 /\ r # NULL
      BY ProcessAssumption DEF WaitCalls
    <3>1. CASE WaitScanLocked(t, r)
      BY <1>3, <3>1 DEF WaitScanLocked, DeadLock
    <3>2. CASE WaitReap(t, r)
      BY <1>0, <3>2 DEF WaitReap, ReturnFromWait, TypeOK, LockedOnlyInWaitpid, Halted
    <3>3. CASE WaitCopyoutFails(t, r)
      BY <1>0, <3>3 DEF WaitCopyoutFails, ReturnFromWait, TypeOK,
                        LockedOnlyInWaitpid, Halted
    <3>4. ~WaitNoHang(t, r)
      BY <3>0 DEF WaitNoHang
    <3>5. CASE WaitSleep(t, r)
      BY <1>0, <3>0, <3>5 DEF WaitSleep, TypeOK, LockedOnlyInWaitpid, Halted
    <3>6. CASE WaitNoChild(t, r)
      BY <1>0, <3>6 DEF WaitNoChild, ReturnFromWait, TypeOK, LockedOnlyInWaitpid, Halted
    <3> QED
      BY <2>6, <3>1, <3>2, <3>3, <3>4, <3>5, <3>6 DEF Waitpid
  <2> QED
    BY <1>5, <2>1, <2>2, <2>3, <2>4, <2>5, <2>6 DEF SystemCall
<1> QED
  BY <1>1, <1>2, <1>4, <1>5 DEF Next

(* As long as nobody passes WNOHANG, a tcb_lock is held across a switch    *)
(* only by tasks inside waitpid.                                           *)
THEOREM LocksReleased ==
  ASSUME Options \subseteq {0}
  PROVE  Spec => []LockedOnlyInWaitpid
<1>1. Init => LockedOnlyInWaitpid
  BY DEF Init, LockedOnlyInWaitpid
<1>2. ProcInv /\ LockedOnlyInWaitpid /\ [Next]_vars => LockedOnlyInWaitpid'
  BY NextLocked
<1> QED
  BY <1>1, <1>2, ProcInvCorrect, PTL DEF Spec

-----------------------------------------------------------------------------
(* Until a zombie is collected its exit_code is what it exited with. *)
CodeInv ==
    /\ StatusCollected
    /\ \A c \in Tasks : task_status[c] = "Zombie" /\ got[c] = NULL =>
          exit_code[c] = Word(sent[c])

LEMMA NextCodeInv ==
  ASSUME Addrs \subseteq {"ok"}, ProcInv, CodeInv, [Next]_vars
  PROVE  CodeInv'
<1>0. TypeOK /\ QueueInv /\ FamilyInv
  BY DEF ProcInv
<1>1. ASSUME UNCHANGED <<exit_code, got, sent>>,
             \A c \in Tasks : task_status'[c] = "Zombie" => task_status[c] = "Zombie"
      PROVE  CodeInv'
  BY <1>1 DEF CodeInv, StatusCollected
<1>2. CASE UNCHANGED vars
  BY <1>1, <1>2 DEF vars, schedVars
<1>3. ASSUME NEW why, Panic(why), UNCHANGED procVars PROVE CodeInv'
  BY <1>1, <1>3 DEF Panic, procVars
<1>4. CASE Run
  BY <1>0, <1>1, <1>4 DEF Run, Dispatch, procVars, TypeOK
<1>5. CASE ExitOfInit
  BY <1>3, <1>5 DEF ExitOfInit
<1>6. ASSUME NEW t \in Tasks, SystemCall(t) PROVE CodeInv'
  <2>1. CASE AcquireOwnAgain(t) \/ ExitWithInitLocked(t)
    BY <1>3, <2>1 DEF AcquireOwnAgain, ExitWithInitLocked, DeadLock
  <2>2. CASE Exec(t) \/ ChdirWithoutCwd(t) \/ ExitWithoutCwd(t)
    BY <1>3, <2>2 DEF Exec, ChdirWithoutCwd, ExitWithoutCwd
  <2>3. CASE Yield(t)
    BY <1>0, <1>1, <2>3 DEF Yield, Suspend, procVars, TypeOK
  <2>4. CASE Fork(t)
    <3>1. /\ exit_code' = [exit_code EXCEPT ![next_pid] = Word(0)]
          /\ task_status' = [task_status EXCEPT ![next_pid] = "Ready"]
          /\ UNCHANGED <<got, sent>>
      BY <2>4 DEF Fork
    <3> QED
      BY <1>0, <3>1 DEF TypeOK, CodeInv, StatusCollected
  <2>5. ASSUME NEW code \in ExitCodes, Exit(t, code) PROVE CodeInv'
    <3>1. /\ exit_code' = [exit_code EXCEPT ![t] = Word(code)]
          /\ sent' = [sent EXCEPT ![t] = code] /\ UNCHANGED got
          /\ Runs(t)
      BY <2>5 DEF Exit, Enters, InUser
    <3>2. \A x \in Tasks :
            task_status'[x] = "Zombie" <=> x = t \/ task_status[x] = "Zombie"
      BY <2>5, ExitQueues
    <3>3. got[t] = NULL
      BY <1>0, <3>1 DEF Runs, QueueInv, StatusOfList, FamilyInv, GotInv
    <3> QED
      BY <1>0, <3>1, <3>2, <3>3 DEF TypeOK, CodeInv, StatusCollected
  <2>6. ASSUME NEW r \in WaitCalls, Waitpid(t, r) PROVE CodeInv'
    <3>0. r.addr = "ok"
      BY DEF WaitCalls
    <3>1. CASE WaitScanLocked(t, r)
      BY <1>3, <3>1 DEF WaitScanLocked, DeadLock
    <3>2. CASE WaitReap(t, r)
      <4> DEFINE c == child[t][Min(Zombies(t, r))]
      <4>1. /\ got' = [got EXCEPT ![c] = Shift(exit_code[c])]
            /\ exit_code' = [exit_code EXCEPT ![c] = Shift(exit_code[c])]
            /\ UNCHANGED <<task_status, sent>> /\ Zombies(t, r) # {}
        BY <3>2 DEF WaitReap
      <4>2. c \in ToSet(child[t]) /\ c \in Tasks /\ task_status[c] = "Zombie"
        BY <1>0, <4>1, ZombiePositions
      <4>3. got[c] = NULL
        BY <1>0, <4>2 DEF FamilyInv, ListInv
      <4>4. Shift(exit_code[c]) = [val |-> sent[c], bytes |-> 1]
        <5>1. exit_code[c] = Word(sent[c])
          BY <4>2, <4>3 DEF CodeInv
        <5> QED
          BY <5>1 DEF Shift, Word
      <4>5. Shift(exit_code[c]) # NULL
        BY <1>0, <4>2, ShiftType DEF TypeOK
      <4> HIDE DEF c
      <4> QED
        BY <1>0, <4>1, <4>2, <4>4, <4>5 DEF TypeOK, CodeInv, StatusCollected
    <3>3. ~WaitCopyoutFails(t, r)
      BY <3>0 DEF WaitCopyoutFails
    <3>4. CASE WaitNoHang(t, r)
      BY <1>1, <3>4 DEF WaitNoHang, procVars
    <3>5. CASE WaitSleep(t, r)
      BY <1>0, <1>1, <3>5 DEF WaitSleep, TypeOK
    <3>6. CASE WaitNoChild(t, r)
      BY <1>1, <3>6 DEF WaitNoChild
    <3> QED
      BY <2>6, <3>1, <3>2, <3>3, <3>4, <3>5, <3>6 DEF Waitpid
  <2> QED
    BY <1>6, <2>1, <2>2, <2>3, <2>4, <2>5, <2>6 DEF SystemCall
<1> QED
  BY <1>2, <1>4, <1>5, <1>6 DEF Next

(* As long as copyout2 does not fail, a parent collects the code its child *)
(* exited with, in the second byte.                                        *)
THEOREM StatusIsTheCode ==
  ASSUME Addrs \subseteq {"ok"}
  PROVE  Spec => []StatusCollected
<1>1. Init => CodeInv
  BY DEF Init, CodeInv, StatusCollected
<1>2. ProcInv /\ CodeInv /\ [Next]_vars => CodeInv'
  BY NextCodeInv
<1>3. CodeInv => StatusCollected
  BY DEF CodeInv
<1> QED
  BY <1>1, <1>2, <1>3, ProcInvCorrect, PTL DEF Spec
=============================================================================

------------------------------ MODULE SpinLock ------------------------------
(***************************************************************************)
(* The kernel's spin lock (sync_spinlock.c), instruction by instruction,   *)
(* on several harts, with the timer interrupt (timer.c, timer_handle) that *)
(* may arrive on a hart whenever its SSTATUS.SIE bit is set.               *)
(*                                                                         *)
(* A hart has two control flows: the one it runs ("task") and the trap     *)
(* handler that may interrupt it ("irq").  Each flow is inside at most one *)
(* call of acquire, release or mytask; pc says before which statement.     *)
(* Callers are left free: they take any lock they do not hold, in any      *)
(* order, and give back any lock they hold.                                *)
(***************************************************************************)
EXTENDS Naturals, FiniteSets, Sequences

CONSTANTS
    CPUs,       \* the harts (struct Processor cpus[NCPU])
    Locks,      \* the spin locks of the kernel
    tickslock,  \* the lock timer_handle takes around TICKS++
    tcb_lock,   \* tcb_lock[c]: the lock of the task hart c runs
    NULL        \* no hart owns the lock / no lock is named by the call

ASSUME SpinLockAssumption ==
    /\ IsFiniteSet(Locks)
    /\ tickslock \in Locks
    /\ tcb_lock \in [CPUs -> Locks]
    /\ NULL \notin CPUs
    /\ NULL \notin Locks

Flows == {"task", "irq"}
Contexts == CPUs \X Flows
Hart(x) == x[1]
IrqOf(c) == <<c, "irq">>
TaskOf(c) == <<c, "task">>

VARIABLES
    locked,     \* lk->locked
    cpu,        \* lk->cpu
    sie,        \* SSTATUS.SIE of each hart
    depth,      \* cpus[c].depth_of_ir
    ir_enable,  \* cpus[c].ir_enable
    trap,       \* hart c is in its trap handler
    pc,         \* next statement of each control flow
    lk,         \* argument of the call in progress (NULL: mytask)
    old,        \* push_off's local `old`
    held,       \* the locks whose bit the flow set and has not cleared
    todo,       \* calls timer_handle still makes, in order
    base,       \* SIE when the hart's task flow entered the kernel
    panicked    \* the panic reached, "no" while the kernel runs

lockVars == <<locked, cpu>>
irqVars == <<sie, depth, ir_enable>>
flowVars == <<pc, lk, old, held>>
vars == <<locked, cpu, sie, depth, ir_enable, trap, pc, lk, old, held, todo,
          base, panicked>>

PCs == {"run", "get", "off", "deepen", "check", "check_cpu", "spin", "own",
        "r_check", "r_clear", "r_unlock", "pop"}

Panics == {"no", "dead lock", "release", "pop_off when irq_enable",
           "pop_off without a push off"}

-----------------------------------------------------------------------------
Init ==
    /\ locked = [l \in Locks |-> FALSE]
    /\ cpu = [l \in Locks |-> NULL]
    /\ base \in [CPUs -> BOOLEAN]
    /\ sie = base
    /\ depth = [c \in CPUs |-> 0]
    /\ ir_enable = [c \in CPUs |-> FALSE]
    /\ trap = [c \in CPUs |-> FALSE]
    /\ pc = [x \in Contexts |-> "run"]
    /\ lk = [x \in Contexts |-> NULL]
    /\ old = [x \in Contexts |-> FALSE]
    /\ held = [x \in Contexts |-> {}]
    /\ todo = [c \in CPUs |-> <<>>]
    /\ panicked = "no"

(* The flow that executes on a hart: the handler while it is in a trap. *)
Executes(x) == panicked = "no" /\ (trap[Hart(x)] <=> x[2] = "irq")

At(x, p) == Executes(x) /\ pc[x] = p
Goto(x, p) == pc' = [pc EXCEPT ![x] = p]
(* The call returns; its argument is dead. *)
Return(x) == Goto(x, "run") /\ lk' = [lk EXCEPT ![x] = NULL]

Panic(why) ==
    /\ panicked' = why
    /\ UNCHANGED <<lockVars, irqVars, flowVars, trap, todo, base>>

(* holding(lk): lk->locked && lk->cpu == mycpu(), read in that order. *)
Holding(x) == locked[lk[x]] /\ cpu[lk[x]] = Hart(x)

-----------------------------------------------------------------------------
(* Calls.  The task flow's are unconstrained; timer_handle makes the calls *)
(* of todo, and releases each lock before it makes the next one.           *)
CallAcquire(x, l) ==
    /\ At(x, "run")
    /\ l \notin held[x]
    /\ IF x[2] = "irq"
       THEN /\ held[x] = {}
            /\ todo[Hart(x)] # <<>>
            /\ l = Head(todo[Hart(x)])
            /\ todo' = [todo EXCEPT ![Hart(x)] = Tail(@)]
       ELSE UNCHANGED todo
    /\ lk' = [lk EXCEPT ![x] = l]
    /\ Goto(x, "get")
    /\ UNCHANGED <<lockVars, irqVars, old, held, trap, base, panicked>>

CallRelease(x, l) ==
    /\ At(x, "run")
    /\ l \in held[x]
    /\ lk' = [lk EXCEPT ![x] = l]
    /\ Goto(x, "r_check")
    /\ UNCHANGED <<lockVars, irqVars, old, held, trap, todo, base, panicked>>

(* mytask() reads cpus[c].current between a push_off and a pop_off. *)
CallMytask(x) == CallAcquire(x, NULL)

-----------------------------------------------------------------------------
(* push_off, three statements.  An interrupt may still come between the    *)
(* read of SIE and irq_disable.                                            *)
PushOffGet(x) ==
    /\ At(x, "get")
    /\ old' = [old EXCEPT ![x] = sie[Hart(x)]]
    /\ Goto(x, "off")
    /\ UNCHANGED <<lockVars, irqVars, lk, held, trap, todo, base, panicked>>

(* push_off leaves SIE as it is: the mask is forgotten. *)
PushOffDisable_NoMask(x) ==
    /\ At(x, "off")
    /\ Goto(x, "deepen")
    /\ UNCHANGED <<lockVars, irqVars, lk, old, held, trap, todo, base, panicked>>

PushOffDisable(x) ==
    /\ At(x, "off")
    /\ sie' = [sie EXCEPT ![Hart(x)] = FALSE]
    /\ Goto(x, "deepen")
    /\ UNCHANGED <<lockVars, depth, ir_enable, lk, old, held, trap, todo, base,
                   panicked>>

(* push_off that forgets to count. *)
PushOffDepth_NoCount(x) ==
    LET c == Hart(x) IN
    /\ At(x, "deepen")
    /\ ir_enable' = [ir_enable EXCEPT ![c] = old[x]]
    /\ Goto(x, IF lk[x] = NULL THEN "pop" ELSE "check")
    /\ old' = [old EXCEPT ![x] = FALSE]
    /\ UNCHANGED <<lockVars, sie, depth, lk, held, trap, todo, base, panicked>>

PushOffDepth(x) ==
    LET c == Hart(x) IN
    /\ At(x, "deepen")
    /\ ir_enable' = IF depth[c] = 0 THEN [ir_enable EXCEPT ![c] = old[x]]
                                    ELSE ir_enable
    /\ depth' = [depth EXCEPT ![c] = @ + 1]
    /\ Goto(x, IF lk[x] = NULL THEN "pop" ELSE "check")
    /\ old' = [old EXCEPT ![x] = FALSE]
    /\ UNCHANGED <<lockVars, sie, lk, held, trap, todo, base, panicked>>

(* acquire after its push_off. *)
AcquireCheckLocked(x) ==
    /\ At(x, "check")
    /\ Goto(x, IF locked[lk[x]] THEN "check_cpu" ELSE "spin")
    /\ UNCHANGED <<lockVars, irqVars, lk, old, held, trap, todo, base, panicked>>

AcquireCheckCpu(x) ==
    /\ At(x, "check_cpu")
    /\ IF cpu[lk[x]] = Hart(x)
       THEN Panic("dead lock")
       ELSE /\ Goto(x, "spin")
            /\ UNCHANGED <<lockVars, irqVars, lk, old, held, trap, todo, base,
                           panicked>>

(* A plain store instead of the atomic exchange. *)
AcquireSpin_NoExchange(x) ==
    /\ At(x, "spin")
    /\ locked' = [locked EXCEPT ![lk[x]] = TRUE]
    /\ held' = [held EXCEPT ![x] = @ \cup {lk[x]}]
    /\ Goto(x, "own")
    /\ UNCHANGED <<cpu, irqVars, lk, old, trap, todo, base, panicked>>

(* The exchange that finds the bit set changes nothing: the loop is not a  *)
(* step of its own.                                                        *)
AcquireSpin(x) ==
    /\ At(x, "spin")
    /\ ~locked[lk[x]]
    /\ locked' = [locked EXCEPT ![lk[x]] = TRUE]
    /\ held' = [held EXCEPT ![x] = @ \cup {lk[x]}]
    /\ Goto(x, "own")
    /\ UNCHANGED <<cpu, irqVars, lk, old, trap, todo, base, panicked>>

AcquireOwn(x) ==
    /\ At(x, "own")
    /\ cpu' = [cpu EXCEPT ![lk[x]] = Hart(x)]
    /\ Return(x)
    /\ UNCHANGED <<locked, irqVars, old, held, trap, todo, base, panicked>>

(* release: holding, cpu = 0, locked = 0, pop_off. *)
ReleaseCheck(x) ==
    /\ At(x, "r_check")
    /\ IF Holding(x)
       THEN /\ Goto(x, "r_clear")
            /\ UNCHANGED <<lockVars, irqVars, lk, old, held, trap, todo, base,
                           panicked>>
       ELSE Panic("release")

(* release that leaves lk->cpu behind. *)
ReleaseClear_KeepCpu(x) ==
    /\ At(x, "r_clear")
    /\ Goto(x, "r_unlock")
    /\ UNCHANGED <<lockVars, irqVars, lk, old, held, trap, todo, base, panicked>>

ReleaseClear(x) ==
    /\ At(x, "r_clear")
    /\ cpu' = [cpu EXCEPT ![lk[x]] = NULL]
    /\ Goto(x, "r_unlock")
    /\ UNCHANGED <<locked, irqVars, lk, old, held, trap, todo, base, panicked>>

ReleaseUnlock(x) ==
    /\ At(x, "r_unlock")
    /\ locked' = [locked EXCEPT ![lk[x]] = FALSE]
    /\ held' = [held EXCEPT ![x] = @ \ {lk[x]}]
    /\ Goto(x, "pop")
    /\ UNCHANGED <<cpu, irqVars, lk, old, trap, todo, base, panicked>>

(* pop_off that never turns interrupts back on. *)
PopOff_NoEnable(x) ==
    /\ At(x, "pop")
    /\ depth' = [depth EXCEPT ![Hart(x)] = @ - 1]
    /\ Return(x)
    /\ UNCHANGED <<lockVars, sie, ir_enable, old, held, trap, todo, base,
                   panicked>>

PopOff(x) ==
    LET c == Hart(x) IN
    /\ At(x, "pop")
    /\ \/ sie[c] /\ Panic("pop_off when irq_enable")
       \/ ~sie[c] /\ depth[c] < 1 /\ Panic("pop_off without a push off")
       \/ /\ ~sie[c] /\ depth[c] >= 1
          /\ depth' = [depth EXCEPT ![c] = @ - 1]
          /\ sie' = [sie EXCEPT ![c] = depth[c] = 1 /\ ir_enable[c]]
          /\ Return(x)
          /\ UNCHANGED <<lockVars, ir_enable, old, held, trap, todo, base,
                         panicked>>

-----------------------------------------------------------------------------
(* The timer interrupt: the hart clears SIE and runs timer_handle, which   *)
(* takes tickslock, calls mytask and, when there is a current task, takes  *)
(* its lock; sret sets SIE back.                                           *)
TimerInterrupt(c) ==
    /\ panicked = "no"
    /\ sie[c] /\ ~trap[c]
    /\ sie' = [sie EXCEPT ![c] = FALSE]
    /\ trap' = [trap EXCEPT ![c] = TRUE]
    /\ todo' \in {[todo EXCEPT ![c] = s] :
                    s \in {<<tickslock, NULL>>, <<tickslock, NULL, tcb_lock[c]>>}}
    /\ UNCHANGED <<lockVars, depth, ir_enable, flowVars, base, panicked>>

TimerReturn(c) ==
    /\ panicked = "no"
    /\ trap[c] /\ todo[c] = <<>> /\ pc[IrqOf(c)] = "run" /\ held[IrqOf(c)] = {}
    /\ sie' = [sie EXCEPT ![c] = TRUE]
    /\ trap' = [trap EXCEPT ![c] = FALSE]
    /\ UNCHANGED <<lockVars, depth, ir_enable, flowVars, todo, base, panicked>>

Step(x) ==
    \/ \E l \in Locks : CallAcquire(x, l) \/ CallRelease(x, l)
    \/ CallMytask(x)
    \/ PushOffGet(x) \/ PushOffDisable(x) \/ PushOffDepth(x)
    \/ AcquireCheckLocked(x) \/ AcquireCheckCpu(x) \/ AcquireSpin(x)
    \/ AcquireOwn(x)
    \/ ReleaseCheck(x) \/ ReleaseClear(x) \/ ReleaseUnlock(x)
    \/ PopOff(x)

Next ==
    \/ \E x \in Contexts : Step(x)
    \/ \E c \in CPUs : TimerInterrupt(c) \/ TimerReturn(c)

Spec == Init /\ [][Next]_vars

-----------------------------------------------------------------------------
(* The fields stay in the ranges their C types and the call protocol give  *)
(* them: pc of a known statement, held a set of locks, depth_of_ir a       *)
(* natural number.                                                         *)
TypeOK ==
    /\ locked \in [Locks -> BOOLEAN]
    /\ cpu \in [Locks -> CPUs \cup {NULL}]
    /\ sie \in [CPUs -> BOOLEAN]
    /\ depth \in [CPUs -> Nat]
    /\ ir_enable \in [CPUs -> BOOLEAN]
    /\ trap \in [CPUs -> BOOLEAN]
    /\ pc \in [Contexts -> PCs]
    /\ lk \in [Contexts -> Locks \cup {NULL}]
    /\ old \in [Contexts -> BOOLEAN]
    /\ held \in [Contexts -> SUBSET Locks]
    /\ todo \in [CPUs -> Seq(Locks \cup {NULL})]
    /\ base \in [CPUs -> BOOLEAN]
    /\ panicked \in Panics

(* acquire/release exclude: no lock is held by two control flows at once,  *)
(* neither on two harts nor by a task and the handler that interrupted it. *)
MutualExclusion ==
    \A x, y \in Contexts : x # y => held[x] \cap held[y] = {}

(* acquire masks interrupts for as long as a lock is held ("disable        *)
(* interrupts to avoid deadlock"): timer_handle never runs on a hart whose *)
(* interrupted flow holds a lock it could then wait for.                   *)
HolderMasksIrq ==
    \A c \in CPUs :
        /\ sie[c] => held[TaskOf(c)] = {} /\ held[IrqOf(c)] = {}
        /\ trap[c] => held[TaskOf(c)] = {}

(* None of the panics of acquire, release and pop_off is reachable when    *)
(* callers take only locks they do not hold: the interrupt that may split  *)
(* push_off, the two reads of holding() and the two stores of release      *)
(* never make a check fail.                                                *)
NoPanic == panicked = "no"

(* The push_offs a flow has made and not undone. *)
Pushes(x) ==
    Cardinality(held[x])
      + (IF pc[x] \in {"check", "check_cpu", "spin", "pop"} THEN 1 ELSE 0)

(* push_off/pop_off "are matched": depth_of_ir is the number of locks held *)
(* on the hart plus the calls between their push_off and their exchange,   *)
(* or their clearing store and their pop_off, so that release of the last  *)
(* lock is what restores SIE.                                              *)
DepthMatched ==
    \A c \in CPUs : depth[c] = Pushes(TaskOf(c)) + Pushes(IrqOf(c))

(* "if interrupts are initially off, then push_off, pop_off leaves them    *)
(* off", and on if they were on: between calls, holding nothing, a hart's  *)
(* SIE is what it was before any call.                                     *)
IrqRestored ==
    \A c \in CPUs :
        (~trap[c] /\ pc[TaskOf(c)] = "run" /\ held[TaskOf(c)] = {})
            => sie[c] = base[c]
=============================================================================

--------------------------- MODULE SpinLockProofs ---------------------------
(***************************************************************************)
(* Proofs about SpinLock for any set of harts and any finite set of locks. *)
(* The inductive invariant is built in layers: LockInv is inductive with   *)
(* TypeOK and gives mutual exclusion; IrqInv, inductive relative to them,  *)
(* relates a hart's SIE, depth_of_ir and ir_enable to the calls its two    *)
(* flows are in, and gives the properties of push_off/pop_off.  Two more   *)
(* layers rest on these: OwnerInv, by which lk->cpu names the holder of    *)
(* the lock, gives NoPanic; RestoreInv, which follows SIE back to its      *)
(* value before the first push_off, gives IrqRestored.                     *)
(***************************************************************************)
EXTENDS SpinLock, FiniteSetTheorems, TLAPS

(* Who may touch which lock: a held lock's bit is set, no two flows hold   *)
(* one lock, the flow between exchange and clearing store holds its lock,  *)
(* and the one before the exchange does not hold it yet.                   *)
LockInv ==
    /\ \A x \in Contexts : \A l \in held[x] : locked[l]
    /\ MutualExclusion
    /\ \A x \in Contexts :
         /\ pc[x] \in {"own", "r_check", "r_clear", "r_unlock"}
              => lk[x] \in held[x]
         /\ pc[x] \in {"check", "check_cpu", "spin"} => lk[x] \in Locks
         /\ pc[x] \in {"get", "off", "deepen", "check", "check_cpu", "spin"}
              => lk[x] \notin held[x]

LEMMA HartType == \A x \in Contexts : Hart(x) \in CPUs
BY DEF Contexts, Hart

LEMMA ContextsType == \A c \in CPUs : TaskOf(c) \in Contexts /\ IrqOf(c) \in Contexts
BY DEF Contexts, Flows, TaskOf, IrqOf

(* pop_off either panics, changing nothing else, or undoes one push_off. *)
PopOffDone(x) ==
    /\ At(x, "pop")
    /\ ~sie[Hart(x)] /\ depth[Hart(x)] >= 1
    /\ depth' = [depth EXCEPT ![Hart(x)] = @ - 1]
    /\ sie' = [sie EXCEPT ![Hart(x)] = depth[Hart(x)] = 1 /\ ir_enable[Hart(x)]]
    /\ Return(x)
    /\ UNCHANGED <<lockVars, ir_enable, old, held, trap, todo, base, panicked>>

LEMMA PopOffCases ==
  ASSUME NEW x \in Contexts, PopOff(x)
  PROVE  (\E why \in Panics : Panic(why)) \/ PopOffDone(x)
BY DEF PopOff, PopOffDone, Panics

LEMMA PanicKeeps ==
  ASSUME TypeOK, LockInv, NEW why \in Panics, Panic(why)
  PROVE  TypeOK' /\ LockInv'
BY DEF Panic, lockVars, irqVars, flowVars, TypeOK, LockInv, MutualExclusion

LEMMA GotoType ==
  ASSUME TypeOK, NEW x \in Contexts, NEW p \in PCs, Goto(x, p)
  PROVE  pc' \in [Contexts -> PCs]
BY DEF TypeOK, Goto

LEMMA TailType ==
  ASSUME NEW S, NEW s \in Seq(S), s # <<>>
  PROVE  Tail(s) \in Seq(S)
OBVIOUS

LEMMA TodoType ==
  ASSUME NEW c \in CPUs
  PROVE  /\ <<tickslock, NULL>> \in Seq(Locks \cup {NULL})
         /\ <<tickslock, NULL, tcb_lock[c]>> \in Seq(Locks \cup {NULL})
<1>1. tickslock \in Locks /\ tcb_lock[c] \in Locks
  BY SpinLockAssumption
<1> QED
  BY <1>1

LEMMA InitType == Init => TypeOK
<1> SUFFICES ASSUME Init PROVE TypeOK
  OBVIOUS
<1>1. \A c \in CPUs : todo[c] \in Seq(Locks \cup {NULL})
  BY DEF Init
<1> QED
  BY <1>1 DEF Init, TypeOK, PCs, Panics

LEMMA InitLockInv == Init => LockInv
BY DEF Init, LockInv, MutualExclusion

(* TypeOK needs LockInv: that acquire never spins on a NULL lock is what   *)
(* keeps held a set of locks.                                              *)
LEMMA NextType == TypeOK /\ LockInv /\ [Next]_vars => TypeOK'
<1> SUFFICES ASSUME TypeOK, LockInv, [Next]_vars PROVE TypeOK'
  OBVIOUS
<1> USE HartType DEF TypeOK, PCs, Panics, At, Goto, Return, Panic, lockVars,
                     irqVars, flowVars
<1>1. ASSUME NEW x \in Contexts, NEW l \in Locks \cup {NULL}, CallAcquire(x, l)
      PROVE TypeOK'
  <2>1. todo' \in [CPUs -> Seq(Locks \cup {NULL})]
    <3>1. CASE x[2] = "irq"
      <4>1. Tail(todo[Hart(x)]) \in Seq(Locks \cup {NULL})
        BY <1>1, <3>1, TailType DEF CallAcquire
      <4> QED
        BY <1>1, <3>1, <4>1 DEF CallAcquire
    <3>2. CASE x[2] # "irq"
      BY <1>1, <3>2 DEF CallAcquire
    <3> QED
      BY <3>1, <3>2
  <2> QED
    BY <1>1, <2>1 DEF CallAcquire
<1>2. ASSUME NEW x \in Contexts, NEW l \in Locks, CallRelease(x, l)
      PROVE TypeOK'
  BY <1>2 DEF CallRelease
<1>3. ASSUME NEW x \in Contexts, PushOffGet(x) PROVE TypeOK'
  BY <1>3 DEF PushOffGet
<1>4. ASSUME NEW x \in Contexts, PushOffDisable(x) PROVE TypeOK'
  BY <1>4 DEF PushOffDisable
<1>5. ASSUME NEW x \in Contexts, PushOffDepth(x) PROVE TypeOK'
  <2>1. Hart(x) \in CPUs
    OBVIOUS
  <2>2. ir_enable' \in [CPUs -> BOOLEAN]
    BY <1>5, <2>1 DEF PushOffDepth
  <2>6. depth' \in [CPUs -> Nat]
    <3> HIDE DEF PCs, Panics, At, Goto, Return, Panic, lockVars, irqVars, flowVars
    <3> QED
      BY <1>5, <2>1 DEF PushOffDepth
  <2>3. pc' \in [Contexts -> PCs]
    <3> HIDE DEF TypeOK, Goto
    <3>1. Goto(x, IF lk[x] = NULL THEN "pop" ELSE "check")
      BY <1>5 DEF PushOffDepth
    <3> QED
      BY <3>1, GotoType
  <2>5. old' \in [Contexts -> BOOLEAN]
    BY <1>5 DEF PushOffDepth
  <2>4. UNCHANGED <<locked, cpu, sie, lk, held, trap, todo, base, panicked>>
    BY <1>5 DEF PushOffDepth
  <2> QED
    BY <2>2, <2>3, <2>4, <2>5, <2>6
<1>6. ASSUME NEW x \in Contexts, AcquireCheckLocked(x) PROVE TypeOK'
  BY <1>6 DEF AcquireCheckLocked, LockInv
<1>7. ASSUME NEW x \in Contexts, AcquireCheckCpu(x) PROVE TypeOK'
  BY <1>7 DEF AcquireCheckCpu
<1>8. ASSUME NEW x \in Contexts, AcquireSpin(x) PROVE TypeOK'
  <2>1. lk[x] \in Locks
    BY <1>8 DEF AcquireSpin, LockInv
  <2> QED
    BY <1>8, <2>1 DEF AcquireSpin
<1>9. ASSUME NEW x \in Contexts, AcquireOwn(x) PROVE TypeOK'
  BY <1>9 DEF AcquireOwn
<1>10. ASSUME NEW x \in Contexts, ReleaseCheck(x) PROVE TypeOK'
  BY <1>10 DEF ReleaseCheck
<1>11. ASSUME NEW x \in Contexts, ReleaseClear(x) PROVE TypeOK'
  BY <1>11 DEF ReleaseClear
<1>12. ASSUME NEW x \in Contexts, ReleaseUnlock(x) PROVE TypeOK'
  BY <1>12 DEF ReleaseUnlock
<1>13. ASSUME NEW x \in Contexts, PopOff(x) PROVE TypeOK'
  <2>1. CASE \E why \in Panics : Panic(why)
    BY <2>1, PanicKeeps
  <2>2. CASE PopOffDone(x)
    <3>1. depth' \in [CPUs -> Nat]
      <4> HIDE DEF PCs, Panics, At, Goto, Return, Panic, lockVars, irqVars, flowVars
      <4> QED
        BY <2>2 DEF PopOffDone
    <3>5. sie' \in [CPUs -> BOOLEAN]
      BY <2>2 DEF PopOffDone
    <3>2. pc' \in [Contexts -> PCs]
      <4> HIDE DEF TypeOK, Goto
      <4> QED
        BY <2>2, GotoType DEF PopOffDone
    <3>3. lk' \in [Contexts -> Locks \cup {NULL}]
      BY <2>2 DEF PopOffDone
    <3>4. UNCHANGED <<locked, cpu, ir_enable, old, held, trap, todo, base, panicked>>
      BY <2>2 DEF PopOffDone
    <3> QED
      BY <3>1, <3>2, <3>3, <3>4, <3>5
  <2> QED
    BY <1>13, <2>1, <2>2, PopOffCases
<1>14. ASSUME NEW c \in CPUs, TimerInterrupt(c) PROVE TypeOK'
  <2>1. \A s \in {<<tickslock, NULL>>, <<tickslock, NULL, tcb_lock[c]>>} :
          s \in Seq(Locks \cup {NULL})
    BY TodoType
  <2>2. todo' \in [CPUs -> Seq(Locks \cup {NULL})]
    BY <1>14, <2>1 DEF TimerInterrupt
  <2> QED
    BY <1>14, <2>2 DEF TimerInterrupt
<1>15. ASSUME NEW c \in CPUs, TimerReturn(c) PROVE TypeOK'
  BY <1>15 DEF TimerReturn
<1>16. CASE UNCHANGED vars
  BY <1>16 DEF vars
<1> QED
  BY <1>1, <1>2, <1>3, <1>4, <1>5, <1>6, <1>7, <1>8, <1>9, <1>10, <1>11, <1>12,
     <1>13, <1>14, <1>15, <1>16 DEF Next, Step, CallMytask

LEMMA NextLockInv == TypeOK /\ LockInv /\ [Next]_vars => LockInv'
<1> SUFFICES ASSUME TypeOK, LockInv, [Next]_vars PROVE LockInv'
  OBVIOUS
<1> USE DEF TypeOK, At, Goto, Return, Panic, lockVars, flowVars, LockInv,
            MutualExclusion
<1>1. ASSUME NEW x \in Contexts, NEW l \in Locks \cup {NULL}, CallAcquire(x, l)
      PROVE LockInv'
  BY <1>1 DEF CallAcquire
<1>2. ASSUME NEW x \in Contexts, NEW l \in Locks, CallRelease(x, l)
      PROVE LockInv'
  BY <1>2 DEF CallRelease
<1>3. ASSUME NEW x \in Contexts, PushOffGet(x) PROVE LockInv'
  BY <1>3 DEF PushOffGet
<1>4. ASSUME NEW x \in Contexts, PushOffDisable(x) PROVE LockInv'
  BY <1>4 DEF PushOffDisable
<1>5. ASSUME NEW x \in Contexts, PushOffDepth(x) PROVE LockInv'
  BY <1>5 DEF PushOffDepth
<1>6. ASSUME NEW x \in Contexts, AcquireCheckLocked(x) PROVE LockInv'
  BY <1>6 DEF AcquireCheckLocked
<1>7. ASSUME NEW x \in Contexts, AcquireCheckCpu(x) PROVE LockInv'
  <2>1. CASE cpu[lk[x]] = Hart(x)
    BY <1>7, <2>1, PanicKeeps DEF AcquireCheckCpu, Panics
  <2>2. CASE cpu[lk[x]] # Hart(x)
    BY <1>7, <2>2 DEF AcquireCheckCpu
  <2> QED
    BY <2>1, <2>2
<1>8. ASSUME NEW x \in Contexts, AcquireSpin(x) PROVE LockInv'
  BY <1>8 DEF AcquireSpin
<1>9. ASSUME NEW x \in Contexts, AcquireOwn(x) PROVE LockInv'
  BY <1>9 DEF AcquireOwn
<1>10. ASSUME NEW x \in Contexts, ReleaseCheck(x) PROVE LockInv'
  BY <1>10 DEF ReleaseCheck
<1>11. ASSUME NEW x \in Contexts, ReleaseClear(x) PROVE LockInv'
  BY <1>11 DEF ReleaseClear
<1>12. ASSUME NEW x \in Contexts, ReleaseUnlock(x) PROVE LockInv'
  BY <1>12 DEF ReleaseUnlock
<1>13. ASSUME NEW x \in Contexts, PopOff(x) PROVE LockInv'
  <2>1. CASE \E why \in Panics : Panic(why)
    BY <2>1, PanicKeeps
  <2>2. CASE PopOffDone(x)
    BY <2>2 DEF PopOffDone
  <2> QED
    BY <1>13, <2>1, <2>2, PopOffCases
<1>14. ASSUME NEW c \in CPUs, TimerInterrupt(c) PROVE LockInv'
  BY <1>14 DEF TimerInterrupt
<1>15. ASSUME NEW c \in CPUs, TimerReturn(c) PROVE LockInv'
  BY <1>15 DEF TimerReturn
<1>16. CASE UNCHANGED vars
  BY <1>16 DEF vars
<1> QED
  BY <1>1, <1>2, <1>3, <1>4, <1>5, <1>6, <1>7, <1>8, <1>9, <1>10, <1>11, <1>12,
     <1>13, <1>14, <1>15, <1>16 DEF Next, Step, CallMytask

(* Every reachable state is well typed and satisfies LockInv. *)
THEOREM TypeCorrect == Spec => [](TypeOK /\ LockInv)
<1>1. Init => TypeOK /\ LockInv
  BY InitType, InitLockInv
<1>2. TypeOK /\ LockInv /\ [Next]_vars => (TypeOK /\ LockInv)'
  BY NextType, NextLockInv
<1> QED
  BY <1>1, <1>2, PTL DEF Spec

(* acquire/release of sync_spinlock.c exclude, for any number of harts,    *)
(* locks and nested acquisitions, timer interrupts included.               *)
THEOREM SpinLockExcludes == Spec => []MutualExclusion
<1>1. LockInv => MutualExclusion
  BY DEF LockInv
<1> QED
  BY <1>1, TypeCorrect, PTL

-----------------------------------------------------------------------------
(* What the interrupt state of hart c says about its two flows.  While SIE *)
(* is set or the hart is in its handler, the task flow is outside every    *)
(* push_off/pop_off pair; the handler never sees SIE set, so the pop_off   *)
(* of its outermost release does not set it.                               *)
IrqInvAt(c) ==
    /\ depth[c] = Pushes(TaskOf(c)) + Pushes(IrqOf(c))
    /\ ~trap[c] => pc[IrqOf(c)] = "run" /\ held[IrqOf(c)] = {}
    /\ sie[c] => ~trap[c]
    /\ (sie[c] \/ trap[c]) =>
          pc[TaskOf(c)] \in {"run", "get", "off"} /\ held[TaskOf(c)] = {}
    /\ ~old[IrqOf(c)]
    /\ trap[c] /\ depth[c] > 0 => ~ir_enable[c]

IrqInv == \A c \in CPUs : IrqInvAt(c)

LEMMA ContextCases ==
  ASSUME NEW x \in Contexts
  PROVE  /\ \/ x = TaskOf(Hart(x)) /\ x[2] = "task"
            \/ x = IrqOf(Hart(x)) /\ x[2] = "irq"
         /\ \A c \in CPUs : c # Hart(x) => TaskOf(c) # x /\ IrqOf(c) # x
         /\ \A c \in CPUs : TaskOf(c) # IrqOf(c)
<1>1. PICK h \in CPUs, f \in Flows : x = <<h, f>>
  BY DEF Contexts
<1>2. x[1] = h /\ x[2] = f
  BY <1>1
<1>3. f = "task" \/ f = "irq"
  BY DEF Flows
<1>4. \A c \in CPUs : TaskOf(c)[1] = c /\ IrqOf(c)[1] = c
  BY DEF TaskOf, IrqOf
<1>5. \A c \in CPUs : TaskOf(c)[2] = "task" /\ IrqOf(c)[2] = "irq"
  BY DEF TaskOf, IrqOf
<1>6. \A c \in CPUs : c # Hart(x) => TaskOf(c) # x /\ IrqOf(c) # x
  <2> TAKE c \in CPUs
  <2> HAVE c # Hart(x)
  <2>1. TaskOf(c)[1] # x[1] /\ IrqOf(c)[1] # x[1]
    BY <1>4 DEF Hart
  <2> QED
    BY <2>1
<1>8. \A c \in CPUs : TaskOf(c) # IrqOf(c)
  <2> TAKE c \in CPUs
  <2>1. TaskOf(c)[2] # IrqOf(c)[2]
    BY <1>5
  <2> QED
    BY <2>1
<1>7. \/ x = TaskOf(Hart(x)) /\ x[2] = "task"
      \/ x = IrqOf(Hart(x)) /\ x[2] = "irq"
  <2>1. CASE f = "task"
    BY <1>1, <1>2, <2>1 DEF Hart, TaskOf
  <2>2. CASE f = "irq"
    BY <1>1, <1>2, <2>2 DEF Hart, IrqOf
  <2> QED
    BY <1>3, <2>1, <2>2
<1> QED
  BY <1>6, <1>7, <1>8

LEMMA PushesType == TypeOK => \A x \in Contexts : Cardinality(held[x]) \in Nat
<1> SUFFICES ASSUME TypeOK, NEW x \in Contexts PROVE Cardinality(held[x]) \in Nat
  OBVIOUS
<1>1. held[x] \subseteq Locks
  BY DEF TypeOK
<1> QED
  BY <1>1, SpinLockAssumption, FS_Subset, FS_CardinalityType

(* What the two assignments to held do to the number of locks held. *)
LEMMA HeldCardinality ==
  ASSUME TypeOK, NEW x \in Contexts, NEW l \in Locks
  PROVE  /\ l \notin held[x] =>
              Cardinality(held[x] \cup {l}) = Cardinality(held[x]) + 1
         /\ l \in held[x] =>
              Cardinality(held[x] \ {l}) = Cardinality(held[x]) - 1
         /\ held[x] = {} => Cardinality(held[x]) = 0
         /\ Cardinality(held[x]) = 0 => held[x] = {}
<1>1. IsFiniteSet(held[x])
  BY SpinLockAssumption, FS_Subset DEF TypeOK
<1> QED
  BY <1>1, FS_AddElement, FS_RemoveElement, FS_EmptySet

(* A hart none of whose state a step changes keeps its part of IrqInv. *)
LEMMA IrqFrame ==
  ASSUME NEW c \in CPUs, IrqInvAt(c),
         depth'[c] = depth[c], sie'[c] = sie[c], ir_enable'[c] = ir_enable[c],
         trap'[c] = trap[c], old'[IrqOf(c)] = old[IrqOf(c)],
         pc'[TaskOf(c)] = pc[TaskOf(c)], pc'[IrqOf(c)] = pc[IrqOf(c)],
         held'[TaskOf(c)] = held[TaskOf(c)], held'[IrqOf(c)] = held[IrqOf(c)]
  PROVE  IrqInvAt(c)'
BY DEF IrqInvAt, Pushes

LEMMA InitIrqInv == Init => IrqInv
<1> SUFFICES ASSUME Init, NEW c \in CPUs PROVE IrqInvAt(c)
  BY DEF IrqInv
<1>1. Cardinality({}) = 0
  BY FS_EmptySet
<1> QED
  BY <1>1, ContextsType DEF Init, IrqInvAt, Pushes

(* A step of flow x that changes only the state of x's hart keeps IrqInv   *)
(* when it keeps the part about that hart.                                 *)
LEMMA IrqStep ==
  ASSUME TypeOK, IrqInv, NEW x \in Contexts, IrqInvAt(Hart(x))',
         \A c \in CPUs \ {Hart(x)} :
            /\ depth'[c] = depth[c] /\ sie'[c] = sie[c]
            /\ ir_enable'[c] = ir_enable[c],
         trap' = trap,
         \A y \in Contexts \ {x} :
            pc'[y] = pc[y] /\ held'[y] = held[y] /\ old'[y] = old[y]
  PROVE  IrqInv'
<1> SUFFICES ASSUME NEW c \in CPUs PROVE IrqInvAt(c)'
  BY DEF IrqInv
<1>1. CASE c = Hart(x)
  BY <1>1
<1>2. CASE c # Hart(x)
  <2>1. TaskOf(c) \in Contexts \ {x} /\ IrqOf(c) \in Contexts \ {x}
    BY <1>2, ContextCases, ContextsType
  <2>2. IrqInvAt(c)
    BY DEF IrqInv
  <2> QED
    BY <1>2, <2>1, <2>2, IrqFrame
<1> QED
  BY <1>1, <1>2

LEMMA NextIrqInv == TypeOK /\ LockInv /\ IrqInv /\ [Next]_vars => IrqInv'
<1> SUFFICES ASSUME TypeOK, LockInv, IrqInv, [Next]_vars PROVE IrqInv'
  OBVIOUS
<1>0. ASSUME NEW x \in Contexts
      PROVE  /\ Hart(x) \in CPUs
             /\ IrqInvAt(Hart(x))
             /\ TaskOf(Hart(x)) \in Contexts /\ IrqOf(Hart(x)) \in Contexts
             /\ TaskOf(Hart(x)) # IrqOf(Hart(x))
             /\ \/ x = TaskOf(Hart(x)) /\ x[2] = "task"
                \/ x = IrqOf(Hart(x)) /\ x[2] = "irq"
  BY HartType, ContextsType, ContextCases DEF IrqInv
<1>17. ASSUME NEW why, Panic(why) PROVE IrqInv'
  BY <1>17 DEF Panic, irqVars, flowVars, IrqInv, IrqInvAt, Pushes
<1>1. ASSUME NEW x \in Contexts, NEW l \in Locks \cup {NULL}, CallAcquire(x, l)
      PROVE IrqInv'
  <2>1. IrqInvAt(Hart(x))'
    BY <1>0, <1>1 DEF CallAcquire, TypeOK, At, Executes, Goto, Return, irqVars, IrqInvAt, Pushes
  <2> QED
    BY <1>0, <1>1, <2>1, IrqStep DEF CallAcquire, Goto, irqVars, TypeOK
<1>2. ASSUME NEW x \in Contexts, NEW l \in Locks, CallRelease(x, l)
      PROVE IrqInv'
  <2>1. IrqInvAt(Hart(x))'
    BY <1>0, <1>2 DEF CallRelease, TypeOK, At, Executes, Goto, Return, irqVars, IrqInvAt, Pushes
  <2> QED
    BY <1>0, <1>2, <2>1, IrqStep DEF CallRelease, Goto, irqVars, TypeOK
<1>3. ASSUME NEW x \in Contexts, PushOffGet(x) PROVE IrqInv'
  <2>1. IrqInvAt(Hart(x))'
    BY <1>0, <1>3 DEF PushOffGet, TypeOK, At, Executes, Goto, Return, irqVars, IrqInvAt, Pushes
  <2> QED
    BY <1>0, <1>3, <2>1, IrqStep DEF PushOffGet, Goto, Return, irqVars, TypeOK
<1>4. ASSUME NEW x \in Contexts, PushOffDisable(x) PROVE IrqInv'
  <2>1. IrqInvAt(Hart(x))'
    BY <1>0, <1>4 DEF PushOffDisable, TypeOK, At, Executes, Goto, Return, irqVars, IrqInvAt, Pushes
  <2> QED
    BY <1>0, <1>4, <2>1, IrqStep DEF PushOffDisable, Goto, Return, irqVars, TypeOK
<1>5. ASSUME NEW x \in Contexts, PushOffDepth(x) PROVE IrqInv'
  <2>1. IrqInvAt(Hart(x))'
    BY <1>0, <1>5, PushesType DEF PushOffDepth, TypeOK, At, Executes, Goto, Return, irqVars, IrqInvAt, Pushes
  <2> QED
    BY <1>0, <1>5, <2>1, IrqStep DEF PushOffDepth, Goto, Return, irqVars, TypeOK
<1>6. ASSUME NEW x \in Contexts, AcquireCheckLocked(x) PROVE IrqInv'
  <2>1. IrqInvAt(Hart(x))'
    BY <1>0, <1>6 DEF AcquireCheckLocked, TypeOK, At, Executes, Goto, Return, irqVars, IrqInvAt, Pushes
  <2> QED
    BY <1>0, <1>6, <2>1, IrqStep DEF AcquireCheckLocked, Goto, Return, irqVars, TypeOK
<1>7. ASSUME NEW x \in Contexts, AcquireCheckCpu(x) PROVE IrqInv'
  <2>1. CASE cpu[lk[x]] # Hart(x)
    <3>1. IrqInvAt(Hart(x))'
      BY <1>0, <1>7, <2>1 DEF AcquireCheckCpu, TypeOK, At, Executes, Goto, Return, irqVars, IrqInvAt, Pushes
    <3> QED
      BY <1>0, <1>7, <2>1, <3>1, IrqStep DEF AcquireCheckCpu, Goto, irqVars, TypeOK
  <2>2. CASE ~(cpu[lk[x]] # Hart(x))
    BY <1>7, <2>2, <1>17 DEF AcquireCheckCpu
  <2> QED
    BY <2>1, <2>2
<1>8. ASSUME NEW x \in Contexts, AcquireSpin(x) PROVE IrqInv'
  <2>1. lk[x] \in Locks /\ lk[x] \notin held[x]
    BY <1>8 DEF AcquireSpin, At, LockInv, TypeOK
  <2>2. held' = [held EXCEPT ![x] = held[x] \cup {lk[x]}]
    BY <1>8 DEF AcquireSpin
  <2>3. Cardinality(held'[x]) = Cardinality(held[x]) + 1
    BY <2>1, <2>2, HeldCardinality DEF TypeOK
  <2>4. pc[x] = "spin" /\ pc' = [pc EXCEPT ![x] = "own"]
    BY <1>8 DEF AcquireSpin, At, Goto
  <2>5. /\ UNCHANGED <<depth, sie, ir_enable, old, trap>>
        /\ trap[Hart(x)] <=> x[2] = "irq"
    BY <1>8 DEF AcquireSpin, At, Executes, irqVars
  <2>6. IrqInvAt(Hart(x))'
    <3>1. PICK y \in Contexts : {x, y} = {TaskOf(Hart(x)), IrqOf(Hart(x))} /\ x # y
      BY <1>0
    <3>2. /\ Cardinality(held[x]) \in Nat /\ Cardinality(held[y]) \in Nat
          /\ pc'[x] = "own" /\ pc'[y] = pc[y] /\ held'[y] = held[y]
      BY <2>2, <2>4, <3>1, PushesType DEF TypeOK
    <3>3. Pushes(x)' = Pushes(x) /\ Pushes(y)' = Pushes(y)
      BY <2>3, <2>4, <3>2 DEF Pushes
    <3>4. CASE x = TaskOf(Hart(x)) /\ y = IrqOf(Hart(x)) /\ x[2] = "task"
      BY <1>0, <2>4, <2>5, <3>2, <3>3, <3>4 DEF IrqInvAt
    <3>5. CASE y = TaskOf(Hart(x)) /\ x = IrqOf(Hart(x)) /\ x[2] = "irq"
      BY <1>0, <2>4, <2>5, <3>2, <3>3, <3>5 DEF IrqInvAt
    <3> QED
      BY <1>0, <3>1, <3>4, <3>5
  <2> QED
    BY <1>0, <2>2, <2>4, <2>5, <2>6, IrqStep DEF TypeOK
<1>9. ASSUME NEW x \in Contexts, AcquireOwn(x) PROVE IrqInv'
  <2>1. IrqInvAt(Hart(x))'
    BY <1>0, <1>9 DEF AcquireOwn, TypeOK, At, Executes, Goto, Return, irqVars, IrqInvAt, Pushes
  <2> QED
    BY <1>0, <1>9, <2>1, IrqStep DEF AcquireOwn, Goto, Return, irqVars, TypeOK
<1>10. ASSUME NEW x \in Contexts, ReleaseCheck(x) PROVE IrqInv'
  <2>1. CASE Holding(x)
    <3>0. Goto(x, "r_clear") /\ UNCHANGED <<irqVars, old, held, trap>>
      BY <1>10, <2>1 DEF ReleaseCheck
    <3>1. IrqInvAt(Hart(x))'
      BY <1>0, <1>10, <3>0 DEF ReleaseCheck, TypeOK, At, Executes, Goto, Return, irqVars, IrqInvAt, Pushes
    <3> QED
      BY <1>0, <1>10, <2>1, <3>1, IrqStep DEF ReleaseCheck, Goto, irqVars, TypeOK
  <2>2. CASE ~(Holding(x))
    BY <1>10, <2>2, <1>17 DEF ReleaseCheck
  <2> QED
    BY <2>1, <2>2
<1>11. ASSUME NEW x \in Contexts, ReleaseClear(x) PROVE IrqInv'
  <2>1. IrqInvAt(Hart(x))'
    BY <1>0, <1>11 DEF ReleaseClear, TypeOK, At, Executes, Goto, Return, irqVars, IrqInvAt, Pushes
  <2> QED
    BY <1>0, <1>11, <2>1, IrqStep DEF ReleaseClear, Goto, Return, irqVars, TypeOK
<1>12. ASSUME NEW x \in Contexts, ReleaseUnlock(x) PROVE IrqInv'
  <2>1. lk[x] \in Locks /\ lk[x] \in held[x]
    BY <1>12 DEF ReleaseUnlock, At, LockInv, TypeOK
  <2>2. held' = [held EXCEPT ![x] = held[x] \ {lk[x]}]
    BY <1>12 DEF ReleaseUnlock
  <2>3. Cardinality(held'[x]) = Cardinality(held[x]) - 1
    BY <2>1, <2>2, HeldCardinality DEF TypeOK
  <2>4. pc[x] = "r_unlock" /\ pc' = [pc EXCEPT ![x] = "pop"]
    BY <1>12 DEF ReleaseUnlock, At, Goto
  <2>5. /\ UNCHANGED <<depth, sie, ir_enable, old, trap>>
        /\ trap[Hart(x)] <=> x[2] = "irq"
    BY <1>12 DEF ReleaseUnlock, At, Executes, irqVars
  <2>6. IrqInvAt(Hart(x))'
    <3>1. PICK y \in Contexts : {x, y} = {TaskOf(Hart(x)), IrqOf(Hart(x))} /\ x # y
      BY <1>0
    <3>2. /\ Cardinality(held[x]) \in Nat /\ Cardinality(held[y]) \in Nat
          /\ pc'[x] = "pop" /\ pc'[y] = pc[y] /\ held'[y] = held[y]
      BY <2>2, <2>4, <3>1, PushesType DEF TypeOK
    <3>3. Pushes(x)' = Pushes(x) /\ Pushes(y)' = Pushes(y)
      BY <2>3, <2>4, <3>2 DEF Pushes
    <3>4. CASE x = TaskOf(Hart(x)) /\ y = IrqOf(Hart(x)) /\ x[2] = "task"
      BY <1>0, <2>4, <2>5, <3>2, <3>3, <3>4 DEF IrqInvAt
    <3>5. CASE y = TaskOf(Hart(x)) /\ x = IrqOf(Hart(x)) /\ x[2] = "irq"
      BY <1>0, <2>4, <2>5, <3>2, <3>3, <3>5 DEF IrqInvAt
    <3> QED
      BY <1>0, <3>1, <3>4, <3>5
  <2> QED
    BY <1>0, <2>2, <2>4, <2>5, <2>6, IrqStep DEF TypeOK
<1>13. ASSUME NEW x \in Contexts, PopOff(x) PROVE IrqInv'
  <2>1. CASE \E why \in Panics : Panic(why)
    BY <2>1, <1>17
  <2>2. CASE PopOffDone(x)
    <3>2. PICK y \in Contexts : {x, y} = {TaskOf(Hart(x)), IrqOf(Hart(x))} /\ x # y
      BY <1>0
    <3>3. /\ Cardinality(held[x]) \in Nat /\ Cardinality(held[y]) \in Nat
          /\ Cardinality(held[x]) = 0 => held[x] = {}
          /\ Cardinality(held[y]) = 0 => held[y] = {}
      BY PushesType, HeldCardinality, SpinLockAssumption
    <3>4. /\ pc[x] = "pop" /\ pc'[x] = "run" /\ pc'[y] = pc[y]
          /\ UNCHANGED <<held, trap, old, ir_enable>>
          /\ trap[Hart(x)] <=> x[2] = "irq"
          /\ ~sie[Hart(x)]
      BY <2>2, <3>2 DEF PopOffDone, At, Executes, Return, Goto, TypeOK
    <3>5. /\ depth[Hart(x)] >= 1 /\ depth[Hart(x)] \in Nat
          /\ depth'[Hart(x)] = depth[Hart(x)] - 1
          /\ sie'[Hart(x)] => depth[Hart(x)] = 1 /\ ir_enable[Hart(x)]
      BY <1>0, <2>2 DEF PopOffDone, TypeOK
    <3>6. Pushes(x)' = Pushes(x) - 1 /\ Pushes(y)' = Pushes(y)
      BY <3>3, <3>4 DEF Pushes
    <3>7. /\ Pushes(x) = Cardinality(held[x]) + 1
          /\ Pushes(y) \in Nat
          /\ Pushes(y) = 0 => held[y] = {}
      BY <3>3, <3>4 DEF Pushes
    <3>1. IrqInvAt(Hart(x))'
      <4>1. CASE x = TaskOf(Hart(x)) /\ y = IrqOf(Hart(x)) /\ x[2] = "task"
        <5>1. depth[Hart(x)] = Pushes(x) + Pushes(y)
          BY <1>0, <4>1 DEF IrqInvAt
        <5>2. (depth[Hart(x)] = Pushes(x) + Pushes(y))'
          BY <3>3, <3>5, <3>6, <3>7, <5>1
        <5>3. ~trap[Hart(x)] /\ pc[y] = "run" /\ held[y] = {} /\ ~old[y]
          BY <1>0, <3>4, <4>1 DEF IrqInvAt
        <5>4. sie'[Hart(x)] => held[x] = {}
          BY <3>3, <3>5, <3>7, <5>1
        <5> QED
          BY <3>4, <4>1, <5>2, <5>3, <5>4 DEF IrqInvAt
      <4>2. CASE y = TaskOf(Hart(x)) /\ x = IrqOf(Hart(x)) /\ x[2] = "irq"
        <5>1. depth[Hart(x)] = Pushes(y) + Pushes(x)
          BY <1>0, <4>2 DEF IrqInvAt
        <5>2. (depth[Hart(x)] = Pushes(y) + Pushes(x))'
          BY <3>3, <3>5, <3>6, <3>7, <5>1
        <5>3. /\ trap[Hart(x)] /\ ~old[x] /\ held[y] = {} /\ ~ir_enable[Hart(x)]
              /\ pc[y] \in {"run", "get", "off"}
          BY <1>0, <3>4, <3>5, <4>2 DEF IrqInvAt
        <5> QED
          BY <3>4, <3>5, <4>2, <5>2, <5>3 DEF IrqInvAt
      <4> QED
        BY <1>0, <3>2, <4>1, <4>2
    <3> QED
      BY <1>0, <2>2, <3>1, IrqStep DEF PopOffDone, Return, Goto, TypeOK
  <2> QED
    BY <1>13, <2>1, <2>2, PopOffCases
<1>14. ASSUME NEW c \in CPUs, TimerInterrupt(c) PROVE IrqInv'
  <2> SUFFICES ASSUME NEW d \in CPUs PROVE IrqInvAt(d)'
    BY DEF IrqInv
  <2>1. IrqInvAt(d) /\ TaskOf(d) \in Contexts /\ IrqOf(d) \in Contexts
    BY ContextsType DEF IrqInv
  <2>2. Cardinality({}) = 0
    BY FS_EmptySet
  <2>3. UNCHANGED <<depth, ir_enable, pc, old, held>>
    BY <1>14 DEF TimerInterrupt, flowVars
  <2>4. CASE d # c
    <3>1. sie'[d] = sie[d] /\ trap'[d] = trap[d]
      BY <1>14, <2>4 DEF TimerInterrupt, TypeOK
    <3> QED
      BY <2>1, <2>3, <3>1, IrqFrame
  <2>5. CASE d = c
    <3>1. sie[d] /\ ~sie'[d] /\ trap'[d]
      BY <1>14, <2>5 DEF TimerInterrupt, TypeOK
    <3>2. depth[d] = 0
      BY <2>1, <2>2, <3>1 DEF IrqInvAt, Pushes
    <3> QED
      BY <2>1, <2>3, <3>1, <3>2 DEF IrqInvAt, Pushes
  <2> QED
    BY <2>4, <2>5
<1>15. ASSUME NEW c \in CPUs, TimerReturn(c) PROVE IrqInv'
  <2> SUFFICES ASSUME NEW d \in CPUs PROVE IrqInvAt(d)'
    BY DEF IrqInv
  <2>1. IrqInvAt(d) /\ TaskOf(d) \in Contexts /\ IrqOf(d) \in Contexts
    BY ContextsType DEF IrqInv
  <2> QED
    BY <1>15, <2>1 DEF TimerReturn, TypeOK, flowVars, IrqInvAt, Pushes
<1>16. CASE UNCHANGED vars
  BY <1>16 DEF vars, IrqInv, IrqInvAt, Pushes
<1> QED
  BY <1>1, <1>2, <1>3, <1>4, <1>5, <1>6, <1>7, <1>8, <1>9, <1>10, <1>11, <1>12,
     <1>13, <1>14, <1>15, <1>16 DEF Next, Step, CallMytask

(* The invariants of the second layer hold in every reachable state. *)
THEOREM IrqInvCorrect == Spec => [](TypeOK /\ LockInv /\ IrqInv)
<1>1. Init => IrqInv
  BY InitIrqInv
<1>2. TypeOK /\ LockInv /\ IrqInv /\ [Next]_vars => IrqInv'
  BY NextIrqInv
<1> QED
  BY <1>1, <1>2, TypeCorrect, PTL DEF Spec

(* push_off/pop_off are matched on every hart: depth_of_ir counts exactly  *)
(* the locks held there and the calls in between.                          *)
THEOREM PushPopMatched == Spec => []DepthMatched
<1>1. IrqInv => DepthMatched
  BY DEF IrqInv, IrqInvAt, DepthMatched
<1> QED
  BY <1>1, IrqInvCorrect, PTL

(* A hart that holds a lock has its interrupts masked, so its handler      *)
(* never waits for a lock of the flow it interrupted.                      *)
THEOREM HoldersMaskInterrupts == Spec => []HolderMasksIrq
<1>1. IrqInv => HolderMasksIrq
  BY DEF IrqInv, IrqInvAt, HolderMasksIrq
<1> QED
  BY <1>1, IrqInvCorrect, PTL

-----------------------------------------------------------------------------
(* Who owns a lock, as holding() reads it: lk->cpu names a hart only while *)
(* a flow of that hart holds the lock, every holder is named but between   *)
(* its exchange and its store of cpu, and between the two stores of its    *)
(* release, and in the latter case nobody is.                              *)
OwnerInv ==
    /\ \A l \in Locks : cpu[l] # NULL =>
          \E x \in Contexts : Hart(x) = cpu[l] /\ l \in held[x]
    /\ \A x \in Contexts : \A l \in held[x] :
          \/ cpu[l] = Hart(x)
          \/ lk[x] = l /\ pc[x] \in {"own", "r_unlock"}
    /\ \A x \in Contexts : pc[x] = "r_unlock" => cpu[lk[x]] = NULL

(* A hart's interrupts, seen from its task flow: SIE is what it was at the *)
(* start whenever the flow is outside every push_off/pop_off pair; inside  *)
(* one, ir_enable remembers it, and until it does, push_off's `old`.       *)
RestoreInvAt(c) ==
    /\ sie[c] \/ trap[c] => base[c]
    /\ ~trap[c] /\ held[TaskOf(c)] = {} /\ pc[TaskOf(c)] \in {"run", "get", "off"}
          => (sie[c] <=> base[c])
    /\ held[TaskOf(c)] = {} /\ pc[TaskOf(c)] \in {"off", "deepen"}
          => (old[TaskOf(c)] <=> base[c])
    /\ ~trap[c] /\ depth[c] > 0 => (ir_enable[c] <=> base[c])

RestoreInv == \A c \in CPUs : RestoreInvAt(c)

(* The flow that executes is the only one of its hart that may hold locks  *)
(* or be past irq_disable.                                                 *)
LEMMA OnlyExecutingHolds ==
  ASSUME IrqInv, NEW x \in Contexts, NEW y \in Contexts,
         Executes(x), Hart(y) = Hart(x), y # x
  PROVE  held[y] = {}
<1>1. IrqInvAt(Hart(x))
  BY HartType DEF IrqInv
<1>2. \/ x = TaskOf(Hart(x)) /\ x[2] = "task"
      \/ x = IrqOf(Hart(x)) /\ x[2] = "irq"
  BY ContextCases
<1>3. y = TaskOf(Hart(x)) \/ y = IrqOf(Hart(x))
  BY ContextCases
<1> QED
  BY <1>1, <1>2, <1>3 DEF Executes, IrqInvAt

LEMMA AcquireFindsOther ==
  ASSUME TypeOK, LockInv, IrqInv, OwnerInv, NEW x \in Contexts, At(x, "check_cpu")
  PROVE  cpu[lk[x]] # Hart(x)
<1> SUFFICES ASSUME cpu[lk[x]] = Hart(x) PROVE FALSE
  OBVIOUS
<1>1. lk[x] \in Locks /\ lk[x] \notin held[x] /\ Hart(x) \in CPUs
  BY HartType DEF LockInv, At
<1>2. Hart(x) # NULL
  BY <1>1, SpinLockAssumption
<1>3. PICK y \in Contexts : Hart(y) = Hart(x) /\ lk[x] \in held[y]
  BY <1>1, <1>2 DEF OwnerInv
<1> QED
  BY <1>1, <1>3, OnlyExecutingHolds DEF At

LEMMA ReleaseFindsOwn ==
  ASSUME TypeOK, LockInv, OwnerInv, NEW x \in Contexts, At(x, "r_check")
  PROVE  Holding(x)
BY DEF LockInv, OwnerInv, At, Holding

LEMMA PopOffUndoesOne ==
  ASSUME TypeOK, IrqInv, NEW x \in Contexts, PopOff(x)
  PROVE  PopOffDone(x)
<1>1. IrqInvAt(Hart(x)) /\ Hart(x) \in CPUs
  BY HartType DEF IrqInv
<1>2. /\ TaskOf(Hart(x)) \in Contexts /\ IrqOf(Hart(x)) \in Contexts
      /\ \/ x = TaskOf(Hart(x)) /\ x[2] = "task"
         \/ x = IrqOf(Hart(x)) /\ x[2] = "irq"
  BY <1>1, ContextCases, ContextsType
<1>3. pc[x] = "pop" /\ (trap[Hart(x)] <=> x[2] = "irq")
  BY DEF PopOff, At, Executes
<1>4. ~sie[Hart(x)]
  BY <1>1, <1>2, <1>3 DEF IrqInvAt
<1>5. depth[Hart(x)] >= 1
  <2>1. \A y \in Contexts : Pushes(y) \in Nat
    BY PushesType DEF Pushes
  <2>2. Cardinality(held[x]) \in Nat
    BY PushesType
  <2>3. Pushes(x) >= 1
    BY <1>3, <2>2 DEF Pushes
  <2> QED
    BY <1>1, <1>2, <2>1, <2>3 DEF IrqInvAt
<1>6. ~(depth[Hart(x)] < 1)
  BY <1>1, <1>5 DEF TypeOK
<1> QED
  BY <1>4, <1>6, Zenon DEF PopOff, PopOffDone

(* No step panics. *)
LEMMA NextNoPanic ==
  TypeOK /\ LockInv /\ IrqInv /\ OwnerInv /\ NoPanic /\ [Next]_vars => NoPanic'
<1> SUFFICES ASSUME TypeOK, LockInv, IrqInv, OwnerInv, NoPanic, [Next]_vars
             PROVE  NoPanic'
  OBVIOUS
<1> USE DEF NoPanic
<1>1. ASSUME NEW x \in Contexts, AcquireCheckCpu(x) PROVE NoPanic'
  <2>1. At(x, "check_cpu")
    BY <1>1, Zenon DEF AcquireCheckCpu
  <2>2. UNCHANGED panicked
    BY <1>1, <2>1, AcquireFindsOther, Zenon DEF AcquireCheckCpu
  <2> QED
    BY <2>2
<1>2. ASSUME NEW x \in Contexts, ReleaseCheck(x) PROVE NoPanic'
  <2>1. At(x, "r_check")
    BY <1>2 DEF ReleaseCheck
  <2> QED
    BY <1>2, <2>1, ReleaseFindsOwn DEF ReleaseCheck
<1>3. ASSUME NEW x \in Contexts, PopOff(x) PROVE NoPanic'
  BY <1>3, PopOffUndoesOne DEF PopOffDone
<1>4. ASSUME NEW x \in Contexts, Step(x) PROVE NoPanic'
  BY <1>1, <1>2, <1>3, <1>4 DEF Step, CallMytask, CallAcquire, CallRelease,
     PushOffGet, PushOffDisable, PushOffDepth, AcquireCheckLocked, AcquireSpin,
     AcquireOwn, ReleaseClear, ReleaseUnlock
<1> QED
  BY <1>4 DEF Next, TimerInterrupt, TimerReturn, vars

LEMMA InitOwnerInv == Init => OwnerInv
BY DEF Init, OwnerInv

(* A step that keeps the owners and the held sets keeps OwnerInv when the  *)
(* flow that moves was not, and is not then, in one of the two windows.    *)
LEMMA OwnerFrame ==
  ASSUME OwnerInv, NEW x \in Contexts, UNCHANGED <<cpu, held>>,
         pc[x] \notin {"own", "r_unlock"}, pc'[x] \notin {"own", "r_unlock"},
         \A y \in Contexts \ {x} : pc'[y] = pc[y] /\ lk'[y] = lk[y]
  PROVE  OwnerInv'
BY DEF OwnerInv

LEMMA NextOwnerInv ==
  TypeOK /\ LockInv /\ IrqInv /\ OwnerInv /\ [Next]_vars => OwnerInv'
<1> SUFFICES ASSUME TypeOK, LockInv, IrqInv, OwnerInv, [Next]_vars
             PROVE  OwnerInv'
  OBVIOUS
<1> USE DEF TypeOK, At, Goto, Return, lockVars
<1>1. ASSUME NEW x \in Contexts, NEW l \in Locks \cup {NULL}, CallAcquire(x, l)
      PROVE OwnerInv'
  BY <1>1, OwnerFrame DEF CallAcquire
<1>2. ASSUME NEW x \in Contexts, NEW l \in Locks, CallRelease(x, l)
      PROVE OwnerInv'
  BY <1>2, OwnerFrame DEF CallRelease
<1>3. ASSUME NEW x \in Contexts, PushOffGet(x) PROVE OwnerInv'
  BY <1>3, OwnerFrame DEF PushOffGet
<1>4. ASSUME NEW x \in Contexts, PushOffDisable(x) PROVE OwnerInv'
  BY <1>4, OwnerFrame DEF PushOffDisable
<1>5. ASSUME NEW x \in Contexts, PushOffDepth(x) PROVE OwnerInv'
  BY <1>5, OwnerFrame DEF PushOffDepth
<1>6. ASSUME NEW x \in Contexts, AcquireCheckLocked(x) PROVE OwnerInv'
  BY <1>6, OwnerFrame DEF AcquireCheckLocked
<1>7. ASSUME NEW x \in Contexts, AcquireCheckCpu(x) PROVE OwnerInv'
  <2>1. At(x, "check_cpu")
    BY <1>7, Zenon DEF AcquireCheckCpu
  <2>2. Goto(x, "spin") /\ UNCHANGED <<cpu, held, lk>>
    BY <1>7, <2>1, AcquireFindsOther, Zenon DEF AcquireCheckCpu
  <2> QED
    BY <2>1, <2>2, OwnerFrame
<1>8. ASSUME NEW x \in Contexts, AcquireSpin(x) PROVE OwnerInv'
  <2>1. /\ pc[x] = "spin" /\ pc' = [pc EXCEPT ![x] = "own"]
        /\ held' = [held EXCEPT ![x] = @ \cup {lk[x]}]
        /\ UNCHANGED <<cpu, lk>>
    BY <1>8 DEF AcquireSpin
  <2> QED
    BY <2>1 DEF OwnerInv
<1>9. ASSUME NEW x \in Contexts, AcquireOwn(x) PROVE OwnerInv'
  <2>1. /\ pc[x] = "own" /\ pc' = [pc EXCEPT ![x] = "run"]
        /\ lk' = [lk EXCEPT ![x] = NULL]
        /\ cpu' = [cpu EXCEPT ![lk[x]] = Hart(x)]
        /\ UNCHANGED held
    BY <1>9 DEF AcquireOwn
  <2>2. lk[x] \in held[x] /\ lk[x] \in Locks
    BY <2>1 DEF LockInv
  <2>3. \A y \in Contexts \ {x} : lk[x] \notin held[y]
    BY <2>2 DEF LockInv, MutualExclusion
  <2>4. \A y \in Contexts \ {x} : pc[y] = "r_unlock" => lk[y] \in held[y]
    BY DEF LockInv
  <2> QED
    BY <2>1, <2>2, <2>3, <2>4 DEF OwnerInv
<1>10. ASSUME NEW x \in Contexts, ReleaseCheck(x) PROVE OwnerInv'
  <2>1. Holding(x) /\ At(x, "r_check")
    BY <1>10, ReleaseFindsOwn DEF ReleaseCheck
  <2>2. Goto(x, "r_clear") /\ UNCHANGED <<cpu, held, lk>>
    BY <1>10, <2>1 DEF ReleaseCheck
  <2> QED
    BY <2>1, <2>2, OwnerFrame
<1>11. ASSUME NEW x \in Contexts, ReleaseClear(x) PROVE OwnerInv'
  <2>1. /\ pc[x] = "r_clear" /\ pc' = [pc EXCEPT ![x] = "r_unlock"]
        /\ cpu' = [cpu EXCEPT ![lk[x]] = NULL]
        /\ UNCHANGED <<held, lk>>
    BY <1>11 DEF ReleaseClear
  <2>2. lk[x] \in held[x] /\ lk[x] \in Locks
    BY <2>1 DEF LockInv
  <2>3. \A y \in Contexts \ {x} : lk[x] \notin held[y]
    BY <2>2 DEF LockInv, MutualExclusion
  <2> QED
    BY <2>1, <2>2, <2>3 DEF OwnerInv
<1>12. ASSUME NEW x \in Contexts, ReleaseUnlock(x) PROVE OwnerInv'
  <2>1. /\ pc[x] = "r_unlock" /\ pc' = [pc EXCEPT ![x] = "pop"]
        /\ held' = [held EXCEPT ![x] = @ \ {lk[x]}]
        /\ UNCHANGED <<cpu, lk>>
    BY <1>12 DEF ReleaseUnlock
  <2>2. cpu[lk[x]] = NULL
    BY <2>1 DEF OwnerInv
  <2> QED
    BY <2>1, <2>2 DEF OwnerInv
<1>13. ASSUME NEW x \in Contexts, PopOff(x) PROVE OwnerInv'
  <2>1. PopOffDone(x)
    BY <1>13, PopOffUndoesOne
  <2> QED
    BY <2>1, OwnerFrame DEF PopOffDone
<1>14. ASSUME NEW c \in CPUs, TimerInterrupt(c) \/ TimerReturn(c) PROVE OwnerInv'
  BY <1>14 DEF TimerInterrupt, TimerReturn, flowVars, OwnerInv
<1>15. CASE UNCHANGED vars
  BY <1>15 DEF vars, OwnerInv
<1> QED
  BY <1>1, <1>2, <1>3, <1>4, <1>5, <1>6, <1>7, <1>8, <1>9, <1>10, <1>11, <1>12,
     <1>13, <1>14, <1>15 DEF Next, Step, CallMytask

(* None of the panics of acquire, release and pop_off is reachable: the    *)
(* owner check of acquire, the two reads of holding() and the two tests of *)
(* pop_off never fire for callers that release what they acquired.         *)
THEOREM NeverPanics == Spec => []NoPanic
<1>1. Init => OwnerInv /\ NoPanic
  BY InitOwnerInv DEF Init, NoPanic
<1>2. TypeOK /\ LockInv /\ IrqInv /\ OwnerInv /\ NoPanic /\ [Next]_vars
        => OwnerInv' /\ NoPanic'
  BY NextOwnerInv, NextNoPanic
<1> QED
  BY <1>1, <1>2, IrqInvCorrect, PTL DEF Spec

-----------------------------------------------------------------------------
LEMMA InitRestoreInv == Init => RestoreInv
<1> SUFFICES ASSUME Init, NEW c \in CPUs PROVE RestoreInvAt(c)
  BY DEF RestoreInv
<1> QED
  BY ContextsType DEF Init, RestoreInvAt

(* A hart whose task flow and interrupt state a step leaves alone keeps    *)
(* its part of RestoreInv.                                                 *)
LEMMA RestoreFrame ==
  ASSUME NEW c \in CPUs, RestoreInvAt(c),
         depth'[c] = depth[c], sie'[c] = sie[c], ir_enable'[c] = ir_enable[c],
         trap'[c] = trap[c], base'[c] = base[c],
         old'[TaskOf(c)] = old[TaskOf(c)], pc'[TaskOf(c)] = pc[TaskOf(c)],
         held'[TaskOf(c)] = held[TaskOf(c)]
  PROVE  RestoreInvAt(c)'
BY DEF RestoreInvAt

LEMMA RestoreStep ==
  ASSUME TypeOK, RestoreInv, NEW x \in Contexts, RestoreInvAt(Hart(x))',
         \A c \in CPUs \ {Hart(x)} :
            /\ depth'[c] = depth[c] /\ sie'[c] = sie[c]
            /\ ir_enable'[c] = ir_enable[c],
         trap' = trap, base' = base,
         \A y \in Contexts \ {x} :
            pc'[y] = pc[y] /\ held'[y] = held[y] /\ old'[y] = old[y]
  PROVE  RestoreInv'
<1> SUFFICES ASSUME NEW c \in CPUs, c # Hart(x) PROVE RestoreInvAt(c)'
  BY DEF RestoreInv
<1>1. TaskOf(c) \in Contexts \ {x} /\ IrqOf(c) \in Contexts \ {x}
  BY ContextCases, ContextsType
<1>2. RestoreInvAt(c)
  BY DEF RestoreInv
<1> QED
  BY <1>1, <1>2, RestoreFrame

LEMMA NextRestoreInv ==
  TypeOK /\ LockInv /\ IrqInv /\ RestoreInv /\ [Next]_vars => RestoreInv'
<1> SUFFICES ASSUME TypeOK, LockInv, IrqInv, RestoreInv, [Next]_vars
             PROVE  RestoreInv'
  OBVIOUS
<1>0. ASSUME NEW x \in Contexts
      PROVE  /\ Hart(x) \in CPUs
             /\ IrqInvAt(Hart(x)) /\ RestoreInvAt(Hart(x))
             /\ TaskOf(Hart(x)) \in Contexts /\ IrqOf(Hart(x)) \in Contexts
             /\ TaskOf(Hart(x)) # IrqOf(Hart(x))
             /\ \/ x = TaskOf(Hart(x)) /\ x[2] = "task"
                \/ x = IrqOf(Hart(x)) /\ x[2] = "irq"
  BY HartType, ContextsType, ContextCases DEF IrqInv, RestoreInv
<1>17. ASSUME NEW why, Panic(why) PROVE RestoreInv'
  BY <1>17 DEF Panic, irqVars, flowVars, RestoreInv, RestoreInvAt
<1>1. ASSUME NEW x \in Contexts, NEW l \in Locks \cup {NULL}, CallAcquire(x, l)
      PROVE RestoreInv'
  <2>1. RestoreInvAt(Hart(x))'
    BY <1>0, <1>1 DEF CallAcquire, TypeOK, At, Executes, Goto, Return, irqVars, RestoreInvAt
  <2> QED
    BY <1>0, <1>1, <2>1, RestoreStep DEF CallAcquire, Goto, Return, irqVars, TypeOK
<1>2. ASSUME NEW x \in Contexts, NEW l \in Locks, CallRelease(x, l)
      PROVE RestoreInv'
  <2>1. RestoreInvAt(Hart(x))'
    BY <1>0, <1>2 DEF CallRelease, TypeOK, At, Executes, Goto, Return, irqVars, RestoreInvAt
  <2> QED
    BY <1>0, <1>2, <2>1, RestoreStep DEF CallRelease, Goto, Return, irqVars, TypeOK
<1>3. ASSUME NEW x \in Contexts, PushOffGet(x) PROVE RestoreInv'
  <2>1. RestoreInvAt(Hart(x))'
    BY <1>0, <1>3 DEF PushOffGet, TypeOK, At, Executes, Goto, Return, irqVars, RestoreInvAt
  <2> QED
    BY <1>0, <1>3, <2>1, RestoreStep DEF PushOffGet, Goto, Return, irqVars, TypeOK
<1>4. ASSUME NEW x \in Contexts, PushOffDisable(x) PROVE RestoreInv'
  <2>1. RestoreInvAt(Hart(x))'
    BY <1>0, <1>4 DEF PushOffDisable, TypeOK, At, Executes, Goto, Return, irqVars, RestoreInvAt
  <2> QED
    BY <1>0, <1>4, <2>1, RestoreStep DEF PushOffDisable, Goto, Return, irqVars, TypeOK
<1>5. ASSUME NEW x \in Contexts, PushOffDepth(x) PROVE RestoreInv'
  <2>1. RestoreInvAt(Hart(x))'
    <3>1. /\ pc[x] = "deepen"
          /\ trap[Hart(x)] <=> x[2] = "irq"
          /\ pc'[x] \in {"pop", "check"}
          /\ depth[Hart(x)] = 0 => (ir_enable'[Hart(x)] <=> old[x])
          /\ depth[Hart(x)] # 0 => (ir_enable'[Hart(x)] <=> ir_enable[Hart(x)])
          /\ UNCHANGED <<sie, held, trap, base>>
      BY <1>0, <1>5 DEF PushOffDepth, At, Executes, Goto, TypeOK
    <3>2. x = TaskOf(Hart(x)) /\ depth[Hart(x)] = 0 => held[x] = {}
      <4> SUFFICES ASSUME x = TaskOf(Hart(x)), depth[Hart(x)] = 0
                   PROVE  Cardinality(held[x]) = 0
        BY HeldCardinality, SpinLockAssumption
      <4>1. /\ Cardinality(held[x]) \in Nat
            /\ Cardinality(held[IrqOf(Hart(x))]) \in Nat
        BY <1>0, PushesType
      <4> QED
        BY <1>0, <4>1 DEF IrqInvAt, Pushes
    <3>3. \A y \in Contexts \ {x} : pc'[y] = pc[y] /\ old'[y] = old[y]
      BY <1>5 DEF PushOffDepth, Goto, TypeOK
    <3>4. depth[Hart(x)] \in Nat
      BY <1>0 DEF TypeOK
    <3>5. CASE x = TaskOf(Hart(x)) /\ x[2] = "task"
      <4>2. held[x] = {} => (old[x] <=> base[Hart(x)])
        BY <1>0, <3>1, <3>5 DEF RestoreInvAt
      <4>3. ~trap[Hart(x)]
        BY <3>1, <3>5
      <4>4. depth[Hart(x)] # 0 => (ir_enable[Hart(x)] <=> base[Hart(x)])
        BY <1>0, <3>4, <4>3 DEF RestoreInvAt
      <4>1. ir_enable'[Hart(x)] <=> base[Hart(x)]
        BY <3>1, <3>2, <3>5, <4>2, <4>4
      <4> QED
        BY <1>0, <3>1, <3>5, <4>1 DEF RestoreInvAt
    <3>6. CASE x = IrqOf(Hart(x)) /\ x[2] = "irq"
      BY <1>0, <3>1, <3>3, <3>6 DEF RestoreInvAt
    <3> QED
      BY <1>0, <3>5, <3>6
  <2> QED
    BY <1>0, <1>5, <2>1, RestoreStep DEF PushOffDepth, Goto, TypeOK
<1>6. ASSUME NEW x \in Contexts, AcquireCheckLocked(x) PROVE RestoreInv'
  <2>1. RestoreInvAt(Hart(x))'
    BY <1>0, <1>6 DEF AcquireCheckLocked, TypeOK, At, Executes, Goto, Return, irqVars, RestoreInvAt
  <2> QED
    BY <1>0, <1>6, <2>1, RestoreStep DEF AcquireCheckLocked, Goto, Return, irqVars, TypeOK
<1>7. ASSUME NEW x \in Contexts, AcquireCheckCpu(x) PROVE RestoreInv'
  <2>1. CASE cpu[lk[x]] # Hart(x)
    <3>1. RestoreInvAt(Hart(x))'
      BY <1>0, <1>7, <2>1 DEF AcquireCheckCpu, TypeOK, At, Executes, Goto, irqVars, RestoreInvAt
    <3> QED
      BY <1>0, <1>7, <2>1, <3>1, RestoreStep DEF AcquireCheckCpu, Goto, irqVars, TypeOK
  <2>2. CASE ~(cpu[lk[x]] # Hart(x))
    BY <1>7, <2>2, <1>17 DEF AcquireCheckCpu
  <2> QED
    BY <2>1, <2>2
<1>8. ASSUME NEW x \in Contexts, AcquireSpin(x) PROVE RestoreInv'
  <2>1. RestoreInvAt(Hart(x))'
    BY <1>0, <1>8 DEF AcquireSpin, TypeOK, At, Executes, Goto, Return, irqVars, RestoreInvAt
  <2> QED
    BY <1>0, <1>8, <2>1, RestoreStep DEF AcquireSpin, Goto, Return, irqVars, TypeOK
<1>9. ASSUME NEW x \in Contexts, AcquireOwn(x) PROVE RestoreInv'
  <2>0. held[x] # {}
    BY <1>9 DEF AcquireOwn, At, LockInv
  <2>1. RestoreInvAt(Hart(x))'
    BY <1>0, <1>9, <2>0 DEF AcquireOwn, TypeOK, At, Executes, Goto, Return, irqVars, RestoreInvAt
  <2> QED
    BY <1>0, <1>9, <2>1, RestoreStep DEF AcquireOwn, Goto, Return, irqVars, TypeOK
<1>10. ASSUME NEW x \in Contexts, ReleaseCheck(x) PROVE RestoreInv'
  <2>1. CASE Holding(x)
    <3>0. Goto(x, "r_clear") /\ UNCHANGED <<irqVars, old, held, trap, base>>
      BY <1>10, <2>1 DEF ReleaseCheck
    <3>1. RestoreInvAt(Hart(x))'
      BY <1>0, <1>10, <3>0 DEF ReleaseCheck, TypeOK, At, Executes, Goto, irqVars, RestoreInvAt
    <3> QED
      BY <1>0, <3>0, <3>1, RestoreStep DEF Goto, irqVars, TypeOK
  <2>2. CASE ~Holding(x)
    BY <1>10, <2>2, <1>17 DEF ReleaseCheck
  <2> QED
    BY <2>1, <2>2
<1>11. ASSUME NEW x \in Contexts, ReleaseClear(x) PROVE RestoreInv'
  <2>1. RestoreInvAt(Hart(x))'
    BY <1>0, <1>11 DEF ReleaseClear, TypeOK, At, Executes, Goto, Return, irqVars, RestoreInvAt
  <2> QED
    BY <1>0, <1>11, <2>1, RestoreStep DEF ReleaseClear, Goto, Return, irqVars, TypeOK
<1>12. ASSUME NEW x \in Contexts, ReleaseUnlock(x) PROVE RestoreInv'
  <2>1. RestoreInvAt(Hart(x))'
    BY <1>0, <1>12 DEF ReleaseUnlock, TypeOK, At, Executes, Goto, Return, irqVars, RestoreInvAt
  <2> QED
    BY <1>0, <1>12, <2>1, RestoreStep DEF ReleaseUnlock, Goto, Return, irqVars, TypeOK
<1>13. ASSUME NEW x \in Contexts, PopOff(x) PROVE RestoreInv'
  <2>1. PopOffDone(x)
    BY <1>13, PopOffUndoesOne
  <2>2. /\ pc[x] = "pop" /\ pc' = [pc EXCEPT ![x] = "run"]
        /\ trap[Hart(x)] <=> x[2] = "irq"
        /\ UNCHANGED <<ir_enable, old, held, trap, base>>
    BY <2>1 DEF PopOffDone, At, Executes, Return, Goto
  <2>3. /\ depth[Hart(x)] \in Nat /\ depth[Hart(x)] >= 1
        /\ depth'[Hart(x)] = depth[Hart(x)] - 1
        /\ sie'[Hart(x)] <=> (depth[Hart(x)] = 1 /\ ir_enable[Hart(x)])
    BY <1>0, <2>1 DEF PopOffDone, TypeOK
  <2>4. RestoreInvAt(Hart(x))'
    <3>1. CASE x = TaskOf(Hart(x)) /\ x[2] = "task"
      <4>1. ir_enable[Hart(x)] <=> base[Hart(x)]
        BY <1>0, <2>2, <2>3, <3>1 DEF RestoreInvAt
      <4>2. Cardinality({}) = 0
        BY FS_EmptySet
      <4>4. Pushes(IrqOf(Hart(x))) = 0
        <5>1. pc[IrqOf(Hart(x))] = "run" /\ held[IrqOf(Hart(x))] = {}
          BY <1>0, <2>2, <3>1 DEF IrqInvAt
        <5> QED
          BY <4>2, <5>1 DEF Pushes
      <4>3. held[x] = {} => depth[Hart(x)] = 1
        <5>1. depth[Hart(x)] = Pushes(x) + Pushes(IrqOf(Hart(x)))
          BY <1>0, <3>1 DEF IrqInvAt
        <5>2. held[x] = {} => Pushes(x) = 1
          BY <2>2, <4>2 DEF Pushes
        <5> QED
          BY <4>4, <5>1, <5>2
      <4>5. /\ held'[x] = held[x] /\ pc'[x] = "run"
            /\ trap'[Hart(x)] <=> FALSE
        BY <1>0, <2>2, <3>1 DEF TypeOK
      <4> QED
        BY <1>0, <2>2, <2>3, <3>1, <4>1, <4>3, <4>5 DEF RestoreInvAt
    <3>2. CASE x = IrqOf(Hart(x)) /\ x[2] = "irq"
      <4>1. ~sie'[Hart(x)]
        BY <1>0, <2>2, <2>3, <3>2 DEF IrqInvAt
      <4> QED
        BY <1>0, <2>2, <3>2, <4>1 DEF RestoreInvAt, TypeOK
    <3> QED
      BY <1>0, <3>1, <3>2
  <2> QED
    BY <1>0, <2>1, <2>4, RestoreStep DEF PopOffDone, Return, Goto, TypeOK
<1>14. ASSUME NEW c \in CPUs, TimerInterrupt(c) PROVE RestoreInv'
  <2> SUFFICES ASSUME NEW d \in CPUs PROVE RestoreInvAt(d)'
    BY DEF RestoreInv
  <2>1. RestoreInvAt(d) /\ IrqInvAt(d) /\ TaskOf(d) \in Contexts
    BY ContextsType DEF RestoreInv, IrqInv
  <2> QED
    BY <1>14, <2>1 DEF TimerInterrupt, TypeOK, flowVars, RestoreInvAt, IrqInvAt
<1>15. ASSUME NEW c \in CPUs, TimerReturn(c) PROVE RestoreInv'
  <2> SUFFICES ASSUME NEW d \in CPUs PROVE RestoreInvAt(d)'
    BY DEF RestoreInv
  <2>1. RestoreInvAt(d) /\ IrqInvAt(d) /\ TaskOf(d) \in Contexts
    BY ContextsType DEF RestoreInv, IrqInv
  <2>2. UNCHANGED <<depth, ir_enable, pc, old, held, base>>
    BY <1>15 DEF TimerReturn, flowVars
  <2>3. CASE d # c
    BY <1>15, <2>1, <2>2, <2>3, RestoreFrame DEF TimerReturn, TypeOK
  <2>4. CASE d = c
    <3>1. /\ trap[d] /\ sie'[d] /\ ~trap'[d]
          /\ pc[IrqOf(d)] = "run" /\ held[IrqOf(d)] = {}
      BY <1>15, <2>4 DEF TimerReturn, TypeOK
    <3>2. base[d]
      BY <2>1, <3>1 DEF RestoreInvAt, TypeOK
    <3>3. Cardinality({}) = 0
      BY FS_EmptySet
    <3>4. depth[d] = 0
      BY <2>1, <3>1, <3>3 DEF IrqInvAt, Pushes
    <3> QED
      BY <2>1, <2>2, <3>1, <3>2, <3>4 DEF RestoreInvAt
  <2> QED
    BY <2>3, <2>4
<1>16. CASE UNCHANGED vars
  BY <1>16 DEF vars, RestoreInv, RestoreInvAt
<1> QED
  BY <1>1, <1>2, <1>3, <1>4, <1>5, <1>6, <1>7, <1>8, <1>9, <1>10, <1>11, <1>12,
     <1>13, <1>14, <1>15, <1>16 DEF Next, Step, CallMytask

(* push_off/pop_off leave a hart's interrupts as they found them, whatever *)
(* the nesting and wherever the timer interrupt splits push_off.           *)
THEOREM InterruptsRestored == Spec => []IrqRestored
<1>1. Init => RestoreInv
  BY InitRestoreInv
<1>2. TypeOK /\ LockInv /\ IrqInv /\ RestoreInv /\ [Next]_vars => RestoreInv'
  BY NextRestoreInv
<1>3. TypeOK /\ RestoreInv => IrqRestored
  BY DEF TypeOK, RestoreInv, RestoreInvAt, IrqRestored
<1> QED
  BY <1>1, <1>2, <1>3, IrqInvCorrect, PTL DEF Spec
=============================================================================

----------------------------- MODULE MCSpinLock -----------------------------
(* Two harts and three locks: tickslock, which the handlers and the tasks  *)
(* of both harts contend for, and the lock of the task each hart runs,     *)
(* which its own handler and the other hart's task take.                   *)
EXTENDS SpinLock

CONSTANTS c0, c1, tl, tm

MCtcb_lock == [c \in CPUs |-> IF c = c0 THEN tl ELSE tm]
=============================================================================

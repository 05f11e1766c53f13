----------------------------- MODULE Semaphore -----------------------------
(***************************************************************************)
(* The counting semaphore of sync_sem.c as functions on its two fields.    *)
(* value is an unsigned int, so sem_wait's `while (s->value < 0) sleep'    *)
(* never sleeps: taking a semaphore that is at 0 wraps it around, and the  *)
(* list of waiters stays empty.  The caller is mytask()'s pid, or NOBODY   *)
(* before the first task runs.                                             *)
(***************************************************************************)
EXTENDS Integers

CONSTANT UINT_RANGE     \* number of values of an unsigned int, 2^32 in the code

ASSUME UintAssumption == UINT_RANGE \in Nat /\ UINT_RANGE > 2

NOBODY == 0

sem_init(value) == [value |-> value, pid |-> NOBODY]

sem_wait(s, me) ==
    [value |-> (s.value - 1) % UINT_RANGE,
     pid |-> IF me = NOBODY THEN s.pid ELSE me]

sem_signal(s) == [value |-> (s.value + 1) % UINT_RANGE, pid |-> NOBODY]

(* `value <= 0' of an unsigned value; the pid counts once tasks run. *)
sem_hold(s, me) == s.value = 0 /\ (me = NOBODY \/ s.pid = me)
=============================================================================

------------------------------ MODULE PipeFifo ------------------------------
(***************************************************************************)
(* What a pipe promises: a bounded first-in first-out queue of bytes.  A   *)
(* write puts all the bytes of its buffer in, in order, each once.  A      *)
(* read takes bytes off the front and hands them over in order; it comes   *)
(* back empty-handed only at end of file.  A read whose buffer runs out of *)
(* the address space loses the byte at which it did, and only that one.    *)
(***************************************************************************)
EXTENDS Integers, SequencesExt

CONSTANTS Writers, Bytes, Capacity, MaxCount

VARIABLES
    queue,      \* the bytes in the pipe
    pending,    \* what a writer's call has still to put into it
    readopen,
    writeopen,
    out         \* the last read: of any byte?, handed over, faulted

fifoVars == <<queue, pending, readopen, writeopen, out>>

FifoInit ==
    /\ queue = <<>>
    /\ pending \in [Writers -> {<<>>}]
    /\ readopen = TRUE
    /\ writeopen = TRUE
    /\ out = [asked |-> FALSE, bytes |-> <<>>, fault |-> FALSE]

(* A call for buf, new or begun before, puts its next k bytes in.  What is *)
(* left is kept for later, and given up only if nobody can ever read it.   *)
FifoWrite(w, buf, k) ==
    LET rest == SubSeq(buf, k + 1, Len(buf)) IN
    /\ writeopen
    /\ pending[w] # <<>> => buf = pending[w]
    /\ Len(queue) + k <= Capacity
    /\ queue' = queue \o SubSeq(buf, 1, k)
    /\ \/ pending' = [pending EXCEPT ![w] = rest]
       \/ /\ ~readopen
          /\ Len(queue) + k = Capacity
          /\ pending' = [pending EXCEPT ![w] = <<>>]
    /\ UNCHANGED <<readopen, writeopen, out>>

(* n bytes are asked for; k are handed over. *)
FifoRead(n, k, lost) ==
    /\ readopen
    /\ k + lost <= n
    /\ k + lost <= Len(queue)
    /\ k + lost = 0 /\ n # 0 => queue = <<>> /\ ~writeopen
    /\ out' = [asked |-> n # 0, bytes |-> SubSeq(queue, 1, k), fault |-> lost = 1]
    /\ queue' = SubSeq(queue, k + lost + 1, Len(queue))
    /\ UNCHANGED <<pending, readopen, writeopen>>

FifoClose ==
    /\ \/ readopen' = FALSE /\ UNCHANGED writeopen
       \/ writeopen' = FALSE /\ UNCHANGED readopen
    /\ UNCHANGED <<queue, pending, out>>

FifoNext ==
    \/ \E w \in Writers, buf \in BoundedSeq(Bytes, MaxCount) :
          \E k \in 0..Len(buf) : FifoWrite(w, buf, k)
    \/ \E n \in 0..MaxCount :
          \E k \in 0..n, lost \in {0, 1} : FifoRead(n, k, lost)
    \/ FifoClose

FifoSpec == FifoInit /\ [][FifoNext]_fifoVars
=============================================================================

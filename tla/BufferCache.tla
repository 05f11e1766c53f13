---------------------------- MODULE BufferCache ----------------------------
(***************************************************************************)
(* The cache of disk sectors (fs_buf.c).  bcache.lock is taken and given   *)
(* back inside each operation and is left out; the list through prev and   *)
(* next is the sequence lru, most recently released first.  There is one   *)
(* device, number 0.                                                       *)
(***************************************************************************)
EXTENDS Semaphore, SequencesExt

CONSTANTS
    NBUF,       \* number of buffers
    NoSector    \* ~0, the sector of a buffer not yet used

ASSUME NbufAssumption == NBUF \in Nat \ {0}

Bufs == 1..NBUF

VARIABLES
    buf,        \* sectorno, valid, refcnt, lock and data of each buffer
    lru         \* the list, from bcache.head.next to bcache.head.prev

bcacheVars == <<buf, lru>>

-----------------------------------------------------------------------------
(* binit: every buffer in turn goes to the front of the list. *)
binit(junk) ==
    /\ lru' = [i \in Bufs |-> NBUF + 1 - i]
    /\ buf' = [b \in Bufs |-> [sectorno |-> NoSector, valid |-> FALSE,
                               refcnt |-> 0, lock |-> sem_init(1),
                               data |-> junk]]

Hits(s) == {i \in 1..Len(lru) : buf[lru[i]].sectorno = s}

Unreferenced == {i \in 1..Len(lru) : buf[lru[i]].refcnt = 0}

(* The buffers bget can return for sector s: the cached one, or else the   *)
(* least recently released unused one; none is a panic.                    *)
bget(s) ==
    IF Hits(s) # {} THEN {lru[Min(Hits(s))]}
    ELSE IF Unreferenced # {} THEN {lru[Max(Unreferenced)]}
    ELSE {}

(* The buffers once bget has returned b for s: one more reference to a     *)
(* cached buffer, a recycled one emptied; in either case sem_wait(lock).   *)
Got(b, s, me) ==
    LET lock == sem_wait(buf[b].lock, me)
        cached == [buf[b] EXCEPT !.refcnt = buf[b].refcnt + 1, !.lock = lock]
        recycled == [buf[b] EXCEPT !.sectorno = s, !.valid = FALSE,
                                   !.refcnt = 1, !.lock = lock]
    IN [buf EXCEPT ![b] = IF Hits(s) # {} THEN cached ELSE recycled]

(* The end of bread when the sector had to be read. *)
Filled(b, data) == [buf EXCEPT ![b].data = data, ![b].valid = TRUE]

(* The list once b is moved to its front. *)
ToFront(b) ==
    LET links == {i \in 1..Len(lru) : lru[i] = b}
    IN <<b>> \o RemoveAt(lru, Min(links))

(* A release that gives the reference back and not the semaphore. *)
brelse_NoSignal(b) ==
    /\ buf' = [buf EXCEPT ![b].refcnt = @ - 1]
    /\ lru' = IF buf[b].refcnt = 1 THEN ToFront(b) ELSE lru

(* brelse(b), the caller holding the semaphore: give it back and, with the *)
(* last reference, move b to the front of the list.                        *)
brelse(b) ==
    /\ buf' = [buf EXCEPT ![b].refcnt = @ - 1, ![b].lock = sem_signal(@)]
    /\ lru' = IF buf[b].refcnt = 1 THEN ToFront(b) ELSE lru
=============================================================================

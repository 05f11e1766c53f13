----------------------------- MODULE FramePool -----------------------------
(***************************************************************************)
(* What the physical page allocator promises its callers, without saying   *)
(* how the recycled frames are stored: frames start .. current - 1 have    *)
(* been handed out at least once, those in recycled have been given back,  *)
(* and the boundary never stays above a run of recycled frames.            *)
(***************************************************************************)
EXTENDS PageRange

VARIABLES
    current,    \* frames from here on have never been handed out, or are free again
    recycled,   \* frames below current that were given back
    used,       \* frames the callers own
    panicked    \* "no", or the panic that stopped the kernel

poolVars == <<current, recycled, used, panicked>>

PoolInit ==
    /\ current = start
    /\ recycled = {}
    /\ used = {}
    /\ panicked = "no"

(* frame_alloc: a recycled frame if there is one, else the next new one. *)
PoolAlloc(ppn) ==
    /\ panicked = "no"
    /\ \/ /\ ppn \in recycled
          /\ recycled' = recycled \ {ppn}
          /\ UNCHANGED current
       \/ /\ recycled = {}
          /\ current < end
          /\ ppn = current
          /\ current' = current + 1
          /\ UNCHANGED recycled
    /\ used' = used \cup {ppn}
    /\ UNCHANGED panicked

PoolExhausted ==
    /\ panicked = "no"
    /\ recycled = {}
    /\ current = end
    /\ panicked' = "no_frame_to_alloc"
    /\ UNCHANGED <<current, recycled, used>>

(* c is the boundary left when every frame on top of the pool that is in   *)
(* free has been taken off.                                                *)
Boundary(c, free) ==
    /\ c \in start .. current
    /\ c .. current - 1 \subseteq free
    /\ c = start \/ c - 1 \notin free

(* frame_dealloc of a frame the caller owns. *)
PoolDealloc(ppn) ==
    LET free == recycled \cup {ppn} IN
    /\ panicked = "no"
    /\ ppn \in used
    /\ used' = used \ {ppn}
    /\ \E c \in start .. current :
          /\ Boundary(c, free)
          /\ current' = c
          /\ recycled' = free \ (c .. current - 1)
    /\ UNCHANGED panicked

(* Giving back a frame nobody owns is noticed. *)
PoolMisuse(ppn) ==
    /\ panicked = "no"
    /\ ppn \notin used
    /\ panicked' = "has_not_been_allocated"
    /\ UNCHANGED <<current, recycled, used>>

PoolNext ==
    \/ \E ppn \in Frames : PoolAlloc(ppn) \/ PoolDealloc(ppn) \/ PoolMisuse(ppn)
    \/ PoolExhausted

PoolSpec == PoolInit /\ [][PoolNext]_poolVars

-----------------------------------------------------------------------------
(* The boundary stays within the memory, and only its frames are owned or  *)
(* recycled.                                                               *)
PoolTypeOK ==
    /\ current \in start .. end
    /\ recycled \subseteq Frames
    /\ used \subseteq Frames
    /\ panicked \in {"no", "no_frame_to_alloc", "has_not_been_allocated"}

(***************************************************************************)
(* Every frame below the boundary is either owned by a caller or recycled, *)
(* never both, and none above it is either: no frame is handed out while   *)
(* it is in use, and none is lost.                                         *)
(***************************************************************************)
Conserved ==
    /\ used \cap recycled = {}
    /\ used \cup recycled = start .. current - 1

(***************************************************************************)
(* The boundary has come down as far as it can: the frame below it is in   *)
(* use, so a later frame_dealloc finds all frames on top at once.          *)
(***************************************************************************)
Trimmed == current > start => current - 1 \in used
=============================================================================

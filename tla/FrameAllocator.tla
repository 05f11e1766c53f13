--------------------------- MODULE FrameAllocator ---------------------------
(***************************************************************************)
(* The physical page allocator (mm_frame_allocator.c) over the array heap  *)
(* of max_heap.c: a boundary that moves up when frames are taken from      *)
(* fresh memory and down when the frames on top come back, and a heap of   *)
(* recycled frames.  frame_alloc takes the heap's last cell instead of its *)
(* top, and frame_dealloc reads the top without asking whether the heap is *)
(* empty, so cells beyond CurrentSize keep what they held.                 *)
(***************************************************************************)
EXTENDS PageRange

VARIABLES
    current,        \* FRAME_ALLOCATOR.current
    heapArray,      \* recycled.heapArray
    CurrentSize,    \* recycled.CurrentSize
    used,           \* frames the callers own
    panicked

vars == <<current, heapArray, CurrentSize, used, panicked>>

MaxSize == end - start
Cells == 0 .. MaxSize - 1

-----------------------------------------------------------------------------
(* A heap is a record: its array arr and how many of its cells count, size. *)
heap_parent(pos) == (pos - 1) \div 2

(* A while loop: the state n turns after s.  Step leaves a state in which  *)
(* the loop has ended as it is; n is a bound on the turns.                 *)
Loop(Step(_), s, n) ==
    LET turn[k \in Nat] == IF k = 0 THEN s ELSE Step(turn[k - 1]) IN turn[n]

(* heap_SiftUp that looks at the parent of the new node only. *)
heap_SiftUp_Once(arr, pos) ==
    LET up == heap_parent(pos) IN
    IF pos > 0 /\ arr[up] < arr[pos]
    THEN [arr EXCEPT ![pos] = arr[up], ![up] = arr[pos]]
    ELSE arr

(* heap_SiftUp: smaller ancestors of temp move one cell down, and it takes *)
(* the last one's place, temppos.                                          *)
SiftUpStep(s) ==
    LET up == heap_parent(s.temppos) IN
    IF s.temppos > 0 /\ s.arr[up] < s.temp
    THEN [arr |-> [s.arr EXCEPT ![s.temppos] = s.arr[up]], temppos |-> up,
          temp |-> s.temp]
    ELSE s

heap_SiftUp(arr, pos) ==
    LET s == Loop(SiftUpStep,
                  [arr |-> arr, temppos |-> pos, temp |-> arr[pos]], MaxSize)
    IN [s.arr EXCEPT ![s.temppos] = s.temp]

(* The larger child of i, the left one when they are equal or it is alone. *)
LargerChild(arr, size, i) ==
    IF 2*i + 1 < size - 1 /\ arr[2*i + 1] < arr[2*i + 2] THEN 2*i + 2 ELSE 2*i + 1

(* heap_SiftDown: larger descendants of temp move one cell up, and it      *)
(* takes the last one's place, i.                                          *)
SiftDownStep(s) ==
    LET j == LargerChild(s.arr, s.size, s.i) IN
    IF j < s.size /\ s.temp < s.arr[j]
    THEN [arr |-> [s.arr EXCEPT ![s.i] = s.arr[j]], size |-> s.size, i |-> j,
          temp |-> s.temp]
    ELSE s

heap_SiftDown(arr, size) ==
    LET s == Loop(SiftDownStep,
                  [arr |-> arr, size |-> size, i |-> 0, temp |-> arr[0]],
                  MaxSize)
    IN [s.arr EXCEPT ![s.i] = s.temp]

heap_insert(h, newnode) ==
    [arr |-> heap_SiftUp([h.arr EXCEPT ![h.size] = newnode], h.size),
     size |-> h.size + 1]

(* heap_removeMax: the root is swapped past the end of the heap. *)
heap_removeMax(h) ==
    LET n == h.size - 1
        swapped == [h.arr EXCEPT ![0] = h.arr[n], ![n] = h.arr[0]]
    IN [arr |-> IF n > 1 THEN heap_SiftDown(swapped, n) ELSE swapped,
        size |-> n]

(* is_some *)
Recycled(h) == {h.arr[i] : i \in 0 .. h.size - 1}

heap == [arr |-> heapArray, size |-> CurrentSize]

-----------------------------------------------------------------------------
(* The array comes from the kernel heap, which hands memory out zeroed. *)
Init ==
    /\ current = start
    /\ heapArray = [i \in Cells |-> 0]
    /\ CurrentSize = 0
    /\ used = {}
    /\ panicked = "no"

Running == panicked = "no"

Panic(why) ==
    /\ panicked' = why
    /\ UNCHANGED <<current, heapArray, CurrentSize, used>>

(* frame_alloc that leaves the cell it took in the heap. *)
AllocRecycled_KeepCell ==
    /\ Running
    /\ CurrentSize # 0
    /\ used' = used \cup {heapArray[CurrentSize - 1]}
    /\ UNCHANGED <<current, heapArray, CurrentSize, panicked>>

AllocRecycled ==
    /\ Running
    /\ CurrentSize # 0
    /\ CurrentSize' = CurrentSize - 1
    /\ used' = used \cup {heapArray[CurrentSize - 1]}
    /\ UNCHANGED <<current, heapArray, panicked>>

AllocFresh ==
    /\ Running
    /\ CurrentSize = 0
    /\ current # end
    /\ current' = current + 1
    /\ used' = used \cup {current}
    /\ UNCHANGED <<heapArray, CurrentSize, panicked>>

AllocExhausted ==
    /\ Running
    /\ CurrentSize = 0
    /\ current = end
    /\ Panic("no_frame_to_alloc")

Rejected(ppn) == ppn >= current \/ ppn \in Recycled(heap)

DeallocRejected(ppn) ==
    /\ Running
    /\ Rejected(ppn)
    /\ Panic("has_not_been_allocated")

(* The while loop of frame_dealloc: take the top off as long as the        *)
(* array's first cell is the frame below the boundary.  A turn on an empty *)
(* heap panics.                                                            *)
TrimStep(s) ==
    IF s.stuck \/ s.heap.arr[0] # s.current - 1 THEN s
    ELSE IF s.heap.size = 0
    THEN [heap |-> s.heap, current |-> s.current, stuck |-> TRUE]
    ELSE [heap |-> heap_removeMax(s.heap), current |-> s.current - 1,
          stuck |-> FALSE]

Trim(h) ==
    Loop(TrimStep, [heap |-> h, current |-> current, stuck |-> FALSE],
         MaxSize + 1)

(* Two panics guard the heap: no room for one more, nothing to remove. *)
Dealloc(ppn) ==
    LET trimmed == Trim(heap_insert(heap, ppn)) IN
    /\ Running
    /\ ~Rejected(ppn)
    /\ IF CurrentSize = MaxSize THEN Panic("no_space_for_maxheap")
       ELSE IF trimmed.stuck THEN Panic("no_elements_in_this_maxheap")
       ELSE /\ heapArray' = trimmed.heap.arr
            /\ CurrentSize' = trimmed.heap.size
            /\ current' = trimmed.current
            /\ used' = used \ {ppn}
            /\ UNCHANGED panicked

Next ==
    \/ AllocRecycled
    \/ AllocFresh
    \/ AllocExhausted
    \/ \E ppn \in Frames : DeallocRejected(ppn) \/ Dealloc(ppn)

Spec == Init /\ [][Next]_vars

-----------------------------------------------------------------------------
(***************************************************************************)
(* The boundary stays within the memory and the heap within its array,     *)
(* whose cells, counted or not, hold frames or were never written.         *)
(***************************************************************************)
TypeOK ==
    /\ current \in start .. end
    /\ heapArray \in [Cells -> Frames \cup {0}]
    /\ CurrentSize \in 0 .. MaxSize
    /\ used \subseteq Frames

(***************************************************************************)
(* The array is a heap of distinct frames: every cell that counts is below *)
(* its parent.  frame_alloc's shortcut (take the last cell) and the swaps  *)
(* of heap_removeMax keep it so; otherwise heap_top would not be the       *)
(* largest recycled frame and the boundary would stop too early.           *)
(***************************************************************************)
HeapOrdered ==
    \A i \in 1 .. CurrentSize - 1 : heapArray[i] < heapArray[heap_parent(i)]

Pool == INSTANCE FramePool WITH recycled <- Recycled(heap)

(***************************************************************************)
(* The array-based allocator implements the pool: no frame is given out    *)
(* twice, none is lost, the boundary comes down past every free frame on   *)
(* top of it, each wrong frame_dealloc is caught, and neither a stale cell *)
(* nor an empty heap ever misleads the loop that lowers the boundary.      *)
(***************************************************************************)
ImplementsPool == Pool!PoolSpec
=============================================================================

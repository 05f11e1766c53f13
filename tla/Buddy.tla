------------------------------- MODULE Buddy -------------------------------
(***************************************************************************)
(* The kernel heap (bitmap_buddy.c): a binary tree over Size bytes whose   *)
(* nodes hold the base-2 logarithm of the largest block to be had below    *)
(* them, with single bits in the place of numbers in the two lowest        *)
(* layers, the blocks of 16 and of 8 bytes.  Callers allocate, and free    *)
(* what they were given, in any order.                                     *)
(***************************************************************************)
EXTENDS Integers, FiniteSets, FiniteSetsExt

CONSTANTS
    Size,       \* bytes managed: a power of two, at least 128
    Requests,   \* sizes that callers ask for
    MAX_LIVE    \* bound on the blocks in use at a time

(* buddy_new counts 2 * size - 1 nodes in an int. *)
MAX_LOG == 29
pow2[b \in 0..MAX_LOG] == IF b = 0 THEN 1 ELSE 2 * pow2[b - 1]
log2(value) ==
    CHOOSE k \in 0..MAX_LOG : value < 2 * pow2[k] /\ pow2[k] <= value

ASSUME BuddyAssumption ==
    /\ Size \in {pow2[k] : k \in 7..MAX_LOG}
    /\ Requests \subseteq 0..Size
    /\ MAX_LIVE \in Nat

VARIABLES
    bbt,        \* the nodes above the bitmap: logarithms
    bitmap,     \* the nodes of the two lowest layers whose bit is set
    locked,     \* b->lock is held
    live,       \* the blocks in use: offset and size
    misled,     \* history: a parent was set to its full size wrongly
    failed,     \* history: an allocation found no room
    panicked    \* the kernel has halted

vars == <<bbt, bitmap, locked, live, misled, failed, panicked>>

LEFT_LEAF(index) == 2 * index + 1
RIGHT_LEAF(index) == 2 * index + 2
PARENT(index) == (index + 1) \div 2 - 1

MIN_ALLOC == 8
Nodes == 0..(Size \div 4 - 2)
in_bitmap(index) == index >= Size \div 16 - 1
Sizes == {s \in {pow2[k] : k \in 3..MAX_LOG} : s <= Size}

(* get_size2: the bytes a node stands for. *)
get_size2[index \in Nodes] ==
    IF index = 0 THEN Size ELSE get_size2[PARENT(index)] \div 2

(* What a node holds when nothing below it is in use. *)
Whole == [index \in Nodes |-> log2(get_size2[index])]

(* The nodes from a node to the root. *)
Path[index \in Nodes] ==
    {index} \cup (IF index = 0 THEN {} ELSE Path[PARENT(index)])

(* fixsize and the smallest block: the size that serves a request. *)
Fitting(request) ==
    CHOOSE s \in Sizes : s >= request /\ \A r \in Sizes : r >= request => s <= r

-----------------------------------------------------------------------------
(* get_size(b, index), on a tree t: the logarithm of the largest block     *)
(* below the node, 0 when there is none.                                   *)
get_size(t, index) ==
    LET l == LEFT_LEAF(index) \in t.bitmap
        r == RIGHT_LEAF(index) \in t.bitmap
    IN IF ~in_bitmap(index) THEN t.bbt[index]
       ELSE IF index \notin t.bitmap THEN 0
       ELSE IF in_bitmap(PARENT(index)) THEN 3
       ELSE IF l /\ r THEN 4
       ELSE IF l \/ r THEN 3 ELSE 0

Larger(t, index) ==
    LET l == get_size(t, LEFT_LEAF(index))
        r == get_size(t, RIGHT_LEAF(index))
    IN IF l > r THEN l ELSE r

SetNode(t, index, value, bit) ==
    IF in_bitmap(index)
    THEN [t EXCEPT !.bitmap = IF bit THEN @ \cup {index} ELSE @ \ {index}]
    ELSE [t EXCEPT !.bbt[index] = value]

Tree == [bbt |-> bbt, bitmap |-> bitmap]

(* buddy_new: every node has its full size, every bit is set. *)
Init ==
    /\ bbt = [i \in {n \in Nodes : ~in_bitmap(n)} |-> Whole[i]]
    /\ bitmap = {n \in Nodes : in_bitmap(n)}
    /\ locked = FALSE
    /\ live = {}
    /\ misled = FALSE /\ failed = FALSE /\ panicked = FALSE

-----------------------------------------------------------------------------
(* An acquire of the heap's lock by the hart that holds it already. *)
DeadLock ==
    /\ ~panicked /\ locked
    /\ panicked' = TRUE
    /\ UNCHANGED <<bbt, bitmap, locked, live, misled, failed>>

(* buddy_alloc without room: NULL is returned with the lock held. *)
NoSpace(request) ==
    /\ ~panicked /\ ~locked
    /\ pow2[bbt[0]] < Fitting(request)
    /\ locked' = TRUE
    /\ failed' = TRUE
    /\ UNCHANGED <<bbt, bitmap, live, misled, panicked>>

(* A search that goes left wherever anything is free. *)
GoesLeft_IfAny(t, index, size) == get_size(t, LEFT_LEAF(index)) > 0

GoesLeft(t, index, size) == pow2[get_size(t, LEFT_LEAF(index))] >= size

(* The descent to a node of the wanted size: at[n] after n halvings. *)
Found(t, size) ==
    LET at[n \in 0..MAX_LOG] ==
            IF n = 0 THEN 0
            ELSE LET index == at[n - 1]
                 IN IF GoesLeft(t, index, size)
                    THEN LEFT_LEAF(index) ELSE RIGHT_LEAF(index)
    IN at[log2(Size) - log2(size)]

(* A parent counts as whole again when its halves' logarithms add up. *)
Merges(t, p) ==
    get_size(t, LEFT_LEAF(p)) + get_size(t, RIGHT_LEAF(p)) = Whole[p]

(* What the way back from an allocated or a freed node does at a parent.   *)
AllocUp(t, p) ==
    SetNode(t, p, Larger(t, p), {LEFT_LEAF(p), RIGHT_LEAF(p)} \cap t.bitmap # {})
FreeUp(t, p) ==
    SetNode(t, p, IF Merges(t, p) THEN Whole[p] ELSE Larger(t, p), TRUE)

(* The way back, as far as the root: turn[n] after n parents. *)
WayBack(freeing, t, index) ==
    LET turn[n \in 0..MAX_LOG] ==
            IF n = 0 THEN [tree |-> t, at |-> index]
            ELSE LET last == turn[n - 1]
                     p == PARENT(last.at)
                 IN IF last.at = 0 THEN last
                    ELSE [tree |-> IF freeing THEN FreeUp(last.tree, p)
                                   ELSE AllocUp(last.tree, p),
                          at |-> p]
    IN turn[log2(Size)].tree
AfterAlloc(t, index) == WayBack(FALSE, SetNode(t, index, 0, FALSE), index)
AfterFree(t, index) ==
    WayBack(TRUE, SetNode(t, index, Whole[index], TRUE), index)

buddy_alloc(request) ==
    /\ ~panicked /\ ~locked
    /\ pow2[bbt[0]] >= Fitting(request)
    /\ Cardinality(live) < MAX_LIVE
    /\ LET size == Fitting(request)
           index == Found(Tree, size)
           after == AfterAlloc(Tree, index)
       IN /\ bbt' = after.bbt
          /\ bitmap' = after.bitmap
          /\ live' = live \cup {[offset |-> (index + 1) * size - Size,
                                 size |-> size]}
    /\ UNCHANGED <<locked, misled, failed, panicked>>

-----------------------------------------------------------------------------
(* A climb that starts one layer too high. *)
Leaf_Sixteen(offset) == (offset + Size) \div (2 * MIN_ALLOC) - 1

(* The node of the lowest layer that stands for an address. *)
Leaf(offset) == (offset + Size) \div MIN_ALLOC - 1

(* The node of a block: the lowest one on its path with nothing below, or  *)
(* -1 when there is none up to the root.  The lower node has the greater   *)
(* number.                                                                 *)
NodeAt(t, offset) ==
    LET empty == {i \in Path[Leaf(offset)] : get_size(t, i) = 0}
    IN IF empty = {} THEN -1 ELSE Max(empty)

(* Whether the way back claims a node that is not free as a whole. *)
Bytes(b) == b.offset..(b.offset + b.size - 1)
Block(index) == [offset |-> (index + 1) * get_size2[index] - Size,
                 size |-> get_size2[index]]
Overstates(t, blocks) ==
    \E i \in Nodes : /\ ~in_bitmap(i) /\ t.bbt[i] = Whole[i]
                     /\ \E b \in blocks : Bytes(b) \cap Bytes(Block(i)) # {}
                     /\ \A b \in blocks : ~ Bytes(Block(i)) \subseteq Bytes(b)

(* A free that keeps the lock. *)
Unlocks_Never == FALSE

Unlocks == TRUE

buddy_free(b) ==
    /\ ~panicked /\ ~locked
    /\ b \in live
    /\ LET index == NodeAt(Tree, b.offset)
           after == AfterFree(Tree, index)
       IN IF index = -1
          THEN /\ panicked' = TRUE
               /\ locked' = TRUE
               /\ UNCHANGED <<bbt, bitmap, live, misled>>
          ELSE /\ bbt' = after.bbt
               /\ bitmap' = after.bitmap
               /\ live' = live \ {b}
               /\ locked' = ~Unlocks
               /\ misled' = (misled \/ Overstates(after, live \ {b}))
               /\ UNCHANGED panicked
    /\ UNCHANGED failed

(* buddy_size of a block, and the bytes buddy_remain_size finds in use:    *)
(* the first node with nothing below on each path from the root.  Where    *)
(* the climb finds no such node the size is no block's: 2 * Size.          *)
buddy_size(offset) ==
    LET index == NodeAt(Tree, offset)
    IN IF index = -1 THEN 2 * Size ELSE get_size2[index]
InUse ==
    LET firsts == {i \in Nodes : {j \in Path[i] : get_size(Tree, j) = 0} = {i}}
    IN MapThenSumSet(LAMBDA i : get_size2[i], firsts)
buddy_remain_size == Size - InUse

Next ==
    \/ DeadLock
    \/ \E r \in Requests : NoSpace(r) \/ buddy_alloc(r)
    \/ \E b \in live : buddy_free(b)

Spec == Init /\ [][Next]_vars

-----------------------------------------------------------------------------
(***************************************************************************)
(* Blocks in use are disjoint parts of the heap for as long as buddy_free  *)
(* has not taken two logarithms that add up for two free halves: nothing   *)
(* else in the search, the marking and the way back lets two callers share *)
(* a byte.                                                                 *)
(***************************************************************************)
BlocksDisjoint ==
    ~misled =>
        \A b \in live :
            /\ b.offset >= 0 /\ b.offset + b.size <= Size
            /\ \A c \in live \ {b} : Bytes(b) \cap Bytes(c) = {}

(***************************************************************************)
(* The heap keeps no list of its blocks: the node where buddy_free and     *)
(* buddy_size stop, climbing from a pointer, is the one the block was cut  *)
(* from, and the nodes with nothing below add up to what is in use.        *)
(***************************************************************************)
BlocksFoundAgain ==
    ~misled =>
        /\ \A b \in live : buddy_size(b.offset) = b.size
        /\ InUse = MapThenSumSet(LAMBDA b : b.size, live)

(***************************************************************************)
(* The panics of the heap, "dead lock" and "unknow fault in free", come    *)
(* only after an allocation that found no room, which keeps the lock, or   *)
(* after a wrong merge.                                                    *)
(***************************************************************************)
PanicsAfterFailure == panicked => failed \/ misled
=============================================================================

----------------------------- MODULE PageRange -----------------------------
(* The physical page frames frame_allocator_init() hands to the allocator. *)
EXTENDS Integers

CONSTANTS
    start,      \* first page number after the kernel image
    end         \* first page number past the memory

ASSUME PageRangeAssumption == start \in Nat /\ end \in Nat /\ start < end

Frames == start .. end - 1
=============================================================================

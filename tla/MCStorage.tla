----------------------------- MODULE MCStorage -----------------------------
(* Two buffers for three data sectors, so that buffers are recycled; a     *)
(* card with block or with byte addresses, partitioned or not; boot ROM    *)
(* leftovers on a pad below and on one above the card's; two rounds of     *)
(* every command loop.                                                     *)
EXTENDS Storage

CONSTANTS a, b
=============================================================================

------------------------------- MODULE MCPipe -------------------------------
(* A two-byte pipe whose counters wrap at four, so that both the buffer    *)
(* and the counters wrap in a few calls; writes of up to three bytes, so   *)
(* that a writer sleeps in the middle of a call.                           *)
EXTENDS Pipe

CONSTANTS r1, r2, w1, a, b
=============================================================================

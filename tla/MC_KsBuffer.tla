----------------------------- MODULE MC_KsBuffer -----------------------------
(***************************************************************************)
(* Model-checking instance of KsBuffer.  Three byte values are enough to   *)
(* tell bytes apart and to form every framing the scanners look for (NUL   *)
(* is also what ks_buffer_create zeroes the block with).                   *)
(***************************************************************************)
EXTENDS KsBuffer

CONSTANTS n0, cr, lf

MC_Bytes == {n0, cr, lf}

\* set_loops values: infinite (-1), disabled (0) and one replay
MC_LoopCounts == {-1, 0, 1}

\* loops is decremented no lower than this
MC_LoopFloor == -2

=============================================================================

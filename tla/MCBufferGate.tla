---------------------------- MODULE MCBufferGate ----------------------------
(* BufferGate on its own: every level the tracks can be at, every limit. *)
EXTENDS BufferGate

\* TLC finds an action's states only if it enumerates them.
AllDurations == 0..4
=============================================================================

-------------------------- MODULE MCTimeStampSync --------------------------
(***************************************************************************)
(* Instances of TimeStampSync for TLC: times are small numbers, and the    *)
(* leads and steps keep the relations StepAssumption states.               *)
(***************************************************************************)
EXTENDS TimeStampSync

=============================================================================

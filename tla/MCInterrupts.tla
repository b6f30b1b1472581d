--------------------------- MODULE MCInterrupts ----------------------------
(***************************************************************************)
(* Exceptions with and without an error code, a vector reserved by Intel   *)
(* and a free one, and lines on both chips.                                *)
(***************************************************************************)
EXTENDS Interrupts

MCFaults == {0, 14, 17}
MCSoftware == {20, 48}
MCLines == {0, 7, 8, 15}
=============================================================================

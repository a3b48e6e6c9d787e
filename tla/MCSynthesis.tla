----------------------------- MODULE MCSynthesis -----------------------------
(***************************************************************************)
(* Inputs from one frame to twelve; windows of a few rows, pages of two.   *)
(***************************************************************************)
EXTENDS Synthesis

MCDurations == {<<1>>, <<1, 1>>, <<2, 3, 1>>, <<5, 7>>}
MCReach1 == <<1, 2, 3>>

=============================================================================

---------------------------- MODULE MCCoherence ----------------------------
(***************************************************************************)
(* Model checking of Coherence: constants for TLC.                         *)
(***************************************************************************)
EXTENDS Coherence

CONSTANTS s1, s2, q1, q2, screen

OnePixel == {1}
TwoPixels == {1, 2}
WholeOnly == {{1}}
AllRects == {{1}, {2}, {1, 2}}

Small == [t \in Streaming \cup Targets |-> 1]

=============================================================================

--------------------------- MODULE MCCommandQueue ---------------------------
(***************************************************************************)
(* Model checking of CommandQueue.                                         *)
(***************************************************************************)
EXTENDS CommandQueue, TLC

Symmetry == Permutations(Textures)

=============================================================================

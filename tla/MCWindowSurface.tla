-------------------------- MODULE MCWindowSurface --------------------------
(* Small instances of WindowSurface for TLC.                               *)
EXTENDS WindowSurface, TLC

Symmetry == Permutations(Buffers)
=============================================================================

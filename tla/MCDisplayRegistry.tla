------------------------- MODULE MCDisplayRegistry -------------------------
(* Instances of DisplayRegistry for TLC.                                   *)
EXTENDS DisplayRegistry, TLC

CONSTANT wl1

\* The backends choose_backend knows for the handles: Wayland (0) for a
\* wl_display, TBM (1) for the buffer manager, none for NULL.
Choice == (wl1 :> 0) @@ (Bufmgr :> 1) @@ (Default :> Unknown)

Symmetry == Permutations(Displays) \cup Permutations(Threads)
=============================================================================

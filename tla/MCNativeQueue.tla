---------------------------- MODULE MCNativeQueue ----------------------------
(* Instances of NativeQueue for TLC.                                        *)
EXTENDS NativeQueue, TLC

Symmetry == Permutations(Buffers)
=============================================================================

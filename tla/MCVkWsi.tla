------------------------------ MODULE MCVkWsi ------------------------------
(* Instances of VkWsi for TLC.                                              *)
EXTENDS VkWsi, TLC

Symmetry == Permutations(Buffers)
=============================================================================

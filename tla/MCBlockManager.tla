--------------------------- MODULE MCBlockManager ---------------------------
(* Model-checking instance of BlockManager. *)
EXTENDS BlockManager, TLC

Symmetry == Permutations(Segments)
=============================================================================

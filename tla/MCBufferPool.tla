---------------------------- MODULE MCBufferPool ----------------------------
(* One block of the file and one managed buffer, with limits that hold both,  *)
(* one, or none of them.                                                      *)
EXTENDS BufferPool, TLC

MCSize == [b \in Blocks |-> 1]
Symmetry == Permutations(Threads)
=============================================================================

--------------------------- MODULE MCUpdateSegment ---------------------------
(* Model-checking instance of UpdateSegment. *)
EXTENDS UpdateSegment

\* The first row is not NULL, the second one is.
MCInitialColumn == [r \in Row |-> IF r = 0 THEN 1 ELSE NULL]

\* Each row alone and both together, to a value and to NULL; the first row
\* also to the value it has.
Assign(rows, v) == [r \in rows |-> v]
MCAssignments ==
  {Assign({0}, 1), Assign({0}, 2), Assign({0}, NULL), Assign({1}, 1),
   Assign({0, 1}, 2), [r \in {0, 1} |-> IF r = 0 THEN NULL ELSE 2]}
=============================================================================

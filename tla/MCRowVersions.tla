--------------------------- MODULE MCRowVersions ---------------------------
(* Model-checking instance of RowVersionManager. *)
EXTENDS RowVersionManager

\* What a scan delivers: rows of the vector in order.
Ascending == {s \in UNION {[1 .. n -> Row] : n \in 1 .. VectorSize} :
                \A i, j \in DOMAIN s : i < j => s[i] < s[j]}
\* What a join delivers: a row as often as it has matches, in any order.
Repeated == Ascending \union {<<0, 0, 1>>}
AnyOrder == UNION {[1 .. n -> Row] : n \in 1 .. 2}
=============================================================================

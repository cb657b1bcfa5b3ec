----------------------------- MODULE MCExecutor -----------------------------
(* Three query plans for TLC. *)
EXTENDS Executor

Nothing(P) == [p \in P |-> {}]

\* Two hash joins: builds 1 and 2 feed the probe pipeline 3.
TwoBuilds ==
    [pipelines |-> 1..3, base |-> [p \in 1..3 |-> p], own |-> {},
     group |-> [p \in 1..3 |-> 0],
     deps |-> [p \in 1..3 |-> IF p = 3 THEN {1, 2} ELSE {}],
     dataflow |-> Nothing(1..3), intra |-> Nothing(1..3),
     build |-> [p \in 1..3 |-> IF p = 3 THEN 0 ELSE 3],
     threads |-> [p \in 1..3 |-> 1], inserts |-> {1}, async |-> {2}]

\* A union of two pipelines, the first with two tasks.
UnionAll ==
    [pipelines |-> 1..2, base |-> [p \in 1..2 |-> 1], own |-> {},
     group |-> [p \in 1..2 |-> 0], deps |-> Nothing(1..2),
     dataflow |-> Nothing(1..2), intra |-> Nothing(1..2),
     build |-> [p \in 1..2 |-> 0],
     threads |-> [p \in 1..2 |-> 3 - p], inserts |-> {}, async |-> {1}]

\* A join that scans its hash table afterwards (pipeline 2), with a union
\* pipeline 3 in the finish group of the scan.
FinishGroup ==
    [pipelines |-> 1..3, base |-> [p \in 1..3 |-> 1], own |-> {2},
     group |-> [p \in 1..3 |-> IF p = 3 THEN 2 ELSE 0], deps |-> Nothing(1..3),
     dataflow |-> [p \in 1..3 |-> IF p = 3 THEN {1} ELSE {}],
     intra |-> [p \in 1..3 |-> IF p = 2 THEN {1} ELSE {}],
     build |-> [p \in 1..3 |-> 0],
     threads |-> [p \in 1..3 |-> 1], inserts |-> {}, async |-> {2}]

MCPlans == {TwoBuilds, UnionAll, FinishGroup}
=============================================================================

------------------------ MODULE MCTransactionManager ------------------------
(* Model-checking instance of TransactionManager. *)
EXTENDS TransactionManager, TLC

\* Transactions of the same class are interchangeable.
Sym == Permutations(Writer) \union Permutations(Reader)
=============================================================================

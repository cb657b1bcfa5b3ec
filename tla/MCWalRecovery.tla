--------------------------- MODULE MCWalRecovery ---------------------------
(* Model-checking instance of WalRecovery. *)
EXTENDS WalRecovery, TLC

\* Roots are only compared.
Sym == Permutations(Root)
=============================================================================

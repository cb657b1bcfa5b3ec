------------------------------ MODULE MCCatalog ------------------------------
(* Model-checking instance of Catalog. *)
EXTENDS Catalog

\* A table may use a sequence; the table can be renamed.
MCDepends == {<<"table", "sequence">>, <<"renamed", "sequence">>}
MCRenames == {<<"table", "renamed">>}
=============================================================================

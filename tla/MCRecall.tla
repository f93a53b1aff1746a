------------------------------ MODULE MCRecall ------------------------------
(* Model-checking instances of Recall.                                     *)
EXTENDS Recall

\* Two rows of one predicate and one of another.
TwoPredicates == [r \in Rows |-> IF r < 3 THEN "p" ELSE "q"]

\* A call that names no predicate and one that names both.
BothScopes == {<<"any">>, <<"p", "q">>}
=============================================================================

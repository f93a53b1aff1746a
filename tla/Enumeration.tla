---------------------------- MODULE Enumeration ----------------------------
(***************************************************************************)
(* Finite sets in order, and the entries of a sequence at some positions:  *)
(* what ORDER BY and a comprehension with a condition make.                *)
(*                                                                         *)
(* The library's SetToSortSeq and SelectSeq take operators, which leaves   *)
(* the proof system no facts about what they return.  Here an element's    *)
(* place is counted, and orders are relations.                             *)
(***************************************************************************)
EXTENDS Integers, FiniteSets, Sequences

\* How many of S come no later than x.
Place(x, S, le) == Cardinality({y \in S : <<y, x>> \in le})

\* The elements of S, which le orders totally.
InOrder(S, le) ==
    [k \in 1..Cardinality(S) |-> CHOOSE x \in S : Place(x, S, le) = k]

ByValue == {p \in Int \X Int : p[1] <= p[2]}

\* Numbers, the least first.
Ascending(S) == InOrder(S, ByValue)

\* The entries of s at the positions in I.
Pick(s, I) ==
    LET at == Ascending(I) IN [k \in 1..Cardinality(I) |-> s[at[k]]]
=============================================================================

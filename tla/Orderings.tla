------------------------------- MODULE Orderings -------------------------------
(***************************************************************************)
(* Sets in the order of a number, as the code's sorts and the ORDER BY of  *)
(* its queries have them.                                                  *)
(***************************************************************************)
EXTENDS Integers, Sequences, FiniteSets, Functions

(* The elements of S in the order of their keys, which are distinct.        *)
SortedBy(S, key) ==
    [i \in 1 .. Cardinality(S) |-> CHOOSE x \in S : Cardinality({y \in S : key[y] < key[x]}) = i - 1]

Ascending(S) == SortedBy(S, [n \in S |-> n])

===============================================================================

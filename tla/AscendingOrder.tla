--------------------------- MODULE AscendingOrder ---------------------------
(***************************************************************************)
(* Sorting and filtering by position: Array.prototype.sort, which is       *)
(* stable, and what keeps the order that elements have, which are          *)
(* Array.prototype.filter and a Map, whose keys come in the order in which *)
(* they were first set.  A place is the number of those that precede,      *)
(* which says more to a proof than a permutation does that an algorithm    *)
(* has found.                                                              *)
(***************************************************************************)
EXTENDS Naturals, FiniteSets

Below(S, n) == {m \in S : m < n}

\* The numbers of S from the lowest to the highest.
Ascending(S) ==
    [i \in 1..Cardinality(S) |->
        CHOOSE n \in S : Cardinality(Below(S, n)) = i - 1]

\* The positions 1..n in the order of a stable sort, where before has the pairs
\* of positions of which the first comes first: a position follows those before
\* it and, of those that compare equal with it, the lower ones.
StableOrder(n, before) ==
    LET Preceding(i) ==
            {j \in 1..n : \/ <<j, i>> \in before
                          \/ <<i, j>> \notin before /\ j < i}
    IN  [k \in 1..n |-> CHOOSE i \in 1..n : Cardinality(Preceding(i)) = k - 1]

\* The elements of a sequence at these of its positions, in its order.
ElementsAt(seq, positions) ==
    LET place == Ascending(positions) IN [i \in DOMAIN place |-> seq[place[i]]]
=============================================================================

--------------------------------- MODULE Ranks ---------------------------------
(* The elements of a finite set in an order that is given by its pairs, as a  *)
(* sequence: for sorting, for numbering, and for what is left of a sequence.  *)
EXTENDS Integers, FiniteSets, SequencesExt

IsList(s) == s \in Seq(ToSet(s))

Preceding(x, S, before) == {y \in S : <<y, x>> \in before}

InOrder(S, before) ==
    [k \in 1..Cardinality(S) |->
       CHOOSE x \in S : Cardinality(Preceding(x, S, before)) = k - 1]

\* Numbers from the least to the greatest.
Ascending(S) == InOrder(S, {pair \in S \X S : pair[1] < pair[2]})

\* The elements of s that some test holds for, given their positions.
Picks(s, positions) ==
    LET at == Ascending(positions) IN [k \in DOMAIN at |-> s[at[k]]]
=============================================================================

---------------------------- MODULE Subsequences ----------------------------
(***************************************************************************)
(* Sorting and filtering without recursion, so that they can be proved     *)
(* about: the place of an element is the number of those not after it.     *)
(***************************************************************************)
EXTENDS Integers, Sequences, FiniteSets

\* The elements of S in the order R, a set of pairs <<earlier, later>>.
Sorted(S, R) ==
    [k \in 1..Cardinality(S) |->
        CHOOSE x \in S : Cardinality({y \in S : y = x \/ <<y, x>> \in R}) = k]

Increasing(I) == {p \in I \X I : p[1] < p[2]}

\* The elements of seq at the indices I, in their order in seq.
Kept(seq, I) ==
    LET at == Sorted(I, Increasing(I))
    IN [k \in 1..Cardinality(I) |-> seq[at[k]]]

\* Those that are in K.
Within(seq, K) == Kept(seq, {i \in DOMAIN seq : seq[i] \in K})
=============================================================================

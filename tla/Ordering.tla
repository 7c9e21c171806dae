------------------------------ MODULE Ordering ------------------------------
(* The members of a finite set in an order, as a sequence. *)
EXTENDS Integers, FiniteSets

\* The k-th member is the one that k - 1 others come before.
Ordered(S, before(_, _)) ==
    [k \in 1..Cardinality(S) |->
        CHOOSE u \in S : Cardinality({v \in S : before(v, u)}) = k - 1]
=============================================================================

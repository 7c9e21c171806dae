---------------------------- MODULE MCBacklinks ----------------------------
(* An instance of Backlinks for TLC. *)
EXTENDS Backlinks, TLC

CONSTANTS t1, t2, t3, m1, m2, m3, m4

\* The processor alone, and beside a reconciliation of two edges of a target
\* that has room for one of them.
Sizes == [m \in Source |-> IF m \in {m1, m2} THEN 2 ELSE 1]
Alone    == [outlinks |-> {}, adds |-> 3, faults |-> 1]
Together == [outlinks |-> {<<t1, m1>>, <<t1, m2>>}, adds |-> 1, faults |-> 1]
Both     == {Alone, Together}
=============================================================================

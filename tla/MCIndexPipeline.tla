-------------------------- MODULE MCIndexPipeline --------------------------
(* An instance of IndexPipeline for TLC. *)
EXTENDS IndexPipeline, TLC

CONSTANTS p1, q1, u1, a, i1

Publication(kind) ==
    [url |-> u1, kind |-> kind, words |-> {a}, manifest |-> "images", images |-> <<i1>>]

\* A page and its recrawl as a permanent skip.
PageThenSkip ==
    {[pubs |-> <<Publication("page"), Publication("empty")>>, faults |-> 2, late |-> FALSE]}
=============================================================================

--------------------------- MODULE MCPageIndexer ---------------------------
(* Instances of PageIndexer for TLC. *)
EXTENDS PageIndexer, TLC

CONSTANTS p1, p2, u1, u2, a, b

Page(u, kind, words) == [url |-> u, kind |-> kind, words |-> words]

\* A recrawl with fewer words, rendered; a recrawl that is a permanent skip,
\* rendered, and one after it; bad values between two URLs; writes that land late.
Recrawl ==
    [pubs |-> <<Page(u1, "page", {a, b}), Page(u1, "rendered", {b})>>, faults |-> 2, late |-> FALSE]
Skip ==
    [pubs |-> <<Page(u1, "page", {a, b}), Page(u1, "rendered empty", {b}), Page(u1, "page", {b})>>,
     faults |-> 2, late |-> FALSE]
BadBetween ==
    [pubs |-> <<Page(u1, "corrupt", {a}), Page(u2, "invalid", {b}), Page(u1, "page", {b})>>,
     faults |-> 2, late |-> FALSE]
LateWrites == [Recrawl EXCEPT !.late = TRUE]

Safety   == {Recrawl, [Skip EXCEPT !.faults = 1], [BadBetween EXCEPT !.faults = 1], [LateWrites EXCEPT !.faults = 1]}
LateSkip == {[pubs |-> <<Page(u1, "page", {a, b}), Page(u1, "empty", {b})>>,
              faults |-> 2, late |-> TRUE]}
=============================================================================

--------------------------- MODULE MCImageIndexer ---------------------------
(* An instance of ImageIndexer for TLC. *)
EXTENDS ImageIndexer, TLC

CONSTANTS p1, p2, u1, i1, i2

Manifest(kind, images) == [url |-> u1, manifest |-> kind, images |-> images]

\* Two batches first, then a page with one of the images only; the same with
\* writes that land late; and a good manifest behind two that are quarantined.
Shrinking ==
    [pubs |-> <<Manifest("images", <<i1, i2>>), Manifest("images", <<i2>>)>>, faults |-> 1,
     late |-> FALSE]
Mixed ==
    [pubs |-> <<Manifest("corrupt", <<>>), Manifest("invalid", <<>>), Manifest("images", <<i1>>)>>,
     faults |-> 1, late |-> FALSE]
MixedWorkloads == {Shrinking, [Shrinking EXCEPT !.late = TRUE], Mixed}
=============================================================================

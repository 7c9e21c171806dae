----------------------------- MODULE MCCrawlJobs -----------------------------
(***************************************************************************)
(* Small instances of CrawlJobs.  A rate scope is named after what it      *)
(* limits: everything, a policy group, or an origin.                       *)
(***************************************************************************)
EXTENDS CrawlJobsSafety, TLC

OneGroup == [j \in Jobs |-> "g1"]
OwnGroups == [j \in Jobs |-> IF j = 1 THEN "g1" ELSE "g2"]

SameDepth == [j \in Jobs |-> 0]
Deeper == [j \in Jobs |-> j - 1]

GroupAndOrigin == [g \in Groups |-> {"global", g, "origin"}]
GroupOnly == [g \in Groups |-> {"global", g}]

\* The requests at a time that the scopes admit.
GlobalTwo == [s \in Scopes |-> IF s = "global" THEN 2 ELSE 1]
SharedTwo == [s \in Scopes |-> IF s \in {"global", "origin"} THEN 2 ELSE 1]
AllTwo == [s \in Scopes |-> 2]
PacedOrigin == [s \in Scopes |-> IF s = "origin" THEN 1 ELSE 0]
Unpaced == [s \in Scopes |-> 0]

Ones == [g \in Groups |-> 1]
Twos == [g \in Groups |-> 2]
FirstOne == [g \in Groups |-> IF g = "g1" THEN 1 ELSE 2]
Threes == [g \in Groups |-> 3]

Delays == [i \in 1 .. 2 |-> i]
NoWait == [i \in 1 .. 2 |-> 1]

\* The second job is loaded with the first, or only discovered by it.
FirstOnly == INSTANCE CrawlJobs WITH Seeds <- {1}
PublicationSpec == (Init \/ FirstOnly!Init) /\ [][Next]_vars

Symmetry == Permutations(Workers)
==============================================================================

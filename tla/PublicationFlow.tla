--------------------------- MODULE PublicationFlow ---------------------------
(***************************************************************************)
(* What the page and the image indexer promise together, seen from outside:*)
(* each publication goes once through its stages, the publications of one  *)
(* URL in the order in which they were published.  IndexPipeline is shown  *)
(* to implement it.                                                        *)
(***************************************************************************)
EXTENDS Integers

CONSTANT Pub

VARIABLES
    urlOf,      \* the URL of each publication, which never changes
    stage

Init == stage = [v \in Pub |-> "unborn"] /\ DOMAIN urlOf = Pub

\* No older publication of the URL is at the given stage.
FirstAt(v, s) == \A x \in Pub : urlOf[x] = urlOf[v] /\ x < v => stage[x] # s

Move(v, from, to) ==
    /\ stage[v] = from
    /\ stage' = [stage EXCEPT ![v] = to]
    /\ UNCHANGED urlOf

Publish(v)  == Move(v, "unborn", "waiting") /\ FirstAt(v, "unborn")
Index(v)    == Move(v, "waiting", "indexed") /\ FirstAt(v, "waiting")
Complete(v) == Move(v, "indexed", "complete") /\ FirstAt(v, "indexed")
Reject(v)   == (Move(v, "waiting", "dead") \/ Move(v, "indexed", "dead"))

Next == \E v \in Pub : Publish(v) \/ Index(v) \/ Complete(v) \/ Reject(v)

Spec == Init /\ [][Next]_<<stage, urlOf>>
=============================================================================

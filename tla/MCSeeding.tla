------------------------------ MODULE MCSeeding ------------------------------
(* Instances of Seeding for TLC. *)
EXTENDS Seeding, TLC

-----------------------------------------------------------------------------
(* A bootstrap and a Reddit import that share a source key, and earlier    *)
(* collections of each kind.                                               *)

Obs(id, key, at, priority, category, enabled) ==
    [id |-> id, key |-> key, at |-> at, priority |-> priority,
     category |-> category, enabled |-> enabled]

\* Url 2 is disabled in the baseline; source "b" of url 1 is seen twice.
Bring == [i \in Importer |->
    IF i = "bootstrap"
    THEN <<Obs(1, "a", 1, 2, "x", TRUE), Obs(2, "a", 1, 1, "y", FALSE)>>
    ELSE <<Obs(2, "b", 2, 3, "x", TRUE), Obs(1, "b", 2, 1, "y", TRUE),
           Obs(1, "a", 2, 3, "z", TRUE)>>]
Sizes == [i \in Importer |-> IF i = "bootstrap" THEN 2 ELSE 1]
Base  == <<Obs(1, "a", 1, 2, "x", TRUE), Obs(2, "a", 1, 1, "y", FALSE)>>

Earlier == Documents(<<Obs(1, "c", 0, 3, "z", FALSE), Obs(1, "b", 3, 2, "x", TRUE)>>)
Legacy  == [Earlier EXCEPT ![1].priority = 1]

Collections == {<<"absent", Empty>>, <<"loose", Earlier>>, <<"loose", Legacy>>,
                <<"strict", Empty>>, <<"strict", Earlier>>}

-----------------------------------------------------------------------------
Waiting == {{1, 3}}
=============================================================================

---------------------------- MODULE IdentityReplay ----------------------------
(***************************************************************************)
(* A ledger keeps the identities of a run; a submitter whose data was      *)
(* edited since then submits one of them again.                            *)
(***************************************************************************)
EXTENDS WireIdentities

CONSTANTS
    Baseline,       \* the data of a run
    Values,         \* for each field of the data, what an edit may put there
    MaxEdits        \* bound on the edits

VARIABLES data, stored, verdict, edits

vars == <<data, stored, verdict, edits>>

-----------------------------------------------------------------------------
Init ==
    /\ data = Baseline /\ stored = Baseline
    /\ verdict = [kind |-> "none", class |-> "none"]
    /\ edits = 0

Edit ==
    /\ edits < MaxEdits
    /\ edits' = edits + 1
    /\ data' \in UNION {
           {[data EXCEPT !.ids = r] : r \in EditRecord(data.ids, Values)},
           {[data EXCEPT !.reservation = r] : r \in EditRecord(data.reservation, Values)},
           {[data EXCEPT !.claim = r] : r \in EditRecord(data.claim, Values)},
           {[data EXCEPT !.reasons = r] : r \in EditRecord(data.reasons, Values)},
           {[data EXCEPT !.targets = s] : s \in EditEach(data.targets, Values)},
           {[data EXCEPT !.decisions = s] : s \in EditEach(data.decisions, Values)},
           {[data EXCEPT !.groups = s] : s \in EditEach(data.groups, Values)},
           {[data EXCEPT !.sources = s] : s \in EditEach(data.sources, Values)} }
    /\ verdict' = [kind |-> "none", class |-> "none"]
    /\ UNCHANGED stored

\* verify_replay, after the submitted data was checked.
Submit(kind) ==
    /\ verdict.kind = "none"
    /\ verdict' = [kind |-> kind, class |->
           IF BaselineError(data) # "none" THEN BaselineError(data)
           ELSE IF Identity(kind, data) # Identity(kind, stored) THEN "IMMUTABLE_MISMATCH"
           ELSE "replayed"]
    /\ UNCHANGED <<data, stored, edits>>

Next == Edit \/ \E kind \in Kinds : Submit(kind)

Spec == Init /\ [][Next]_vars

-----------------------------------------------------------------------------
(* Properties. *)

\* A decision with its target, and a source with its decision, by value.
DecisionMeant(n, d) == [n EXCEPT !.target = d.targets[n.target].url]
SourceMeant(s, d) ==
    [s EXCEPT !.target = d.targets[s.target].url, !.decision = DecisionMeant(d.decisions[s.decision], d)]

\* What an identity stands for, by value.
Meaning(kind, d) ==
    LET lease == <<d.ids.run, d.ids.job, d.ids.fence, d.ids.token>>
    IN CASE kind = "token" -> lease
         [] kind = "reservation" ->
              <<lease, d.ids.policy, d.reservation.ordinal,
                DecisionMeant(d.decisions[d.reservation.decision], d)>>
         [] kind = "source" -> {SourceMeant(d.sources[k], d) : k \in DOMAIN d.sources}
         [] kind = "group_map" -> ToSet(d.groups)
         [] kind = "reject_ready" ->
              <<d.ids.run, d.ids.job, d.reasons[kind], SourceMeant(d.sources[1], d)>>
         [] kind = "try_claim" ->
              <<lease, d.ids.owner, d.ids.policy, d.claim.prior, d.claim.ordinal,
                SourceMeant(d.sources[1], d), DecisionMeant(d.decisions[d.claim.decision], d)>>
         [] OTHER -> <<lease, d.ids.owner, d.reasons[kind]>>

\* A submission counts as the replay of a stored one only if it means the same:
\* no field of the lease, the target, the decision, its group or the arguments
\* can be changed under an identity.
ReplayMeansTheSame ==
    verdict.class = "replayed" => Meaning(verdict.kind, data) = Meaning(verdict.kind, stored)

\* What the verifier changes in good data is refused, and with the class that
\* its cases expect, whatever the good data are.
ChangesAreRefused ==
    BaselineError(data) = "none" =>
        /\ \A reason \in Reasons["retry"] \ {data.reasons["retry"]} :
               TransitionMutation(reason, data.ids.owner \o <<1>>, data) = "IMMUTABLE_MISMATCH"
        /\ Mutable(data) =>
               \A m \in BindingMutations : BindingMutation(m, data) = "POLICY_GROUP_BINDING_MISMATCH"

\* Both together.
IdentitiesBind == ReplayMeansTheSame /\ ChangesAreRefused
=============================================================================

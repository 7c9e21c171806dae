---------------------------- MODULE WireIdentities ----------------------------
(***************************************************************************)
(* The identities of a Crawl Jobs V2 run, as the digest verifier computes  *)
(* them from a run's data: framing, targets, policy decisions and groups,  *)
(* source jobs, reservations and transitions, and the changes that it      *)
(* makes to them and must see refused.                                     *)
(*                                                                         *)
(* A text is a sequence of characters, and a character is a number, so     *)
(* that the bytes of a length and of a text are of one kind.  A digest is  *)
(* the bytes it was computed of: no two byte strings share one.  A number  *)
(* is a text of one character.  The text of an identifier that does not    *)
(* have the form it must have is empty.  The names of the fields, which    *)
(* are the same in all records of a kind, are left out of the bytes.       *)
(***************************************************************************)
EXTENDS Integers, Sequences, SequencesExt, FiniteSetsExt

\* The class of the first check that fails, or "none".
First(checks) ==
    IF \E k \in DOMAIN checks : checks[k][1]
    THEN checks[CHOOSE k \in DOMAIN checks :
                    checks[k][1] /\ \A j \in 1..(k - 1) : ~checks[j][1]][2]
    ELSE "none"

\* The first class that is not "none".
FirstOf(classes) == First([k \in DOMAIN classes |-> <<classes[k] # "none", classes[k]>>])

\* A class of what is checked in no particular order.
AnyOf(classes) ==
    IF classes \subseteq {"none"} THEN "none" ELSE CHOOSE c \in classes : c # "none"

-----------------------------------------------------------------------------
(* Framing. *)

u64(n) == <<n>>
frame(v) == u64(Len(v)) \o v
Frames(values) == FlattenSeq([k \in DOMAIN values |-> frame(values[k])])
record(fields) == u64(Len(fields)) \o Frames(fields)
section(records) == u64(Len(records)) \o Frames([k \in DOMAIN records |-> record(records[k])])

\* The domain of each digest, one character long.
Domain == [url |-> 1, token |-> 2, group |-> 3, origin |-> 4, target |-> 5, decision |-> 6,
           reservation |-> 7, payload |-> 8, transition |-> 9, source |-> 10, groupMap |-> 11]

digest_framed(domain, values) == frame(<<Domain[domain]>>) \o Frames(values)
digest_sections(domain, records) == frame(<<Domain[domain]>>) \o section(records)

Text(n) == <<n>>

-----------------------------------------------------------------------------
(* Targets, scopes and decisions. *)

\* The first character of a URL is its origin; an IP literal has none.
Origin(url) == Head(url)
HasOrigin(url) == Origin(url) # 0

url_id(url) == <<Domain["url"]>> \o url

TargetError(t) ==
    First(<< <<t.id = <<>>, "INVALID_URL_ID">>,
             <<url_id(t.url) # t.id, "URL_IDENTITY_MISMATCH">> >>)

target_digest(t) == digest_framed("target", <<t.id, t.url>>)

group_scope(rate) == digest_framed("group", <<rate>>)
origin_scope(url) == digest_framed("origin", <<Text(Origin(url))>>)

GroupIdError(g) == IF g = <<>> THEN "GROUP_ID_LIMIT" ELSE "none"
RateError(r) == IF r = <<>> THEN "INVALID_RATE_SCOPE_ID" ELSE "none"
ScoreError(s) ==
    First(<< <<s = <<>>, "INVALID_SCORE_SYNTAX">>,
             <<s # <<>> /\ Head(s) \notin -1000..10000, "SCORE_OUT_OF_RANGE">> >>)

DecisionError(n, d) ==
    IF n.target \notin DOMAIN d.targets THEN "UNKNOWN_TARGET" ELSE
    LET t == d.targets[n.target] IN
    FirstOf(<< GroupIdError(n.group), RateError(n.rate),
               First(<< <<n.concurrency \notin 1..32 \/ n.interval \notin 0..3600000,
                          "DECISION_NUMBER_RANGE">> >>),
               TargetError(t),
               First(<< <<~HasOrigin(t.url), "PROHIBITED_ORIGIN">> >>) >>)

decision_fields(n, d) ==
    LET t == d.targets[n.target]
        limits == <<Text(n.concurrency), Text(n.interval)>>
    IN <<n.kind, t.id, target_digest(t), Text(n.depth), n.group, n.rate,
         group_scope(n.rate), origin_scope(t.url)>> \o limits \o limits

decision_digest(n, d) == digest_sections("decision", <<decision_fields(n, d)>>)

-----------------------------------------------------------------------------
(* Policy groups, and what is bound to them. *)

GroupsError(groups) ==
    FirstOf(<< First(<< <<Len(groups) = 0, "POLICY_GROUP_COUNT_LIMIT">>,
                        <<\E j, k \in DOMAIN groups : j # k /\ groups[j].group = groups[k].group,
                          "DUPLICATE_POLICY_GROUP">> >>) >>
        \o [k \in DOMAIN groups |->
               FirstOf(<< GroupIdError(groups[k].group), RateError(groups[k].rate),
                          First(<< <<\/ groups[k].limit \notin 1..10
                                     \/ groups[k].concurrency \notin 1..32
                                     \/ groups[k].interval \notin 0..3600000,
                                     "POLICY_GROUP_NUMBER_RANGE">> >>) >>)])

\* A sequence in the order of a number for each of its entries.
Sorted(s, key(_)) == SortSeq(s, LAMBDA a, b : key(a) < key(b))

\* Groups are listed by their identifiers, compared as numbers to base 100.
Number(text) == FoldLeft(LAMBDA n, c : 100 * n + c, 0, text)
GroupRecords(groups) ==
    [k \in DOMAIN groups |->
        LET g == Sorted(groups, LAMBDA x : Number(x.group))[k]
        IN <<g.group, g.rate, group_scope(g.rate), Text(g.limit), Text(g.concurrency),
             Text(g.interval)>>]

\* validate_decision_policy_group_binding; the limits of the origin are the
\* decision's own unless a caller names others.
BindingError(n, d, groups, originConcurrency) ==
    IF DecisionError(n, d) # "none" THEN DecisionError(n, d)
    ELSE IF GroupsError(groups) # "none" THEN GroupsError(groups)
    ELSE IF \E k \in DOMAIN groups :
                /\ groups[k].group = n.group
                /\ groups[k].rate = n.rate
                /\ groups[k].concurrency = n.concurrency /\ groups[k].interval = n.interval
                /\ originConcurrency = n.concurrency
         THEN "none" ELSE "POLICY_GROUP_BINDING_MISMATCH"

Bound(n, d) == BindingError(n, d, d.groups, n.concurrency)

\* A source job or a discovery against the decision that it names.
DocumentError(item, d) ==
    LET n == d.decisions[item.decision] IN
    FirstOf(<< First(<< <<\/ n.kind # <<2>> \/ item.target # n.target
                          \/ item.depth # n.depth \/ item.group # n.group \/ item.rate # n.rate,
                          "POLICY_BINDING_MISMATCH">> >>),
               TargetError(d.targets[item.target]),
               First(<< <<~HasOrigin(d.targets[item.target].url), "PROHIBITED_ORIGIN">> >>) >>)

SourceError(item, d) ==
    IF DocumentError(item, d) # "none" THEN DocumentError(item, d)
    ELSE IF Bound(d.decisions[item.decision], d) # "none"
    THEN Bound(d.decisions[item.decision], d) ELSE ScoreError(item.score)

\* source_job_fields, complete.
SourceFields(item, d) ==
    LET t == d.targets[item.target]
    IN <<t.id, t.url, item.score, Text(item.depth), item.group, item.rate,
         group_scope(item.rate), origin_scope(t.url), decision_digest(d.decisions[item.decision], d)>>

\* The scopes do not enter the source digest, since they follow from the rate
\* scope and the URL.
BriefSourceFields(item, d) == RemoveAt(RemoveAt(SourceFields(item, d), 8), 7)

ErrorOfRun(d) ==
    FirstOf(<<GroupsError(d.groups), AnyOf({Bound(d.decisions[x], d) : x \in DOMAIN d.decisions})>>
        \o [k \in DOMAIN d.sources |-> SourceError(d.sources[k], d)]
        \o [k \in DOMAIN d.discoveries |-> SourceError(d.discoveries[k], d)])

-----------------------------------------------------------------------------
(* Identities. *)

ReservationError(r, d) ==
    FirstOf(<< First(<< <<d.decisions[r.decision].target # r.target,
                          "RESERVATION_TARGET_MISMATCH">> >>),
               Bound(d.decisions[r.decision], d),
               First(<< <<r.ordinal < 1, "INVALID_UNSIGNED_DECIMAL">> >>) >>)

FaultyLease(d) == <<d.ids.run, d.ids.job, Text(d.ids.fence)>>

Lease(d) == <<d.ids.run, d.ids.job, Text(d.ids.fence), d.ids.token>>

reservation_id(r, d) ==
    LET n == d.decisions[r.decision]
    IN digest_framed("reservation",
           Lease(d) \o <<Text(r.ordinal), n.kind, d.targets[r.target].id,
                         target_digest(d.targets[r.target]), d.ids.policy, decision_digest(n, d)>>
           \o SubSeq(decision_fields(n, d), 5, 12))

\* What a transition may give as its reason.
Reasons == [reject_ready |-> {"policy_denied", "policy_scope_changed"}, try_claim |-> {"none"},
            release_before_io |-> {"none"},
            retry |-> {"http_429", "http_5xx"}, dead |-> {"policy_denied"},
            cancel_job |-> {"operator_cancelled"}, complete_no_output |-> {"already_visited"}]
Operations == DOMAIN Reasons

ReasonError(op, reason) == IF reason \in Reasons[op] THEN "none" ELSE "INVALID_TRANSITION_REASON"

\* Reasons and operations as texts, the unfit reason among them.
ReasonCode == [none |-> 1, policy_denied |-> 2, policy_scope_changed |-> 3, http_429 |-> 4,
               http_5xx |-> 5, operator_cancelled |-> 6, already_visited |-> 7,
               lease_expired_after_io |-> 8]
OperationCode == [reject_ready |-> 1, try_claim |-> 2, retry |-> 3, dead |-> 4, cancel_job |-> 5,
                  complete_no_output |-> 6, release_before_io |-> 7]

\* The arguments of each transition.
Payload(op, d) ==
    LET s == SourceFields(d.sources[1], d)
        n == d.decisions[d.claim.decision]
        t == d.targets[d.claim.target]
    IN CASE op = "reject_ready" -> Tail(s)
         [] op = "try_claim" ->
              Tail(s) \o <<Text(d.claim.prior), d.ids.owner, Text(d.claim.ordinal), n.kind, t.id,
                           t.url, target_digest(t), d.ids.policy, decision_digest(n, d)>>
                      \o SubSeq(decision_fields(n, d), 5, 12)
         [] OTHER -> <<d.ids.owner>>

Leased(op) == op # "reject_ready"

transition_payload_digest(fields) == digest_sections("payload", <<fields>>)

transition_id(op, reason, fields, d) ==
    digest_framed("transition",
        <<Text(OperationCode[op]), d.ids.run, d.ids.job>>
        \o (IF Leased(op) THEN <<Text(d.ids.fence), d.ids.token>> ELSE <<Text(0), <<>>>>)
        \o <<Text(ReasonCode[reason]), transition_payload_digest(fields)>>)

TransitionError(op, d) ==
    FirstOf(<<ReasonError(op, d.reasons[op])>>
        \o (IF op = "try_claim"
            THEN << First(<< <<d.decisions[d.claim.decision].target # d.claim.target,
                               "RESERVATION_TARGET_MISMATCH">>,
                             <<d.claim.ordinal < 1, "INVALID_UNSIGNED_DECIMAL">> >>) >>
            ELSE <<>>))

\* The identities that a run has, and the one of each.
Kinds == {"token", "reservation", "source", "group_map"} \cup Operations

Identity(kind, d) ==
    CASE kind = "token"       -> digest_framed("token", Lease(d))
      [] kind = "reservation" -> reservation_id(d.reservation, d)
      [] kind = "source"      -> digest_sections("source",
             [k \in DOMAIN d.sources |->
                 BriefSourceFields(
                     Sorted(d.sources, LAMBDA s : Number(d.targets[s.target].id))[k], d)])
      [] kind = "group_map"   -> digest_sections("groupMap", GroupRecords(d.groups))
      [] OTHER                -> transition_id(kind, d.reasons[kind], Payload(kind, d), d)

IdentityError(d) ==
    First(<< <<<<>> \in {d.ids.run, d.ids.owner, d.ids.job, d.ids.policy}, "INVALID_IDENTITY">>,
             <<d.ids.token = <<>>, "INVALID_LEASE_TOKEN">>,
             <<d.ids.fence < 1, "INVALID_UNSIGNED_DECIMAL">> >>)

\* compute_baseline: the first error of the data, in the order of its checks.
BaselineError(d) ==
    FirstOf(<<IdentityError(d), ErrorOfRun(d),
              AnyOf({TargetError(d.targets[x]) : x \in DOMAIN d.targets}),
              First(<< <<d.ids.job # d.targets["page"].id, "URL_IDENTITY_MISMATCH">> >>),
              ReservationError(d.reservation, d),
              AnyOf({TransitionError(op, d) : op \in Operations})>>)

-----------------------------------------------------------------------------
(* Edits of a record, and of one of several. *)

EditRecord(r, values) ==
    {[r EXCEPT ![f] = v] : <<f, v>> \in
        UNION {{f} \X values[f] : f \in DOMAIN values \cap DOMAIN r}}

EditEach(s, values) == UNION {{[s EXCEPT ![k] = r] : r \in EditRecord(s[k], values)} : k \in DOMAIN s}

-----------------------------------------------------------------------------
(* Mutations that the verifier makes and must see refused. *)

\* transition_mutation_result: another reason and another owner are another
\* transition each.
TransitionMutation(reason, owner, d) ==
    LET base == transition_id("retry", d.reasons["retry"], <<d.ids.owner>>, d)
        others == << transition_id("retry", reason, <<d.ids.owner>>, d),
                     transition_id("retry", d.reasons["retry"], <<owner>>, d) >>
    IN FirstOf(<<ReasonError("retry", d.reasons["retry"]), ReasonError("retry", reason),
                 First(<< <<base \in ToSet(others) \/ others[1] = others[2], "FIXTURE_ERROR">>,
                          <<TRUE, "IMMUTABLE_MISMATCH">> >>)>>)

Unrelated == << [group |-> <<9, 9>>, rate |-> <<9>>, limit |-> 1, concurrency |-> 1, interval |-> 0] >>

GroupOf(n, d) == CHOOSE k \in DOMAIN d.groups : d.groups[k].group = n.group
OtherGroups(n, d) == SelectSeq(d.groups, LAMBDA g : g.group # n.group)

BindingMutations ==
    {"missing_group", "wrong_rate_lineage", "changed_group_tuple", "unequal_group_origin_tuple",
     "unrelated_group_map"}

\* run_policy_group_binding_mutation: the class the changed data is refused with.
BindingMutation(m, d) ==
    LET n == d.decisions["page_document"]
        source == d.sources[1]
        rate == OtherGroups(n, d)[1].rate
    IN CASE m = "missing_group" -> BindingError(n, d, OtherGroups(n, d), n.concurrency)
         [] m = "wrong_rate_lineage" ->
              LET changed == [source EXCEPT !.rate = rate]
              IN SourceError(changed, [d EXCEPT !.decisions[source.decision].rate = rate])
         [] m = "changed_group_tuple" ->
              SourceError(d.discoveries[1],
                          [d EXCEPT !.groups[GroupOf(n, d)].concurrency = n.concurrency - 1])
         [] m = "unequal_group_origin_tuple" -> BindingError(n, d, d.groups, n.concurrency - 1)
         [] m = "unrelated_group_map" ->
              LET e == [d EXCEPT !.groups = Unrelated]
                  classes == {Bound(n, e), SourceError(source, e), SourceError(d.discoveries[1], e)}
              IN IF classes = {"POLICY_GROUP_BINDING_MISMATCH"}
                 THEN "POLICY_GROUP_BINDING_MISMATCH" ELSE "FIXTURE_ERROR"

\* What the data must be like for a mutation to be one: another group with
\* another rate scope, and a limit that can be lowered; the first source and
\* the first discovery belong to the group of the page.
Mutable(d) ==
    LET n == d.decisions["page_document"]
    IN /\ OtherGroups(n, d) # <<>> /\ OtherGroups(n, d)[1].rate # n.rate
       /\ n.concurrency > 1
       /\ d.sources[1].group = n.group /\ d.discoveries[1].group = n.group
=============================================================================

------------------------------ MODULE MCContract ------------------------------
(***************************************************************************)
(* The programs that keep the contract's identities and the indexer's data *)
(* for TLC.  A behaviour is one of: URLs canonicalized again and again,    *)
(* identities submitted again, outputs staged, a run of the verifier over  *)
(* its vectors, or the tokenizer's data provisioned.  program says which,  *)
(* and the variables of the others are off.                                *)
(***************************************************************************)
EXTENDS Integers, Sequences, FiniteSets, TLC

CONSTANTS
    MaxBytes, MaxEdits, MaxRuns, MaxTouches, MaxVersion,
    Asset, Chunk, MaxManifest,
    MaxStarts, MaxOrdinal, MaxPath, MaxBlob, MaxCombined, MaxType, MaxRule, MaxAlt,
    MaxOutlinks, MaxDiscoveries, MaxImages, MaxAliases, MaxU64, MaxGroups, MaxSources

VARIABLES
    program,
    url, rounds,                                            \* canonical URLs
    data, stored, edits,                                    \* identities and stages
    verdict,                                                \* identities
    cut, unsent, staged, refused,                           \* stages
    phase, exit, runs,                                      \* verifier and assets
    repo, was, fixture, at, results, baseline, printing,    \* verifier
    tree, cache, tool, anchor, mode, todo, found,           \* assets
    table, walked, loaded, touches

canonicalizing == <<url, rounds>>
editing   == <<data, stored>>
staging   == <<cut, unsent, staged, refused>>
running   == <<phase, exit, runs>>
verifying == <<repo, was, fixture, at, results, baseline, printing>>
keeping   == <<tree, cache, tool, anchor, mode, todo, found, table, walked, loaded, touches>>
vars == <<program, canonicalizing, editing, edits, verdict, staging, running, verifying, keeping>>

Forms == INSTANCE UrlIdentity WITH Raw <- {}
Wire  == INSTANCE WireIdentities

-----------------------------------------------------------------------------
(* Every authority under a plain path, and every short path and query under a *)
(* plain authority.                                                           *)

Plain == [edge |-> FALSE, scheme |-> "https", user |-> FALSE, host |-> "name",
          port |-> "none", path |-> <<"plain">>, query |-> Forms!Absent, fragment |-> FALSE]

Characters == DOMAIN Forms!Width
Schemes == {"http", "https", "HTTPS", "ftp", "none"}
Hosts == {"name", "NAME", "bare", "local", "aLabel", "badALabel", "symbolALabel",
          "hyphenALabel", "badLabel", "trailingDot",
          "numeric", "ipv4", "ipv6", "IPV6", "zone", "wide", "none"}
Ports == {"none", "default", "other", "padded", "paddedDefault", "empty", "zero", "big", "text"}
Short == {Forms!Absent, <<>>} \cup {<<k>> : k \in Characters}
Paths == Short \cup {<<j, k>> : j \in Characters, k \in Characters}

Authorities ==
    {[Plain EXCEPT !.scheme = s, !.host = h, !.port = p, !.user = w, !.edge = e] :
        s \in Schemes, h \in Hosts, p \in Ports, w \in BOOLEAN, e \in BOOLEAN}
Components ==
    {[Plain EXCEPT !.path = p, !.query = q, !.fragment = f] :
        p \in Paths, q \in Short, f \in BOOLEAN}
Urls == Authorities \cup Components

-----------------------------------------------------------------------------
(* The data of a run, and what an edit may put into them.                  *)

Url(o, p) == <<o, p>>
Target(u) == [id |-> Wire!url_id(u), url |-> u]
Decision(t) == [kind |-> <<2>>, target |-> t, depth |-> 0, group |-> <<1>>, rate |-> <<1>>,
                concurrency |-> 2, interval |-> 0]
Item(t, n) == [target |-> t, decision |-> n, score |-> <<1>>, depth |-> 0, group |-> <<1>>,
               rate |-> <<1>>]
Group(k) == [group |-> <<k>>, rate |-> <<k>>, limit |-> 2, concurrency |-> 2, interval |-> 0]
Lease == [run |-> <<1>>, job |-> Wire!url_id(Url(1, 1)), owner |-> <<1>>, fence |-> 1,
          token |-> <<1>>, policy |-> <<1>>]

RunData == [
    ids |-> Lease,
    targets |-> [page |-> Target(Url(1, 1)), other |-> Target(Url(2, 1))],
    decisions |-> [page_document |-> Decision("page"), other_document |-> Decision("other")],
    groups |-> <<Group(2), Group(1)>>,
    sources |-> <<Item("page", "page_document"), Item("other", "other_document")>>,
    discoveries |-> <<Item("other", "other_document")>>,
    reservation |-> [target |-> "page", decision |-> "page_document", ordinal |-> 1],
    claim |-> [target |-> "page", decision |-> "page_document", prior |-> 0, ordinal |-> 1],
    reasons |-> [reject_ready |-> "policy_denied", try_claim |-> "none", retry |-> "http_429",
                 dead |-> "policy_denied", cancel_job |-> "operator_cancelled",
                 complete_no_output |-> "already_visited", release_before_io |-> "none"]]

RunValues == [
    run |-> {<<2>>, <<>>}, owner |-> {<<2>>}, fence |-> {0, 2}, token |-> {<<2>>, <<>>}, policy |-> {<<2>>},
    target |-> {"page", "other"}, decision |-> {"page_document", "other_document"}, depth |-> {1},
    group |-> {<<1, 1>>, <<2>>, <<>>}, rate |-> {<<1, 1>>, <<2>>}, concurrency |-> {1, 33},
    interval |-> {1}, limit |-> {1, 11}, score |-> {<<2>>, <<>>, <<10001>>}, ordinal |-> {2, 0},
    prior |-> {1}, retry |-> {"http_5xx", "lease_expired_after_io"},
    url |-> {Url(1, 2), Url(0, 1)}, id |-> {<<>>, Wire!url_id(Url(1, 2)), Wire!url_id(Url(0, 1))},
    kind |-> {<<1>>}]

-----------------------------------------------------------------------------
(* Outputs: of a page that was redirected, and the profiles made of it.    *)

Request(c, o, s, t, k) ==
    [count |-> c, ordinal |-> o, started |-> s, target |-> t, kind |-> k]

OutputData == [
    ids |-> Lease,
    targets |-> [page |-> Target(Url(1, 1)), final |-> Target(Url(2, 1)),
                 found |-> Target(Url(3, 1)), seen |-> Target(Url(4, 1))],
    decisions |-> [page |-> Decision("page"), found |-> Decision("found"), seen |-> Decision("seen")],
    groups |-> <<Group(1)>>,
    sources |-> <<Item("page", "page")>>,
    discoveries |-> <<Item("seen", "seen"), Item("found", "found")>>,
    context |-> [source |-> 1, baseline |-> 2, generation |-> 5,
                 requests |-> <<Request(3, 4, 1000, "page", <<2>>), Request(4, 6, 1500, "final", <<3>>),
                                Request(5, 7, 2000, "page", <<4>>)>>],
    page |-> [normalized |-> "final", html |-> 1, original |-> 0, type |-> 1, status |-> 200,
              rendered |-> FALSE, rule |-> 0, digest |-> <<>>],
    outlinks |-> << <<6, 1>>, <<5, 1>>, <<7, 1>> >>,
    images |-> <<[url |-> <<9, 1>>, alt |-> 0], [url |-> <<8, 1>>, alt |-> 1]>>,
    authorized |-> <<>>, rules |-> {}]

Output == INSTANCE StageOutput
Profiles == {OutputData, Output!RenderedProfile(OutputData), Output!EmptyProfile(OutputData),
             Output!MaximumProfile(OutputData)}

OutputValues == [
    owner |-> {<<2>>}, fence |-> {2}, token |-> {<<2>>}, policy |-> {<<2>>},
    normalized |-> {"page"}, html |-> {0, 3}, original |-> {0, 2}, type |-> {2}, status |-> {399},
    rendered |-> BOOLEAN, rule |-> {0, 1}, digest |-> {<<>>, <<1>>},
    baseline |-> {1, 3}, generation |-> {4, 6}, count |-> {5}, ordinal |-> {9}, started |-> {1600},
    target |-> {"page", "final"}, kind |-> {<<1>>, <<3>>, <<4>>}, alt |-> {1}, score |-> {<<2>>},
    url |-> {<<5, 1>>, <<2, 1>>, <<9, 9>>}]

-----------------------------------------------------------------------------
(* The repository and the fixture, with a vector of each kind.             *)

File(raw) == [type |-> "file", raw |-> raw]
Repo == [directory |-> "directory", document |-> File(<<9, 0>>),
           files |-> [n \in 1..3 |-> File(<<n, 5, 0>>)]]
Guard == [version |-> <<7, 2>>, config |-> <<1>>, evidence |-> <<<<1>>, <<2>>, <<3>>, <<4>>>>,
          cutover |-> "fresh", candidate |-> <<>>]
Core(guardMode, evidence) ==
    [mode |-> guardMode, contract |-> "canonical-lua-bundle",
     guard |-> [Guard EXCEPT !.evidence = evidence]]
Positive(name, kind, input) == [name |-> name, kind |-> kind, input |-> input]
Negative(name, kind, class, input) == [name |-> name, kind |-> kind, class |-> class, input |-> input]

Fixture == [
    data |-> RunData, baseline |-> <<>>, expected |-> <<>>,
    cases |-> <<
        Positive("largest", "u64_max", [decimal |-> 3]),
        Positive("score", "valid_score", [score |-> <<2>>]),
        Positive("order", "utf8_order", [values |-> <<<<2>>, <<1, 1>>, <<1>>>>]),
        Positive("groups", "policy_group_boundary", [count |-> 2, limit |-> 1]),
        Positive("canonical-lua-bundle", "canonical_lua_bundle", <<>>),
        Positive("provisional", "guard_core",
            Core("provisional_fixture", << <<0>>, <<2>>, <<3>>, <<4>> >>)),
        Positive("chain", "guard_chain",
            [compatibility |-> [config |-> <<1>>, images |-> <<<<1>>, <<2>>, <<-1>>>>],
             approved |-> 1] @@ Core("production", <<<<1>>, <<2>>, <<3>>, <<4>>>>)) >>,
    negatives |-> <<
        Negative("n1", "u64", "U64_RANGE", [decimal |-> 4]),
        Negative("n2", "score_text", "INVALID_SCORE_SYNTAX", [score |-> <<>>]),
        Negative("n3", "group_id", "GROUP_ID_LIMIT", [group |-> <<>>]),
        Negative("n4", "lease_token", "INVALID_LEASE_TOKEN", [token |-> <<>>]),
        Negative("n5", "source_shape", "SOURCE_COUNT_LIMIT", [count |-> 3]),
        Negative("n6", "policy_group_boundary", "POLICY_GROUP_COUNT_LIMIT", [count |-> 3, limit |-> 1]),
        Negative("n7", "transition_reason", "INVALID_TRANSITION_REASON",
            [operation |-> "retry", reason |-> "lease_expired_after_io"]),
        Negative("n8", "transition_replay", "IMMUTABLE_MISMATCH", [reason |-> "http_5xx", owner |-> <<7>>]),
        Negative("n9", "reservation_target", "RESERVATION_TARGET_MISMATCH", [target |-> "other"]),
        Negative("n10", "policy_group_binding", "POLICY_GROUP_BINDING_MISMATCH",
            [mutation |-> "missing_group"]),
        Negative("n11", "canonical_lua_bundle_mutation", "BUNDLE_INVENTORY", [class |-> "BUNDLE_INVENTORY"]),
        Negative("n12", "canonical_lua_bundle_mutation", "BUNDLE_SOURCE_BYTES",
            [class |-> "BUNDLE_SOURCE_BYTES"]),
        Negative("n13", "canonical_lua_bundle_mutation", "BUNDLE_IDENTITY_MISMATCH",
            [class |-> "BUNDLE_IDENTITY_MISMATCH"]),
        Negative("n14", "guard_core_mutation", "INVALID_GUARD_RELATION",
            [base |-> "provisional", class |-> "INVALID_GUARD_RELATION"]),
        Negative("n15", "guard_core_mutation", "INVALID_REDIS_VERSION",
            [base |-> "chain", class |-> "INVALID_REDIS_VERSION"]),
        Negative("n16", "guard_core_mutation", "INVALID_GUARD_RELATION",
            [base |-> "chain", class |-> "INVALID_GUARD_RELATION"]),
        Negative("n17", "guard_chain_mutation", "GUARD_CONFIG_MISMATCH",
            [base |-> "chain", class |-> "GUARD_CONFIG_MISMATCH"]),
        Negative("n18", "guard_chain_mutation", "INVALID_IMAGE_DIGEST",
            [base |-> "chain", class |-> "INVALID_IMAGE_DIGEST"]) >>]

VectorValues == [
    type |-> {"link"}, raw |-> {<<6, 0>>, <<2, 5, 0>>, <<-1, 0>>},
    version |-> {<<7, 4>>}, config |-> {<<2>>}, evidence |-> {<<<<1>>, <<2>>, <<3>>, <<5>>>>},
    images |-> {<<<<1>>, <<2>>, <<3>>>>}, count |-> {1}, score |-> {<<3>>}]

-----------------------------------------------------------------------------
Canonical == INSTANCE UrlIdentity WITH Raw <- Urls
Replay    == INSTANCE IdentityReplay WITH Baseline <- RunData, Values <- RunValues
Stage     == INSTANCE StageChunks WITH Values <- OutputValues
Verifier  == INSTANCE VectorVerifier WITH Edits <- VectorValues, Order <- <<2, 1, 3>>
Assets    == INSTANCE NlpAssets

Off == "off"
CanonicalizingOff == url = Off /\ rounds = Off
EditingOff   == data = Off /\ stored = Off
StagingOff   == cut = Off /\ unsent = Off /\ staged = Off /\ refused = Off
RunningOff   == phase = Off /\ exit = Off /\ runs = Off
VerifyingOff == /\ repo = Off /\ was = Off /\ fixture = Off /\ at = Off
                /\ results = Off /\ baseline = Off /\ printing = Off
KeepingOff   == /\ tree = Off /\ cache = Off /\ tool = Off /\ anchor = Off /\ mode = Off
                /\ todo = Off /\ found = Off /\ table = Off /\ walked = Off /\ loaded = Off
                /\ touches = Off

ContractInit ==
    \/ /\ program = "urls" /\ Canonical!Init
       /\ EditingOff /\ edits = Off /\ verdict = Off /\ StagingOff
       /\ RunningOff /\ VerifyingOff /\ KeepingOff
    \/ /\ program = "identities" /\ Replay!Init
       /\ CanonicalizingOff /\ StagingOff /\ RunningOff /\ VerifyingOff /\ KeepingOff
    \/ /\ program = "stage" /\ Stage!Init
       /\ CanonicalizingOff /\ verdict = Off /\ RunningOff /\ VerifyingOff /\ KeepingOff
    \/ /\ program = "verifier" /\ Verifier!Init
       /\ CanonicalizingOff /\ EditingOff /\ verdict = Off /\ StagingOff /\ KeepingOff
    \/ /\ program = "assets" /\ Assets!Init
       /\ CanonicalizingOff /\ EditingOff /\ edits = Off /\ verdict = Off /\ StagingOff
       /\ VerifyingOff

ContractNext ==
    /\ UNCHANGED program
    /\ \/ /\ program = "urls" /\ Canonical!Next
          /\ UNCHANGED <<editing, edits, verdict, staging, running, verifying, keeping>>
       \/ /\ program = "identities" /\ Replay!Next
          /\ UNCHANGED <<canonicalizing, staging, running, verifying, keeping>>
       \/ /\ program = "stage" /\ Stage!Next
          /\ UNCHANGED <<canonicalizing, verdict, running, verifying, keeping>>
       \/ /\ program = "verifier" /\ Verifier!Next
          /\ UNCHANGED <<canonicalizing, editing, verdict, staging, keeping>>
       \/ /\ program = "assets" /\ Assets!Next
          /\ UNCHANGED <<canonicalizing, editing, edits, verdict, staging, verifying>>

ContractSpec == ContractInit /\ [][ContractNext]_vars

-----------------------------------------------------------------------------
\* The seed importer and the backlinks processor take the same URLs for canonical,
\* the verifier too but for its rule of the A-labels, and what the importer
\* canonicalized stays as it is and, if it may be crawled, has an origin.
FormsAgree ==
    program = "urls" => /\ Canonical!Idempotent /\ Canonical!BacklinksAgree
                        /\ Canonical!VerifierAgrees /\ Canonical!EligibleHasOrigin

\* An identity of the ledger stands for one meaning, and every change the
\* verifier makes to a run's data is refused with the class its cases expect.
IdentitiesBind == program = "identities" => Replay!IdentitiesBind

\* Every good output can be staged, whole; a commit id binds lease, interval and
\* output; and every change to an output or a chunk is refused.
OutputSound == program = "stage" => Stage!OutputSound

\* A run of the verifier passes only vectors of one repository, with every guard
\* over that repository's scripts, and passes what nobody edited.
VectorsHold == program = "verifier" => Verifier!VectorsHold

\* The tokenizer's data are whole or not there, whatever run was interrupted, and
\* a run keeps what it found.
AssetsHold == program = "assets" => Assets!AssetsHold
=============================================================================

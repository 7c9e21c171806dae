---------------------------- MODULE VectorVerifier ----------------------------
(***************************************************************************)
(* A run of the digest verifier over the fixture of test vectors.  It      *)
(* checks the fixture against the pinned inventory, computes the baseline  *)
(* and then case after case, tries what must be refused, and compares.     *)
(* Or it prints what it computed, for a maintainer to put in the fixture.  *)
(*                                                                         *)
(* The repository and the fixture are edited between runs, and the         *)
(* repository during a run as well: the verifier reads it more than once.  *)
(* The cases of outputs and stages are those of StageOutput; of the other  *)
(* kinds there is one of each that has state or a limit of its own.        *)
(***************************************************************************)
EXTENDS GuardChain

CONSTANTS
    Repo, Fixture,          \* the repository and the fixture, as they are pinned
    Edits,                  \* what an edit may put into a field
    MaxEdits, MaxRuns,      \* bounds on edits and runs
    MaxU64, MaxGroups,      \* limits of the protocol
    MaxSources

VARIABLES repo, was, fixture, phase, at, results, baseline, printing, exit, edits, runs

vars == <<repo, was, fixture, phase, at, results, baseline, printing, exit, edits, runs>>

Bundled == "canonical-lua-bundle"
Error(class) == [class |-> class, value |-> <<>>]
Unless(class, value) == [class |-> class, value |-> IF class = "none" THEN value ELSE <<>>]

-----------------------------------------------------------------------------
(* Cases. *)

DecimalError(n) ==
    IF n < 0 THEN "INVALID_UNSIGNED_DECIMAL" ELSE Reject(n > MaxU64, "U64_RANGE")

\* generated_policy_groups_boundary.
BoundaryGroups(c) ==
    [k \in 1..c.count |->
        [group |-> <<k>>, rate |-> <<k>>, limit |-> c.limit, concurrency |-> 2, interval |-> 0]]
BoundaryError(c) ==
    IF c.count > MaxGroups + 1 THEN "FIXTURE_ERROR"
    ELSE FirstOf(<<Reject(c.count > MaxGroups, "POLICY_GROUP_COUNT_LIMIT"),
                   GroupsError(BoundaryGroups(c))>>)

ReadBundle(r) ==
    IF ReadError(r) # "none" THEN Error(ReadError(r))
    ELSE LET entries == Entries(r)
             document == r.document.raw
         IN IF BundleError(document, entries) # "none" THEN Error(BundleError(document, entries))
            ELSE [class |-> "none", value |-> Bundle(document, entries)]

\* The contract that a guard binds is a result of an earlier case.
OfContract(c, done, Result(_)) ==
    IF c.contract \notin DOMAIN done THEN Error("FIXTURE_ERROR")
    ELSE Result(done[c.contract].contract)

CoreResult(c, contract) ==
    LET class == CoreError(c.mode, contract, c.guard)
    IN IF class = "none" THEN [class |-> class, value |-> CoreDigest(contract, c.guard)]
       ELSE Error(class)

ChainResult(c, contract) ==
    LET class == ChainError(c.mode, contract, c.guard, c.compatibility, c.approved)
    IN IF class # "none" THEN Error(class)
       ELSE IF ~Acyclic(contract, c.guard, c.compatibility, c.approved) THEN Error("FIXTURE_ERROR")
       ELSE [class |-> class, value |-> Chain(contract, c.guard, c.compatibility, c.approved)]

\* evaluate_cases: the result of a case, after those done.
Actual(kind, c, done, r) ==
    CASE kind = "u64_max" -> Unless(DecimalError(c.decimal), <<c.decimal>>)
      [] kind = "valid_score" -> Unless(ScoreError(c.score), c.score)
      [] kind = "utf8_order" ->
           [class |-> "none", value |-> Sorted(c.values, LAMBDA v : Number(v))]
      [] kind = "policy_group_boundary" ->
           IF BoundaryError(c) # "none" THEN Error(BoundaryError(c))
           ELSE [class |-> "none", value |-> section(GroupRecords(BoundaryGroups(c)))]
      [] kind = "canonical_lua_bundle" -> ReadBundle(r)
      [] kind = "guard_core" -> OfContract(c, done, LAMBDA x : CoreResult(c, x))
      [] kind = "guard_chain" -> OfContract(c, done, LAMBDA x : ChainResult(c, x))

\* A case by its name.
CaseNamed(f, name) == f.cases[CHOOSE k \in DOMAIN f.cases : f.cases[k].name = name]

\* run_negative_case: the classes that what must be refused is refused with.  The
\* bundle's is read from the repository again, whatever the case before it read.
Refusals(kind, c, f, done, r) ==
    CASE kind = "u64" -> {DecimalError(c.decimal)}
      [] kind = "score_text" -> {ScoreError(c.score)}
      [] kind = "group_id" -> {GroupIdError(c.group)}
      [] kind = "lease_token" -> {Reject(c.token = <<>>, "INVALID_LEASE_TOKEN")}
      [] kind = "source_shape" -> {Reject(c.count > MaxSources, "SOURCE_COUNT_LIMIT")}
      [] kind = "policy_group_boundary" -> {BoundaryError(c)}
      [] kind = "transition_reason" -> {ReasonError(c.operation, c.reason)}
      [] kind = "transition_replay" -> {TransitionMutation(c.reason, c.owner, f.data)}
      [] kind = "reservation_target" ->
           {ReservationError([f.data.reservation EXCEPT !.target = c.target], f.data)}
      [] kind = "policy_group_binding" -> {BindingMutation(c.mutation, f.data)}
      [] kind = "canonical_lua_bundle_mutation" ->
           IF ReadBundle(r).class # "none" THEN {ReadBundle(r).class}
           ELSE LET base == ReadBundle(r).value
                    changed == {m[2] : m \in {e \in EntryMutations(Entries(r)) : e[1] = c.class}}
                IN {ChangedBundle(r.document.raw, s, base) : s \in changed}
      [] kind = "guard_core_mutation" ->
           LET base == CaseNamed(f, c.base).input
           IN {CoreError(base.mode, m[1], m[2]) : m \in
                  {e \in CoreMutations(base.mode, done[base.contract].contract, base.guard) :
                      e[3] = c.class}}
      [] kind = "guard_chain_mutation" ->
           LET base == CaseNamed(f, c.base).input
           IN {ChainError(base.mode, done[base.contract].contract, base.guard, m[1], base.approved) :
                  m \in {e \in ChainMutations(base.compatibility) : e[2] = c.class}}

-----------------------------------------------------------------------------
(* The fixture. *)

\* validate_fixture_schema: the names, the kinds and the classes are pinned.
Inventory(f) ==
    <<[k \in DOMAIN f.cases |-> <<f.cases[k].name, f.cases[k].kind>>],
      [k \in DOMAIN f.negatives |-> <<f.negatives[k].name, f.negatives[k].kind, f.negatives[k].class>>]>>

Names(f) == [k \in DOMAIN f.cases |-> f.cases[k].name]
                \o [k \in DOMAIN f.negatives |-> f.negatives[k].name]

\* Each bundle is of the repository, and each guard of that bundle.
GuardsBound(f) ==
    \A k \in DOMAIN f.cases :
        f.cases[k].kind \in {"guard_core", "guard_chain"} => f.cases[k].input.contract = Bundled

SchemaFits(f) ==
    IsInjective(Names(f)) /\ Inventory(f) = Inventory(Fixture) /\ GuardsBound(f)

Baseline(f) == [kind \in Kinds |-> Identity(kind, f.data)]

\* What is expected of each case, in order, of a repository.
Expected(f, r) ==
    FoldLeft(LAMBDA done, c : (c.name :> Actual(c.kind, c.input, done, r).value) @@ done,
             <<>>, f.cases)

-----------------------------------------------------------------------------
(* Edits. *)

RepoEdits(r) ==
    {[r EXCEPT !.directory = "link"], [r EXCEPT !.files = Restrict(@, DOMAIN @ \ {Order[1]})],
     [r EXCEPT !.files = (0 :> r.document) @@ @]}
    \cup {[r EXCEPT !.document = file] : file \in EditRecord(r.document, Edits)}
    \cup {[r EXCEPT !.files[n] = file] :
              <<n, file>> \in UNION {{n} \X EditRecord(r.files[n], Edits) : n \in DOMAIN r.files}}

CaseEdits(c) ==
    EditRecord(c, Edits)
    \cup (IF "guard" \notin DOMAIN c THEN {}
          ELSE {[c EXCEPT !.guard = g] : g \in EditRecord(c.guard, Edits)})
    \cup (IF "compatibility" \notin DOMAIN c THEN {}
          ELSE {[c EXCEPT !.compatibility = g] : g \in EditRecord(c.compatibility, Edits)})

-----------------------------------------------------------------------------
Init ==
    /\ repo = Repo /\ was = {}
    /\ fixture = [Fixture EXCEPT !.baseline = Baseline(Fixture), !.expected = Expected(Fixture, Repo)]
    /\ phase = "idle" /\ at = 0 /\ results = <<>> /\ baseline = <<>>
    /\ printing = FALSE /\ exit = -1
    /\ edits = 0 /\ runs = 0

Running == phase # "idle"

EditRepo ==
    /\ edits < MaxEdits /\ edits' = edits + 1
    /\ repo' \in RepoEdits(repo)
    /\ was' = IF Running THEN was \cup {repo'} ELSE {}
    /\ exit' = -1
    /\ UNCHANGED <<fixture, phase, at, results, baseline, printing, runs>>

EditFixture ==
    /\ edits < MaxEdits /\ edits' = edits + 1 /\ ~Running
    /\ fixture' \in {[fixture EXCEPT !.cases[k].input = c] :
                       <<k, c>> \in UNION {{k} \X CaseEdits(fixture.cases[k].input) :
                                            k \in DOMAIN fixture.cases}}
                    \cup {[fixture EXCEPT !.data.ids = r] :
                             r \in EditRecord(fixture.data.ids, [owner |-> {<<2>>}, fence |-> {0, 2}])}
                    \cup {[fixture EXCEPT !.negatives[k].class = "INVALID_DIGEST"] :
                             k \in {1, Len(fixture.negatives)}}
    /\ exit' = -1
    /\ UNCHANGED <<repo, was, phase, at, results, baseline, printing, runs>>

\* What a run printed goes into the fixture.
Paste ==
    /\ ~Running /\ printing /\ exit = 0
    /\ fixture' = [fixture EXCEPT !.baseline = baseline, !.expected = results]
    /\ exit' = -1
    /\ UNCHANGED <<repo, was, phase, at, results, baseline, printing, edits, runs>>

Exit(code) == phase' = "idle" /\ at' = 0 /\ exit' = code
Continue(next, k) == phase' = next /\ at' = k /\ exit' = exit

Start ==
    /\ ~Running /\ runs < MaxRuns /\ runs' = runs + 1
    /\ printing' \in BOOLEAN
    /\ was' = {repo} /\ results' = <<>> /\ baseline' = <<>>
    /\ phase' = "schema" /\ at' = 0 /\ exit' = -1
    /\ UNCHANGED <<repo, fixture, edits>>

Schema ==
    /\ phase = "schema"
    /\ IF SchemaFits(fixture) /\ BaselineError(fixture.data) = "none"
       THEN Continue("cases", 1) /\ baseline' = Baseline(fixture)
       ELSE Exit(1) /\ UNCHANGED baseline
    /\ UNCHANGED <<repo, was, fixture, results, printing, edits, runs>>

EvaluateCase ==
    /\ phase = "cases"
    /\ IF at > Len(fixture.cases) THEN Continue("negatives", 1) /\ UNCHANGED results
       ELSE LET c == fixture.cases[at]
                actual == Actual(c.kind, c.input, results, repo)
            IN IF actual.class = "none"
               THEN Continue("cases", at + 1) /\ results' = (c.name :> actual.value) @@ results
               ELSE Exit(1) /\ UNCHANGED results
    /\ UNCHANGED <<repo, was, fixture, baseline, printing, edits, runs>>

TryNegative ==
    /\ phase = "negatives"
    /\ IF at > Len(fixture.negatives) THEN Continue("compare", 1)
       ELSE LET c == fixture.negatives[at]
            IN IF Refusals(c.kind, c.input, fixture, results, repo) = {c.class}
               THEN Continue("negatives", at + 1) ELSE Exit(1)
    /\ UNCHANGED <<repo, was, fixture, results, baseline, printing, edits, runs>>

Compare ==
    /\ phase = "compare"
    /\ Exit(IF printing \/ (baseline = fixture.baseline /\ results = fixture.expected) THEN 0 ELSE 1)
    /\ UNCHANGED <<repo, was, fixture, results, baseline, printing, edits, runs>>

Next == EditRepo \/ EditFixture \/ Paste \/ Start \/ Schema \/ EvaluateCase \/ TryNegative \/ Compare

Spec == Init /\ [][Next]_vars

-----------------------------------------------------------------------------
(* Properties. *)

Verified == exit = 0 /\ ~printing

\* A run that finds the vectors good compared them with one repository that was
\* there while it ran, all guards with the same one, though the repository may
\* have been edited under it; and what must be refused was.
VectorsOfOneRepo ==
    Verified => /\ \E r \in was : ReadBundle(r).class = "none" /\ fixture.expected = Expected(fixture, r)
                /\ fixture.baseline = Baseline(fixture)
                /\ BaselineError(fixture.data) = "none"

\* The inputs of a guard case of the pinned fixture.
Pinned(name) == CaseNamed(Fixture, name).input

\* A stored guard that is still the pinned one has the pinned evidence, images,
\* scripts and document under it: nothing that a release was approved with can change
\* and leave its guard as it was.
GuardBindsRelease ==
    Verified =>
        \A k \in DOMAIN fixture.cases :
            LET c == fixture.cases[k]
            IN c.kind = "guard_chain" /\ fixture.expected[c.name] = Expected(Fixture, Repo)[c.name]
               => c.input = Pinned(c.name) /\ Repo \in was

\* Nothing is found wrong with what nobody edited.
GoodVectorsPass == exit = 1 => edits > 0

VectorsHold == VectorsOfOneRepo /\ GuardBindsRelease /\ GoodVectorsPass
=============================================================================

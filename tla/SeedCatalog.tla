----------------------------- MODULE SeedCatalog -----------------------------
(***************************************************************************)
(* The crawl seed catalog (services/seed-importer): the MongoDB collection *)
(* crawl_seeds with one document per URL, that several importers merge     *)
(* observations into, an operator disables records of, and a rebuild       *)
(* replaces as a whole.                                                    *)
(*                                                                         *)
(* crawl_seed.py merges documents in Python; mongo_seeds.py merges them    *)
(* again inside the server, as an aggregation pipeline.  Both are written  *)
(* down here, and compared.  A bulk write is ordered, and each operation   *)
(* of it is one step; a call that raises has had its effect or has not.    *)
(***************************************************************************)
EXTENDS Integers, Sequences, SequencesExt, FiniteSets, FiniteSetsExt, Ordering

CONSTANTS
    Id,                 \* URL identities, numbers in the order of their digests
    Importer,           \* the import programs
    Rows,               \* Rows[i]: the sequence of observations that i brings
    BatchSize,          \* BatchSize[i]: documents per bulk write
    GoesOn,             \* importers that go on after a BulkWriteError (reddit.py)
    Baseline,           \* the observations a rebuild writes
    Initial,            \* the possible <<mode, catalog>> before
    MaxSources,         \* MAX_SOURCES
    MaxRuns, MaxToggles, MaxFaults  \* bounds on runs, operator edits and failures

ASSUME LimitsAssumption ==
    /\ Id \subseteq Nat /\ IsFiniteSet(Id) /\ Id # {}
    /\ MaxSources \in Nat \ {0} /\ MaxRuns \in Nat
    /\ \A i \in Importer : BatchSize[i] \in Nat \ {0}

VARIABLES
    mode,       \* of the collection: absent, loose (no V1 validator) or strict
    catalog,    \* its documents
    stage,      \* the staging collection of a rebuild
    job,        \* where each importer is
    rebuild,    \* where the rebuild is
    toggles, faults

vars == <<mode, catalog, stage, job, rebuild, toggles, faults>>

NoDoc   == [none |-> TRUE]
Refused == [refused |-> TRUE]       \* a merge or a write that raises
Empty   == [u \in Id |-> NoDoc]
NoStage == [u \in {} |-> NoDoc]
Held(c) == {u \in DOMAIN c : c[u] # NoDoc}

-----------------------------------------------------------------------------
(* Documents (crawl_seed.py). *)

SourceOf(o) == [key |-> o.key, at |-> o.at, priority |-> o.priority, category |-> o.category]

\* What the rollups of a set of sources are.
Priority(S)   == Min({s.priority : s \in S})
Categories(S) == {s.category : s \in S}

NewDoc(o) ==
    [enabled |-> o.enabled, sources |-> {SourceOf(o)}, priority |-> o.priority,
     categories |-> {o.category}, discovered |-> o.at, updated |-> o.at]

\* validate_seed_document: one source per key, and the rollups they imply.
Valid(doc) ==
    /\ Cardinality(doc.sources) \in 1..MaxSources
    /\ \A s, t \in doc.sources : s.key = t.key => s = t
    /\ doc.priority = Priority(doc.sources)
    /\ doc.categories = Categories(doc.sources)
    /\ doc.updated >= doc.discovered

\* The collection's validator sees only the shape.
ValidatorAccepts(doc) == Cardinality(doc.sources) \in 1..MaxSources

\* The stored document with other sources, its rollups recomputed.
Rolled(old, new, sources) ==
    [enabled |-> old.enabled, sources |-> sources,
     priority |-> Priority(sources), categories |-> Categories(sources),
     discovered |-> Min({old.discovered, new.discovered}),
     updated |-> Max({old.updated, new.updated})]

\* merge_seed_documents: a strictly newer source replaces the stored one of its
\* key, and the operator's enabled wins.
MergeDocs(old, new) ==
    IF old = NoDoc THEN new
    ELSE LET stored(k) == {s \in old.sources : s.key = k}
             newer == {s \in new.sources : \A t \in stored(s.key) : s.at > t.at}
             doc == Rolled(old, new, newer \cup
                        {s \in old.sources : \A t \in newer : t.key # s.key})
         IN IF Valid(old) /\ Valid(doc) THEN doc ELSE Refused

FaultyPipeline(old, new) ==
    IF old = NoDoc THEN new
    ELSE LET kept == {s \in old.sources : \A t \in new.sources : t.key # s.key}
             doc == [Rolled(old, new, kept \cup new.sources) EXCEPT !.enabled = new.enabled]
         IN IF ValidatorAccepts(doc) THEN doc ELSE Refused

FaultyStampedPipeline(old, new) ==
    IF old = NoDoc THEN new
    ELSE LET doc == MergeDocs(old, new)
         IN IF doc # Refused THEN [doc EXCEPT !.updated = old.updated + 1] ELSE Refused

\* mongo_merge_pipeline under the validator: it keeps the stored sources whose
\* key is not incoming or that are as new, and adds the incoming ones that no
\* stored source of their key is as new as.
Pipeline(old, new) ==
    IF old = NoDoc THEN new
    ELSE LET asNew(s, t) == s.key = t.key /\ s.at >= t.at
             kept == {s \in old.sources :
                        \/ \A t \in new.sources : t.key # s.key
                        \/ \E t \in new.sources : asNew(s, t)}
             added == {t \in new.sources : ~\E s \in old.sources : asNew(s, t)}
             doc == Rolled(old, new, kept \cup added)
         IN IF ValidatorAccepts(doc) THEN doc ELSE Refused

\* The pending documents of an import after each of its rows, merged by URL.
MergedRows(rows) ==
    LET docs[k \in 0..Len(rows)] ==
            IF k = 0 THEN Empty
            ELSE [docs[k - 1] EXCEPT ![rows[k].id] = MergeDocs(@, NewDoc(rows[k]))]
    IN docs

Documents(rows) == MergedRows(rows)[Len(rows)]

\* Batches of documents in the order they were found, each sorted by _id.
Batches(rows, size) ==
    LET place(u) == Min({k \in 1..Len(rows) : rows[k].id = u})
        found == Ordered({rows[k].id : k \in 1..Len(rows)},
                         LAMBDA u, v : place(u) < place(v))
        docs == Documents(rows)
        batch(b) == Ordered(ToSet(SubSeq(found, (b - 1) * size + 1, Min({b * size, Len(found)}))),
                            LAMBDA u, v : u < v)
    IN [b \in 1..((Len(found) + size - 1) \div size) |->
            [k \in 1..Len(batch(b)) |-> [id |-> batch(b)[k], doc |-> docs[batch(b)[k]]]]]

\* A document with the fields of the schema.
IsDoc(doc) ==
    /\ doc = [enabled |-> doc.enabled, sources |-> doc.sources, priority |-> doc.priority,
              categories |-> doc.categories, discovered |-> doc.discovered,
              updated |-> doc.updated]
    /\ \A s \in doc.sources : s.at \in Int
    /\ doc.discovered \in Int /\ doc.updated \in Int

\* Rows that no merge raises on.  A program that meets others ends before it
\* writes anything.
Mergeable(rows) ==
    /\ Len(rows) \in Nat
    /\ \A k \in 1..Len(rows) :
          rows[k].id \in Id /\ rows[k].at \in Int /\ rows[k].priority \in Int
    /\ \A k \in 0..Len(rows) : \A u \in Id : MergedRows(rows)[k][u] # Refused

ASSUME RowsAssumption == Mergeable(Baseline) /\ \A i \in Importer : Mergeable(Rows[i])

\* Only a collection with the V1 validator has just valid documents for certain.
ASSUME InitialAssumption ==
    \A m \in Initial :
        /\ m[1] \in {"absent", "loose", "strict"} /\ m[2] = [u \in Id |-> m[2][u]]
        /\ \A u \in Held(m[2]) : /\ m[1] # "absent" /\ IsDoc(m[2][u])
                                 /\ m[1] = "strict" => Valid(m[2][u])

Plan     == [i \in Importer |-> Batches(Rows[i], BatchSize[i])]
BasePlan == Batches(Baseline, Cardinality(Id))

-----------------------------------------------------------------------------
(* An import: ensure_crawl_seeds_collection, then the bulk writes. *)

IdleJob == [pc |-> "idle", count |-> 0, cursor |-> {}, checked |-> 0,
            batches |-> <<>>, errors |-> 0, replaced |-> FALSE, runs |-> 0]

Stop(i, pc) == job' = [job EXCEPT ![i].pc = pc, ![i].batches = <<>>, ![i].cursor = {}]
Goto(i, pc) == job' = [job EXCEPT ![i].pc = pc]

StartImport(i) ==
    /\ job[i].pc \in {"idle", "done", "failed"}
    /\ job[i].runs < MaxRuns
    /\ job' = [job EXCEPT ![i] = [IdleJob EXCEPT !.pc = "list", !.runs = job[i].runs + 1]]
    /\ UNCHANGED <<mode, catalog, stage, rebuild, toggles, faults>>

ListCollections(i) ==
    /\ job[i].pc = "list"
    /\ Goto(i, IF mode = "absent" THEN "create" ELSE "count")
    /\ UNCHANGED <<mode, catalog, stage, rebuild, toggles, faults>>

Ready(i) == [job[i] EXCEPT !.pc = "write", !.batches = Plan[i]]

\* create_collection raises when another program was faster.
CreateCollection(i) ==
    /\ job[i].pc = "create"
    /\ \/ /\ mode = "absent"
          /\ mode' = "strict"
          /\ job' = [job EXCEPT ![i] = Ready(i)]
       \/ /\ mode # "absent"
          /\ Stop(i, "failed")
          /\ UNCHANGED mode
    /\ UNCHANGED <<catalog, stage, rebuild, toggles, faults>>

CountBefore(i) ==
    /\ job[i].pc = "count"
    /\ LET n == Cardinality(Held(catalog))
       IN job' = [job EXCEPT ![i].count = n, ![i].cursor = Held(catalog), ![i].checked = 0,
                             ![i].pc = IF n = 0 THEN "tighten" ELSE "check"]
    /\ UNCHANGED <<mode, catalog, stage, rebuild, toggles, faults>>

\* The cursor of the preflight: each document is validated when it is read.
CheckNext(i) ==
    /\ job[i].pc = "check"
    /\ LET left == job[i].cursor \cap Held(catalog)
       IN IF left = {} THEN Goto(i, "recount")
          ELSE LET u == Min(left)
               IN IF Valid(catalog[u])
                  THEN job' = [job EXCEPT ![i].cursor = left \ {u}, ![i].checked = @ + 1]
                  ELSE Stop(i, "failed")
    /\ UNCHANGED <<mode, catalog, stage, rebuild, toggles, faults>>

CountAfter(i) ==
    /\ job[i].pc = "recount"
    /\ IF job[i].checked = job[i].count /\ Cardinality(Held(catalog)) = job[i].count
       THEN Goto(i, "tighten")
       ELSE Stop(i, "failed")
    /\ UNCHANGED <<mode, catalog, stage, rebuild, toggles, faults>>

Tighten(i) ==
    /\ job[i].pc = "tighten"
    /\ mode' = "strict"
    /\ job' = [job EXCEPT ![i] = Ready(i)]
    /\ UNCHANGED <<catalog, stage, rebuild, toggles, faults>>

\* What is left to write after the first operation of a batch.
AfterOne(b) == IF Len(Head(b)) = 1 THEN Tail(b) ELSE <<Tail(Head(b))>> \o Tail(b)

\* One operation of the ordered bulk write.  A refused document ends its batch
\* with a BulkWriteError; the Reddit importer counts it and goes on.
WriteOne(i) ==
    /\ job[i].pc = "write"
    /\ job[i].batches # <<>>
    /\ LET op == Head(Head(job[i].batches))
           doc == Pipeline(catalog[op.id], op.doc)
       IN IF doc # Refused
          THEN /\ catalog' = [catalog EXCEPT ![op.id] = doc]
               /\ job' = [job EXCEPT ![i].batches = AfterOne(@)]
          ELSE /\ IF i \in GoesOn
                  THEN job' = [job EXCEPT ![i].batches = Tail(@), ![i].errors = @ + 1]
                  ELSE Stop(i, "failed")
               /\ UNCHANGED catalog
    /\ UNCHANGED <<mode, stage, rebuild, toggles, faults>>

\* The connection fails: the operation has been applied, or not, and the
\* program ends with exit code 2.
WriteFails(i) ==
    /\ job[i].pc = "write"
    /\ job[i].batches # <<>>
    /\ faults < MaxFaults
    /\ faults' = faults + 1
    /\ Stop(i, "failed")
    /\ LET op == Head(Head(job[i].batches))
           doc == Pipeline(catalog[op.id], op.doc)
       IN \/ UNCHANGED catalog
          \/ doc # Refused /\ catalog' = [catalog EXCEPT ![op.id] = doc]
    /\ UNCHANGED <<mode, stage, rebuild, toggles>>

\* The exit code is 0 only when no write was refused.
EndImport(i) ==
    /\ job[i].pc = "write"
    /\ job[i].batches = <<>>
    /\ Stop(i, IF job[i].errors = 0 THEN "done" ELSE "failed")
    /\ UNCHANGED <<mode, catalog, stage, rebuild, toggles, faults>>

Import(i) ==
    \/ ListCollections(i) \/ CreateCollection(i) \/ CountBefore(i) \/ CheckNext(i)
    \/ CountAfter(i) \/ Tighten(i) \/ WriteOne(i) \/ EndImport(i)

-----------------------------------------------------------------------------
(* rebuild_database: stage, verify, rename over the catalog. *)

Staged == Documents(Baseline)

RebuildStart ==
    /\ rebuild.pc = "off"
    /\ stage' = Empty
    /\ rebuild' = [pc |-> "write", batches |-> BasePlan]
    /\ UNCHANGED <<mode, catalog, job, toggles, faults>>

RebuildWrite ==
    /\ rebuild.pc = "write"
    /\ IF rebuild.batches = <<>>
       THEN rebuild' = [rebuild EXCEPT !.pc = "verify"] /\ UNCHANGED stage
       ELSE LET op == Head(Head(rebuild.batches))
            IN /\ stage' = [stage EXCEPT ![op.id] = Pipeline(@, op.doc)]
               /\ rebuild' = [rebuild EXCEPT !.batches = AfterOne(@)]
    /\ UNCHANGED <<mode, catalog, job, toggles, faults>>

\* The staged ids are exactly the baseline's, and the server's full validation
\* passes.
RebuildVerify ==
    /\ rebuild.pc = "verify"
    /\ rebuild' = [rebuild EXCEPT !.pc = IF Held(stage) = Held(Staged) THEN "rename" ELSE "drop"]
    /\ UNCHANGED <<mode, catalog, stage, job, toggles, faults>>

\* rename with dropTarget is one atomic change.
Replace ==
    /\ catalog' = stage
    /\ mode' = "strict"
    /\ stage' = NoStage
    /\ job' = [i \in Importer |-> [job[i] EXCEPT !.replaced = TRUE]]

RebuildRename ==
    /\ rebuild.pc = "rename"
    /\ Replace
    /\ rebuild' = [pc |-> "done", batches |-> <<>>]
    /\ UNCHANGED <<toggles, faults>>

\* A call raises and the finally clause will drop the stage; a rename whose
\* answer was lost has happened.
RebuildFails ==
    /\ rebuild.pc \in {"write", "verify", "rename"}
    /\ faults < MaxFaults
    /\ faults' = faults + 1
    /\ rebuild' = [pc |-> "drop", batches |-> <<>>]
    /\ \/ UNCHANGED <<mode, catalog, stage, job>>
       \/ rebuild.pc = "rename" /\ Replace
    /\ UNCHANGED toggles

RebuildDrop ==
    /\ rebuild.pc = "drop"
    /\ stage' = NoStage
    /\ rebuild' = [rebuild EXCEPT !.pc = "failed"]
    /\ UNCHANGED <<mode, catalog, job, toggles, faults>>

Rebuild == RebuildWrite \/ RebuildVerify \/ RebuildRename \/ RebuildDrop

-----------------------------------------------------------------------------
\* The operator enables or disables one record.
Toggle(u) ==
    /\ u \in Held(catalog)
    /\ toggles < MaxToggles
    /\ toggles' = toggles + 1
    /\ catalog' = [catalog EXCEPT ![u].enabled = ~@]
    /\ UNCHANGED <<mode, stage, job, rebuild, faults>>

Init ==
    /\ \E m \in Initial : mode = m[1] /\ catalog = m[2]
    /\ stage = NoStage
    /\ job = [i \in Importer |-> IdleJob]
    /\ rebuild = [pc |-> "off", batches |-> <<>>]
    /\ toggles = 0 /\ faults = 0

Next ==
    \/ \E i \in Importer : StartImport(i) \/ Import(i) \/ WriteFails(i)
    \/ RebuildStart \/ Rebuild \/ RebuildFails
    \/ \E u \in Id : Toggle(u)

Spec == Init /\ [][Next]_vars

-----------------------------------------------------------------------------
(* Properties. *)

Offered == {Documents(Rows[i])[u] : i \in Importer, u \in Id} \ {NoDoc}

\* The pipeline that runs in the server and the merge in Python agree on every
\* document the catalog reaches: the same result, or both refuse.
PipelineIsMerge ==
    mode = "strict" =>
        \A u \in Held(catalog) : \A d \in Offered :
            Pipeline(catalog[u], d) = MergeDocs(catalog[u], d)

\* Importing what was imported before changes nothing.
ReplayIsNoop ==
    mode = "strict" =>
        \A u \in Held(catalog) : \A d \in Offered :
            LET once == Pipeline(catalog[u], d)
            IN once # Refused => Pipeline(once, d) = once

\* Every document of a collection with the V1 validator is valid, its rollups
\* included, although the validator checks none of that.
CatalogValid == mode = "strict" => \A u \in Held(catalog) : Valid(catalog[u])

\* No step but the rename of a rebuild loses a source or goes back to an older
\* observation of it, whatever importers run together.
KeepsProvenance ==
        rebuild'.pc = rebuild.pc =>
        \A u \in Held(catalog) : \A s \in catalog[u].sources :
            \E t \in catalog'[u].sources : t.key = s.key /\ t.at >= s.at

\* A record that the operator disabled stays disabled through every import.
KeepsDisabled ==
        (rebuild'.pc = rebuild.pc /\ toggles' = toggles) =>
        \A u \in Held(catalog) : catalog'[u].enabled = catalog[u].enabled

\* A nonempty collection that is not V1-compatible is left as it is.
LeavesLegacy ==
        (mode = "loose" /\ \E u \in Held(catalog) : ~Valid(catalog[u])) =>
        \/ rebuild'.pc # rebuild.pc \/ toggles' # toggles
        \/ catalog' = catalog /\ mode' = mode

\* An import that ends well has left every observation of it in the catalog, or
\* a newer one of the same source, unless a rebuild came in between.
ImportComplete ==
    \A i \in Importer : job[i].pc = "done" /\ ~job[i].replaced =>
        \A k \in 1..Len(Rows[i]) :
            LET o == Rows[i][k]
            IN \E s \in catalog[o.id].sources : s.key = o.key /\ s.at >= o.at

\* The rename puts the whole baseline in place, never a part of it.
ReplacesWhole ==
        (rebuild.pc = "rename" /\ rebuild'.pc # "rename") => catalog' \in {catalog, Staged}
=============================================================================

----------------------------- MODULE DmozImport -----------------------------
(***************************************************************************)
(* The legacy DMOZ adapter (services/dmoz-importer/import.py): records of  *)
(* an RDF dump are filtered, their URLs canonicalized, and the seeds       *)
(* inserted in batches, the first record of an identity winning.           *)
(*                                                                         *)
(* A URL is a record of its parts.  A path is a sequence of "/", plain     *)
(* letters and escapes; a query is a sequence of parameter keys.           *)
(***************************************************************************)
EXTENDS Integers, Sequences, SequencesExt, FiniteSets, TLC

CONSTANTS
    Dump,           \* the dumps the instance reads: sequences of records
    BatchSize, SampleSize, Limit,   \* --batch-size, --health-sample-size, --limit
    MaxImports,     \* bound: imports one after the other
    MaxFaults       \* bound: writes that fail

VARIABLES
    dump, at,       \* the input, and how many records were read
    stats,          \* ImportStats
    operations,     \* the documents of the pending batch
    sample,         \* health_sample
    collection,     \* _id -> document
    pc, imports, faults

vars == <<dump, at, stats, operations, sample, collection, pc, imports, faults>>

-----------------------------------------------------------------------------
(* URLs. *)

None == "none"

\* decode_unreserved and quote: escapes of unreserved characters are decoded,
\* the others written in upper case, and a blank is escaped.
DecodeUnreserved(path) ==
    LET decoded == [x \in {"%61", "%2f", " "} |->
                       CASE x = "%61" -> "a" [] x = "%2f" -> "%2F" [] x = " " -> "%20"]
    IN [j \in DOMAIN path |-> IF path[j] \in DOMAIN decoded THEN decoded[path[j]] ELSE path[j]]

StripSlashes(path) ==
    LET kept == {j \in DOMAIN path : path[j] # "/"}
    IN IF kept = {} THEN <<>> ELSE SubSeq(path, 1, Max(kept))

StripTracking(query) == SelectSeq(query, LAMBDA k : k \notin {"utm_x", "ref", "UTM_X"})

\* The port is read with a conversion that raises when it is out of range.
Raises(url) == url.scheme \in {"http", "https"} /\ url.host # None /\ url.port = "99999"

\* canonicalize_url; www is the number of leading "www." labels.
CanonicalizeUrl(url) ==
    IF url.scheme \notin {"http", "https"} \/ url.host = None THEN <<>>
    ELSE LET path == DecodeUnreserved(IF url.path = <<>> THEN <<"/">> ELSE url.path)
         IN <<[scheme |-> "https",
               www    |-> IF url.www > 0 THEN url.www - 1 ELSE 0,
               host   |-> url.host, port |-> url.port,
               path   |-> IF path = <<"/">> THEN path ELSE StripSlashes(path),
               query  |-> StripTracking(url.query)]>>

\* normalized_url: no scheme, and no slash at the end when the path ends it.
NormalizedUrl(c) ==
    <<c.www, c.host, c.port,
      IF c.query = <<>> THEN StripSlashes(c.path) ELSE c.path, c.query>>

-----------------------------------------------------------------------------
(* Categories: topics are sequences of path elements. *)

IncludePrefixes == {<<"Arts">>, <<"Recreation", "Photography">>}
ExcludePrefixes == {<<"Adult">>, <<"Regional">>}
CategoryMap == <<[prefix |-> <<"Recreation", "Photography">>, category |-> "Creative"],
                 [prefix |-> <<"Arts">>, category |-> "Creative"]>>

CategoryAllowed(topic) ==
    /\ \A p \in ExcludePrefixes : ~IsPrefix(p, topic)
    /\ \E p \in IncludePrefixes : IsPrefix(p, topic)

MapCategory(topic) ==
    LET hits == SelectSeq(CategoryMap, LAMBDA m : IsPrefix(m.prefix, topic))
    IN IF hits = <<>> THEN "General" ELSE Head(hits).category

\* should_keep: the counter of the first check a record fails, or "kept".
Verdict(r) ==
    IF r.topic = <<>> THEN "missing_topic"
    ELSE IF ~CategoryAllowed(r.topic) THEN "excluded_category"
    ELSE IF ~r.title THEN "missing_title"
    ELSE IF CanonicalizeUrl(r.url) = <<>> THEN "invalid_url"
    ELSE "kept"

\* Only a record that reaches the URL check can raise there.
Aborts(r) == r.topic # <<>> /\ CategoryAllowed(r.topic) /\ r.title /\ Raises(r.url)

\* build_seed_document; n tells records of the same URL apart.
SeedDocument(r, n) ==
    LET c == CanonicalizeUrl(r.url)[1]
    IN [id |-> NormalizedUrl(c), url |-> c, category |-> MapCategory(r.topic), from |-> n]

-----------------------------------------------------------------------------
Counters == {"processed", "kept", "skipped", "imported", "duplicates", "write_errors",
             "missing_topic", "excluded_category", "missing_title", "invalid_url"}
NoStats == [c \in Counters |-> 0]

\* One upsert of make_operation; the faulty one sets the document every time.
FaultyUpsert(db, doc) == (doc.id :> doc) @@ db
Upsert(db, doc)       == IF doc.id \in DOMAIN db THEN db ELSE db @@ (doc.id :> doc)

\* update_health_sample: reservoir sampling, kept counted already.
UpdateHealthSample(url, kept) ==
    IF SampleSize = 0 THEN UNCHANGED sample
    ELSE IF Len(sample) < SampleSize THEN sample' = Append(sample, url)
    ELSE \E index \in 0..(kept - 1) :
             sample' = IF index < SampleSize THEN [sample EXCEPT ![index + 1] = url] ELSE sample

\* One turn of main's loop over the records, up to its flush.
ReadRecord ==
    /\ pc = "read" /\ at < Len(dump) /\ ~Aborts(dump[at + 1])
    /\ at' = at + 1
    /\ LET r == dump[at']
           v == Verdict(r)
           group == IF v = "kept" THEN {"kept"} ELSE {"skipped", v}
       IN /\ stats' = [c \in Counters |->
                          stats[c] + IF c \in group \cup {"processed"} THEN 1 ELSE 0]
          /\ IF v = "kept"
             THEN /\ operations' = Append(operations, SeedDocument(r, <<imports, at'>>))
                  /\ UpdateHealthSample(CanonicalizeUrl(r.url)[1], stats'.kept)
             ELSE UNCHANGED <<operations, sample>>
    /\ pc' = "flush"
    /\ UNCHANGED <<dump, collection, imports, faults>>

\* The collection after all operations but those lost.
Without(lost) ==
    FoldLeft(Upsert, collection, SelectSeq(operations, LAMBDA d : d \notin lost))

\* flush_operations: one unordered bulk, counted by its result; operations that
\* MongoDB refuses are counted as write errors, and the import goes on.
FlushOperations ==
    \E failed \in SUBSET ToSet(operations) :
        LET n        == Cardinality(failed)
            upserted == Cardinality(DOMAIN Without(failed)) - Cardinality(DOMAIN collection)
        IN  /\ faults + n <= MaxFaults
            /\ faults' = faults + n
            /\ collection' = Without(failed)
            /\ stats' = [stats EXCEPT !.imported = @ + upserted,
                                      !.duplicates = @ + Len(operations) - n - upserted,
                                      !.write_errors = @ + n]

\* The flushed batch is kept.
FaultyEndTurn ==
    /\ pc = "flush"
    /\ IF Len(operations) >= BatchSize THEN FlushOperations
       ELSE UNCHANGED <<collection, stats, faults>>
    /\ pc' = IF Limit > 0 /\ stats.processed >= Limit THEN "final" ELSE "read"
    /\ UNCHANGED <<dump, at, operations, sample, imports>>

EndTurn ==
    /\ pc = "flush"
    /\ IF Len(operations) >= BatchSize
       THEN FlushOperations /\ operations' = <<>>
       ELSE UNCHANGED <<collection, stats, operations, faults>>
    /\ pc' = IF Limit > 0 /\ stats.processed >= Limit THEN "final" ELSE "read"
    /\ UNCHANGED <<dump, at, sample, imports>>

\* The read of the port raises: the process ends, the pending batch with it.
Abort ==
    /\ pc = "read" /\ at < Len(dump) /\ Aborts(dump[at + 1])
    /\ pc' = "aborted"
    /\ UNCHANGED <<dump, at, stats, operations, sample, collection, imports, faults>>

\* Any other error of a bulk, which may have been carried out in part, ends the
\* process too.
FlushRaises ==
    /\ \/ pc = "flush" /\ Len(operations) >= BatchSize
       \/ pc = "final" /\ operations # <<>>
    /\ faults < MaxFaults /\ faults' = faults + 1
    /\ \E lost \in SUBSET ToSet(operations) : collection' = Without(lost)
    /\ pc' = "aborted"
    /\ UNCHANGED <<dump, at, stats, operations, sample, imports>>

EndOfDump ==
    /\ pc = "read" /\ at = Len(dump)
    /\ pc' = "final"
    /\ UNCHANGED <<dump, at, stats, operations, sample, collection, imports, faults>>

FinalFlush ==
    /\ pc = "final"
    /\ FlushOperations
    /\ pc' = "done"
    /\ UNCHANGED <<dump, at, operations, sample, imports>>

\* The operator imports the same dump again.
ImportAgain ==
    /\ pc \in {"done", "aborted"} /\ imports < MaxImports
    /\ imports' = imports + 1
    /\ at' = 0 /\ stats' = NoStats /\ operations' = <<>> /\ sample' = <<>> /\ pc' = "read"
    /\ UNCHANGED <<dump, collection, faults>>

Init ==
    /\ dump \in Dump /\ at = 0 /\ stats = NoStats /\ operations = <<>> /\ sample = <<>>
    /\ collection = <<>> /\ pc = "read" /\ imports = 1 /\ faults = 0

Next == ReadRecord \/ EndTurn \/ Abort \/ FlushRaises \/ EndOfDump \/ FinalFlush \/ ImportAgain

Spec == Init /\ [][Next]_vars

-----------------------------------------------------------------------------
(* Properties. *)

\* Every record read is counted once, and every document kept that is not
\* pending is an insertion, a duplicate or a write error, also when one batch
\* holds an identity twice or fails in part.
StatsAddUp ==
    /\ stats.processed = stats.kept + stats.skipped
    /\ stats.skipped = stats.missing_topic + stats.excluded_category
                         + stats.missing_title + stats.invalid_url
    /\ stats.imported + stats.duplicates + stats.write_errors
          + (IF pc = "done" THEN 0 ELSE Len(operations)) = stats.kept

\* The identities of the records kept so far.
KeptIds == {SeedDocument(dump[j], 0).id : j \in {n \in 1..at : Verdict(dump[n]) = "kept"}}

\* An import that ends counts every identity it has not stored as a write error:
\* when its exit status is 0, each kept record's is in the collection.
KeptIsImported ==
    pc = "done" => Cardinality(KeptIds \ DOMAIN collection) <= stats.write_errors

\* A stored URL imported again finds its own document: canonicalizing is stable
\* but for a second "www." label and a query after an empty path.
StoredUrlFindsItself ==
    \A id \in DOMAIN collection :
        LET u == collection[id].url
        IN u.www = 0 /\ (u.path # <<>> \/ u.query = <<>>) =>
               NormalizedUrl(CanonicalizeUrl(u)[1]) = id

\* The health sample is what reservoir sampling promises: as many URLs as it may
\* hold, each of a record kept so far.
SampleIsOfKept ==
    /\ DOMAIN sample = 1..Min({SampleSize, stats.kept})
    /\ \A j \in DOMAIN sample : \E n \in 1..at :
          Verdict(dump[n]) = "kept" /\ CanonicalizeUrl(dump[n].url)[1] = sample[j]

\* The first record of an identity wins for good, over every later batch and
\* import.
FirstRecordWins ==
    \A id \in DOMAIN collection :
        id \in DOMAIN collection' /\ collection'[id] = collection[id]
=============================================================================

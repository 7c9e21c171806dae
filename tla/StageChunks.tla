----------------------------- MODULE StageChunks -----------------------------
(***************************************************************************)
(* The chunks of a stage.  The output of a job is cut into chunks, each    *)
(* checked alone; the digest verifier does both, for every output profile, *)
(* and makes changes that must be refused.                                 *)
(***************************************************************************)
EXTENDS StageOutput

CONSTANTS
    Profiles,           \* the data of the output profiles
    Values, MaxEdits,   \* what an edit may put into a field; bound on the edits
    Chunk,              \* MAX_NON_BLOB_CHUNK_RECORDS
    MaxManifest         \* MAX_IMAGE_MANIFEST_BYTES, of which a key takes one

VARIABLES data, stored, edits, cut, unsent, staged, refused

vars == <<data, stored, edits, cut, unsent, staged, refused>>

-----------------------------------------------------------------------------
(* A chunk alone. *)

\* The records of a list come in the order of their keys, each once.
OrderError(keys) ==
    FirstOf([k \in DOMAIN keys |->
        IF k = 1 \/ Number(keys[k]) > Number(keys[k - 1]) THEN "none"
        ELSE IF keys[k] = keys[k - 1] THEN "DUPLICATE_CHUNK_RECORD" ELSE "CHUNK_ORDER"])

Keys(records) == [k \in DOMAIN records |-> records[k].url]
Ids(records) == [k \in DOMAIN records |-> records[k].target.id]
TargetErrors(records) == FirstOf([k \in DOMAIN records |-> TargetError(records[k].target)])

SizeError(ordinal, ordinals, records, most, class) ==
    Reject(ordinal >= ordinals \/ Len(records) \notin 1..most, class)

PageFieldsError(page) ==
    FirstOf(<< UrlError(page.normalized), ContentTypeError(page.type),
               Reject(page.status \notin 100..399, "STATUS_CODE_RANGE"),
               Reject(~page.rendered /\ (page.rule # 0 \/ page.digest # <<>>), "INVALID_RENDER_RELATION"),
               IF page.rendered THEN FirstOf(<<RuleError(page.rule), DigestError(page.digest)>>)
               ELSE "none",
               Reject(page.publication = <<>>, "INVALID_PUBLICATION_ID") >>)

ManifestError(m) ==
    FirstOf(<< Reject(m.count > MaxImages, "OUTPUT_COUNT_LIMIT"),
               Reject(m.padding + Len(m.keys) > MaxManifest, "IMAGE_MANIFEST_LIMIT"),
               Reject(\/ Len(m.keys) # m.count \/ m.padding > 0
                      \/ \E k \in DOMAIN m.keys :
                             m.keys[k] # ImageKey(m.publication, m.page, m.keys[k][3]),
                      "INVALID_IMAGE_MANIFEST"),
               OrderError([k \in DOMAIN m.keys |-> m.keys[k][3]]) >>)

ChunkKinds == <<"page_fields", "html", "original_html", "outlinks", "discoveries", "aliases", "images",
            "image_manifest">>

\* validate_stage_chunk.
ChunkError(kind, ordinal, records) ==
    CASE kind \notin ToSet(ChunkKinds) -> "UNKNOWN_CHUNK_KIND"
      [] kind \in {"page_fields", "html", "original_html", "image_manifest"}
         /\ (ordinal # 0 \/ Len(records) # 1) -> "INVALID_CHUNK_SHAPE"
      [] kind = "page_fields" -> PageFieldsError(records[1])
      [] kind \in {"html", "original_html"} -> Reject(records[1] > MaxBlob, "PAGE_BLOB_LIMIT")
      [] kind = "image_manifest" -> ManifestError(records[1])
      [] kind = "outlinks" ->
           FirstOf(<< SizeError(ordinal, MaxOutlinks \div Chunk, records, Chunk,
                                "CHUNK_RECORD_COUNT_LIMIT"),
                      FirstOf([k \in DOMAIN records |-> UrlError(records[k])]),
                      OrderError(records) >>)
      [] kind = "discoveries" ->
           FirstOf(<< SizeError(ordinal, MaxDiscoveries \div Chunk, records, Chunk,
                                "CHUNK_RECORD_COUNT_LIMIT"),
                      TargetErrors(records), OrderError(Ids(records)) >>)
      [] kind = "aliases" ->
           FirstOf(<< SizeError(ordinal, 1, records, MaxAliases, "ALIAS_COUNT_LIMIT"),
                      TargetErrors(records),
                      Reject(\E k \in DOMAIN records : records[k].depth # records[1].depth,
                             "INVALID_ALIAS_DEPTH"),
                      OrderError(Ids(records)) >>)
      [] kind = "images" ->
           FirstOf(<< SizeError(ordinal, 1, records, MaxImages, "CHUNK_RECORD_COUNT_LIMIT"),
                      FirstOf([k \in DOMAIN records |->
                          FirstOf(<<UrlError(records[k].url),
                                    Reject(records[k].alt > MaxAlt, "IMAGE_ALT_LIMIT")>>)]),
                      OrderError(Keys(records)) >>)

-----------------------------------------------------------------------------
(* The chunks of an output. *)

Parts(s) ==
    [k \in 1..((Len(s) + Chunk - 1) \div Chunk) |->
        SubSeq(s, Chunk * (k - 1) + 1, IF Chunk * k < Len(s) THEN Chunk * k ELSE Len(s))]

\* stage_chunks_for_output: for each kind its chunks.
ChunksOf(records, publication) ==
    [page_fields |-> <<<< [publication |-> publication]
                          @@ Restrict(records.page, DOMAIN records.page \ {"html", "original"}) >>>>,
     html |-> <<<<records.page.html>>>>,
     original_html |-> <<<<records.page.original>>>>,
     outlinks |-> Parts(records.outlinks),
     discoveries |-> Parts(records.discoveries),
     aliases |-> <<records.aliases>>,
     images |-> IF records.images = <<>> THEN <<>> ELSE <<records.images>>,
     image_manifest |-> <<<<Manifest(records, publication)>>>>]

\* The chunks in the order in which they are sent.
Plan(d) ==
    LET chunks == ChunksOf(Records(d), Publication(d))
    IN FlattenSeq([k \in DOMAIN ChunkKinds |->
           [j \in DOMAIN chunks[ChunkKinds[k]] |->
               [kind |-> ChunkKinds[k], ordinal |-> j - 1, records |-> chunks[ChunkKinds[k]][j]]]])

-----------------------------------------------------------------------------
(* Changes that the verifier makes, each with the class it is refused with. *)

TranscriptMutations(d) ==
    LET c == d.context
        r == c.requests
        n == Len(r)
        C(context) == [d EXCEPT !.context = context]
        R(k, request) == [d EXCEPT !.context.requests[k] = request]
    IN {C([c EXCEPT !.requests = RemoveAt(r, k)]) : k \in {1, 3, n}}
       \cup {R(3, [r[3] EXCEPT !.count = v]) : v \in {r[2].count, r[3].count + 1, -4}}
       \cup {R(n, [r[n] EXCEPT !.ordinal = v]) : v \in {r[n - 1].ordinal, MaxOrdinal + 1, -7}}
       \cup {R(1, [r[1] EXCEPT !.ordinal = r[1].count - 1])}
       \cup {C([c EXCEPT !.baseline = v]) : v \in {c.generation, -1, -3}}
       \cup {C([c EXCEPT !.generation = v]) : v \in {MaxStarts + 1, -7}}

\* A frozen transcript of another shape, lease, state or time.
WitnessMutations(d) ==
    LET w == Witness(d)
    IN {[w EXCEPT ![10] = @ \o <<1>>], [w EXCEPT ![13] = <<1>>],
        [w EXCEPT ![1] = Text(Head(@) - 1)]}

PageChanges == [
    html_one_over              |-> <<[html |-> MaxBlob + 1], "PAGE_BLOB_LIMIT">>,
    original_html_one_over     |-> <<[original |-> MaxBlob + 1], "PAGE_BLOB_LIMIT">>,
    content_type_empty         |-> <<[type |-> 0], "INVALID_CONTENT_TYPE">>,
    content_type_one_over      |-> <<[type |-> MaxType + 1], "CONTENT_TYPE_LIMIT">>,
    render_false_with_original |-> <<[original |-> 1], "INVALID_RENDER_RELATION">>,
    render_false_with_rule     |-> <<[rule |-> 1], "INVALID_RENDER_RELATION">>,
    render_false_with_digest   |-> <<[digest |-> <<1>>], "INVALID_RENDER_RELATION">>,
    status_below               |-> <<[status |-> 99], "STATUS_CODE_RANGE">>,
    status_above               |-> <<[status |-> 400], "STATUS_CODE_RANGE">>]

RenderedChanges == [
    render_true_without_original |-> <<[original |-> 0], "INVALID_RENDER_RELATION">>,
    render_true_without_rule     |-> <<[rule |-> 0], "INVALID_RENDER_RELATION">>,
    render_true_rule_one_over    |-> <<[rule |-> MaxRule + 1], "RENDER_RULE_LIMIT">>,
    render_true_rule_control     |-> <<[rule |-> -1], "INVALID_RENDER_RELATION">>,
    render_true_bad_digest       |-> <<[digest |-> <<1, 1>>], "INVALID_RENDER_POLICY_DIGEST">>]

Urls(n) == [k \in 1..n |-> <<50, k>>]
Repeated(s, n) == [k \in 1..n |-> s[1]]

\* The changed lists with the class each is refused with; what an append needs.
ListMutations(d) ==
    { <<[d EXCEPT !.outlinks = Urls(MaxOutlinks + 1)], "OUTPUT_COUNT_LIMIT", TRUE>>,
      <<[d EXCEPT !.discoveries = Repeated(@, MaxDiscoveries + 1)], "OUTPUT_COUNT_LIMIT", TRUE>>,
      <<[d EXCEPT !.images = [k \in 1..(MaxImages + 1) |-> [url |-> <<50, k>>, alt |-> 0]]],
        "OUTPUT_COUNT_LIMIT", TRUE>>,
      <<[d EXCEPT !.outlinks = Append(@, @[1])], "DUPLICATE_OUTLINK", Len(d.outlinks) < MaxOutlinks>>,
      <<[d EXCEPT !.images = Append(@, @[1])], "DUPLICATE_IMAGE", Len(d.images) < MaxImages>>,
      <<[d EXCEPT !.discoveries = Append(@, @[1])], "DUPLICATE_DISCOVERY",
        Len(d.discoveries) < MaxDiscoveries>>,
      <<[d EXCEPT !.images[1].alt = MaxAlt + 1], "IMAGE_ALT_LIMIT", TRUE>>,
      <<[d EXCEPT !.outlinks = <<<<50, MaxPath + 1>>>>], "URL_TOO_LONG", TRUE>>,
      <<[d EXCEPT !.discoveries[1].group = <<>>,
                  !.decisions[d.discoveries[1].decision].group = <<>>], "GROUP_ID_LIMIT",
        d.discoveries[1].decision # d.sources[d.context.source].decision>>,
      <<[d EXCEPT !.targets["page"].id = @ \o <<1>>], "URL_IDENTITY_MISMATCH",
        d.sources[d.context.source].target = "page">> }

\* run_stage_mutation: a chunk alone, with the class it is refused with.
ChunkMutations(records, publication) ==
    { <<"generic", <<>>, "UNKNOWN_CHUNK_KIND">>,
      <<"outlinks", Urls(Chunk + 1), "CHUNK_RECORD_COUNT_LIMIT">>,
      <<"outlinks", <<>>, "CHUNK_RECORD_COUNT_LIMIT">>,
      <<"discoveries", Repeated(records.discoveries, Chunk + 1), "CHUNK_RECORD_COUNT_LIMIT">>,
      <<"aliases", Repeated(records.aliases, 2), "DUPLICATE_CHUNK_RECORD">>,
      <<"image_manifest",
        <<[Manifest(records, publication) EXCEPT !.count = 0, !.keys = <<>>, !.padding = MaxManifest + 1]>>,
        "IMAGE_MANIFEST_LIMIT">>,
      <<"html", <<MaxBlob + 1>>, "PAGE_BLOB_LIMIT">> }

-----------------------------------------------------------------------------
Init ==
    /\ data \in Profiles /\ stored = data
    /\ cut = FALSE /\ unsent = <<>> /\ staged = <<>> /\ refused = "none"
    /\ edits = 0

\* The data speaks of the targets that it has.
Closed(d) ==
    {d.page.normalized} \cup {d.context.requests[k].target : k \in DOMAIN d.context.requests}
        \cup {d.discoveries[k].target : k \in DOMAIN d.discoveries} \subseteq DOMAIN d.targets

Edit ==
    /\ edits < MaxEdits /\ ~cut
    /\ edits' = edits + 1
    /\ data' \in UNION {
           {[data EXCEPT !.ids = r] : r \in EditRecord(data.ids, Values)},
           {[data EXCEPT !.page = r] : r \in EditRecord(data.page, Values)},
           {[data EXCEPT !.context = r] : r \in EditRecord(data.context, Values)},
           {[data EXCEPT !.context.requests = s] : s \in EditEach(data.context.requests, Values)},
           {[data EXCEPT !.discoveries = s] : s \in EditEach(data.discoveries, Values)},
           {[data EXCEPT !.images = s] : s \in EditEach(data.images, Values)},
           {[data EXCEPT !.outlinks = Append(@, url)] : url \in Values["url"]} }
    /\ Closed(data')
    /\ UNCHANGED <<stored, cut, unsent, staged, refused>>

\* The chunks of an output that is good.
Cut ==
    /\ ~cut /\ OutputError(data) = "none"
    /\ cut' = TRUE /\ unsent' = Plan(data)
    /\ UNCHANGED <<data, stored, edits, staged, refused>>

\* The next chunk.
Stage ==
    /\ unsent # <<>> /\ refused = "none"
    /\ refused' = ChunkError(Head(unsent).kind, Head(unsent).ordinal, Head(unsent).records)
    /\ staged' = IF refused' = "none" THEN Append(staged, Head(unsent)) ELSE staged
    /\ unsent' = Tail(unsent)
    /\ UNCHANGED <<data, stored, edits, cut>>

Next == Edit \/ Cut \/ Stage

Spec == Init /\ [][Next]_vars

-----------------------------------------------------------------------------
(* Properties. *)

Good(d) == OutputError(d) = "none"

\* The records of one kind, put together again.
Of(kind) == FlattenSeq([k \in DOMAIN staged |-> IF staged[k].kind = kind THEN staged[k].records ELSE <<>>])

\* Whatever output is good can be staged: no chunk of it is refused by the
\* checks of a chunk, which know nothing of the others, and the chunks together
\* are the output, in its order and with nothing missing.
StagedIsOutput ==
    /\ refused = "none"
    /\ cut /\ unsent = <<>> =>
           Records(data) =
               [page |-> [html |-> Of("html")[1], original |-> Of("original_html")[1]]
                         @@ Restrict(Of("page_fields")[1], DOMAIN Of("page_fields")[1] \ {"publication"}),
                outlinks |-> Of("outlinks"), images |-> Of("images"),
                discoveries |-> Of("discoveries"), aliases |-> Of("aliases")]

\* A commit id names one lease, one interval of request starts and one output;
\* the publication enters the visible records, but never the output digest.
CommitBinds ==
    Good(data) /\ ~cut =>
        /\ Good(stored) /\ Commit(data) = Commit(stored) =>
               /\ data.ids.token = stored.ids.token /\ data.ids.fence = stored.ids.fence
               /\ data.context.baseline = stored.context.baseline
               /\ Len(data.context.requests) = Len(stored.context.requests)
               /\ Records(data) = Records(stored)
        /\ \A p \in {Publication(data), <<"alternate">>} :
               SemanticDigest(Records(data), Projection(Records(data), p)) = output_digest(Records(data))

\* What the verifier changes in a good output is refused with the class that its
\* cases expect.  A change to a transcript needs three requests and a lease that
\* is not the first, a change to a page one that was not rendered.
OutputChangesAreRefused ==
    LET d == data
        c == d.context
    IN Good(d) /\ ~cut =>
        /\ Len(c.requests) >= 3 /\ c.baseline > 0 =>
               /\ \A e \in TranscriptMutations(d) : TranscriptError(e) = "TRANSCRIPT_BINDING_MISMATCH"
               /\ \A e \in {[d EXCEPT !.context.generation = @ - 1], [d EXCEPT !.context.baseline = @ - 1]} :
                      CommitId(e, Publication(d)) # Commit(d)
        /\ \A w \in WitnessMutations(d) : WitnessError(w, d) = "TRANSCRIPT_BINDING_MISMATCH"
        /\ WitnessError(SubSeq(Witness(d), 1, 7), d) = "RESPONSE_ARITY"
        /\ ~d.page.rendered =>
               /\ \A m \in DOMAIN PageChanges :
                      OutputError([d EXCEPT !.page = PageChanges[m][1] @@ @]) = PageChanges[m][2]
               /\ \A m \in DOMAIN RenderedChanges :
                      OutputError([RenderedProfile(d) EXCEPT !.page = RenderedChanges[m][1] @@ @])
                          = RenderedChanges[m][2]
               /\ d.images # <<>> /\ d.outlinks # <<>> /\ d.discoveries # <<>> =>
                      \A m \in ListMutations(d) : m[3] => OutputError(m[1]) = m[2]
        /\ d.discoveries # <<>> =>
               \A m \in ChunkMutations(Records(d), Publication(d)) : ChunkError(m[1], 0, m[2]) = m[3]

\* All of them.
OutputSound == StagedIsOutput /\ CommitBinds /\ OutputChangesAreRefused
=============================================================================

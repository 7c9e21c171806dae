----------------------------- MODULE StageOutput -----------------------------
(***************************************************************************)
(* The output of a job, as the digest verifier computes it from the        *)
(* requests that a worker made and the page that it read: the transcript   *)
(* of the requests, the canonical records, the publication and commit ids, *)
(* and what a publication adds to the records.                             *)
(*                                                                         *)
(* Of a text of which only the length matters there is the length: pages,  *)
(* alternative texts, rule names (-1: one with a control character).  A    *)
(* decimal that is not canonical is a negative number.  What framing makes *)
(* unambiguous (WireIdentities) is a tuple.                                *)
(***************************************************************************)
EXTENDS WireIdentities, Functions, TLC

CONSTANTS
    MaxStarts, MaxOrdinal, MaxPath, MaxBlob, MaxCombined, MaxType, MaxRule, MaxAlt,
    MaxOutlinks, MaxDiscoveries, MaxImages, MaxAliases     \* the limits of the protocol

Reject(condition, class) == First(<< <<condition, class>> >>)

\* A URL whose path has more than MaxPath characters is too long.
UrlError(url) == Reject(url[2] > MaxPath, "URL_TOO_LONG")

-----------------------------------------------------------------------------
(* The transcript. *)

Document == <<2>>
Robots == <<1>>
Redirect == <<3>>

IntervalError(c) ==
    Reject(c.baseline \notin 0..MaxStarts \/ c.generation \notin 1..MaxStarts
           \/ c.baseline >= c.generation, "TRANSCRIPT_BINDING_MISMATCH")

\* The k-th request after those before it.
RequestError(k, d) ==
    LET c == d.context
        r == c.requests[k]
        before == IF k > 1 THEN c.requests[k - 1]
                  ELSE [count |-> c.baseline, ordinal |-> 0, started |-> 0]
        kinds == {c.requests[j].kind : j \in 1..(k - 1)}
    IN FirstOf(<<
        Reject(r.count \notin 1..MaxStarts \/ r.ordinal \notin 1..MaxOrdinal,
               "TRANSCRIPT_BINDING_MISMATCH"),
        Reject(r.started < 1, "INVALID_UNSIGNED_DECIMAL"),
        Reject(\/ r.count # before.count + 1
               \/ r.ordinal <= before.ordinal \/ r.ordinal < r.count
               \/ r.started < before.started, "TRANSCRIPT_BINDING_MISMATCH"),
        TargetError(d.targets[r.target]),
        Reject(~HasOrigin(d.targets[r.target].url), "PROHIBITED_ORIGIN"),
        Reject(CASE r.kind = Document -> Document \in kinds \/ r.target # d.sources[c.source].target
                 [] r.kind = Robots   -> Document \notin kinds /\ Robots \in kinds
                 [] OTHER             -> Document \notin kinds, "OUTPUT_CONTEXT_MISMATCH") >>)

\* The document and the redirects it went through.
Documents(d) == SelectSeq(d.context.requests, LAMBDA r : r.kind \in {Document, Redirect})

TranscriptError(d) ==
    LET c == d.context
    IN IF IntervalError(c) # "none" THEN IntervalError(c)
       ELSE IF c.source \notin DOMAIN d.sources THEN "OUTPUT_CONTEXT_MISMATCH"
       ELSE FirstOf(
           << SourceError(d.sources[c.source], d), IdentityError(d),
              Reject(d.ids.job # d.targets[d.sources[c.source].target].id, "OUTPUT_CONTEXT_MISMATCH"),
              Reject(c.requests = <<>> \/ Len(c.requests) # c.generation - c.baseline,
                     "TRANSCRIPT_BINDING_MISMATCH") >>
           \o [k \in DOMAIN c.requests |-> RequestError(k, d)]
           \o << Reject(Documents(d) = <<>>, "TRANSCRIPT_BINDING_MISMATCH") >>)

\* What the ledger returns when the transcript is frozen.
Witness(d) ==
    LET final == Last(Documents(d))
        t == d.targets[final.target]
    IN << Text(final.started), Text(d.ids.fence), t.id, t.url, target_digest(t),
          Text(d.context.generation), Text(Last(d.context.requests).started),
          Text(d.context.baseline), <<"leased">>, d.ids.owner, d.ids.token, Text(d.ids.fence), <<>> >>

WitnessError(w, d) ==
    IF TranscriptError(d) # "none" THEN TranscriptError(d)
    ELSE FirstOf(<< Reject(Len(w) # 13, "RESPONSE_ARITY"),
                    Reject(w # Witness(d), "TRANSCRIPT_BINDING_MISMATCH") >>)

-----------------------------------------------------------------------------
(* The canonical records. *)

\* A text/html type of MaxType bytes at the most; 0 stands for any other type.
ContentTypeError(type) ==
    FirstOf(<< Reject(type > MaxType, "CONTENT_TYPE_LIMIT"), Reject(type = 0, "INVALID_CONTENT_TYPE") >>)

RuleError(rule) ==
    FirstOf(<< Reject(rule > MaxRule, "RENDER_RULE_LIMIT"),
               Reject(rule <= 0, "INVALID_RENDER_RELATION") >>)

\* A digest that does not look like one is longer than one character.
DigestError(digest) == Reject(Len(digest) # 1, "INVALID_RENDER_POLICY_DIGEST")

RenderError(page, d) ==
    IF ~page.rendered
    THEN Reject(page.original > 0 \/ page.rule # 0 \/ page.digest # <<>>, "INVALID_RENDER_RELATION")
    ELSE FirstOf(<< RuleError(page.rule), DigestError(page.digest),
                    Reject(page.original = 0, "INVALID_RENDER_RELATION"),
                    Reject(page.digest # d.authorized, "RENDER_POLICY_MISMATCH"),
                    Reject(page.rule \notin d.rules, "INVALID_RENDER_RELATION") >>)

PageError(d) ==
    LET page == d.page
    IN FirstOf(<<
        Reject(page.normalized # Last(Documents(d)).target, "OUTPUT_CONTEXT_MISMATCH"),
        Reject(page.html > MaxBlob \/ page.original > MaxBlob, "PAGE_BLOB_LIMIT"),
        Reject(page.html + page.original > MaxCombined, "COMBINED_HTML_LIMIT"),
        ContentTypeError(page.type),
        Reject(page.status \notin 100..399, "STATUS_CODE_RANGE"),
        RenderError(page, d) >>)

\* A list has a limit; its entries are checked in the order of their keys.  Which
\* of two faults of one list is named is left open: equal entries come last here.
ListError(s, limit, class, errors) ==
    FirstOf(<<Reject(Len(s) > limit, "OUTPUT_COUNT_LIMIT")>> \o errors
        \o <<Reject(\E j, k \in DOMAIN s : j # k /\ s[j] = s[k], class)>>)

Outlinks(d) == Sorted(d.outlinks, LAMBDA url : Number(url))
Images(d) == Sorted(d.images, LAMBDA i : Number(i.url))
IdOf(item, d) == Number(d.targets[item.target].id)
Discoveries(d) == Sorted(d.discoveries, LAMBDA x : IdOf(x, d))

NormalizedUrl(d) == d.targets[d.page.normalized].url

OutlinksError(d) ==
    ListError(d.outlinks, MaxOutlinks, "DUPLICATE_OUTLINK",
        [k \in DOMAIN d.outlinks |->
            FirstOf(<<UrlError(Outlinks(d)[k]),
                      Reject(Outlinks(d)[k] = NormalizedUrl(d), "INVALID_OUTLINK")>>)])

ImagesError(d) ==
    ListError([k \in DOMAIN d.images |-> d.images[k].url], MaxImages, "DUPLICATE_IMAGE",
        [k \in DOMAIN d.images |->
            FirstOf(<<UrlError(Images(d)[k].url),
                      Reject(Images(d)[k].alt > MaxAlt, "IMAGE_ALT_LIMIT")>>)])

DiscoveriesError(d) ==
    ListError([k \in DOMAIN d.discoveries |-> IdOf(d.discoveries[k], d)],
        MaxDiscoveries, "DUPLICATE_DISCOVERY",
        [k \in DOMAIN d.discoveries |-> SourceError(Discoveries(d)[k], d)])

\* Every URL that the job was fetched under, in the order of the ids.
Aliases(d) ==
    LET names == {d.sources[d.context.source].target}
                 \cup {Documents(d)[k].target : k \in DOMAIN Documents(d)}
    IN Sorted(SetToSeq(names), LAMBDA n : Number(d.targets[n].id))

\* output_records: the first error, in the order of the checks.
OutputError(d) ==
    IF TranscriptError(d) # "none" THEN TranscriptError(d)
    ELSE FirstOf(<< PageError(d), OutlinksError(d), ImagesError(d), DiscoveriesError(d),
                    Reject(Len(Aliases(d)) > MaxAliases, "ALIAS_COUNT_LIMIT") >>)

\* The last document's time, to the second.
LastCrawled(d) == Last(Documents(d)).started \div 1000

PageRecord(d) ==
    [d.page EXCEPT !.normalized = NormalizedUrl(d)] @@ [last_crawled |-> LastCrawled(d)]

DiscoveryRecord(x, d) == [target |-> d.targets[x.target], fields |-> SourceFields(x, d)]

\* output_records, once there is no error.
Records(d) ==
    [page |-> PageRecord(d), outlinks |-> Outlinks(d), images |-> Images(d),
     discoveries |-> [k \in DOMAIN d.discoveries |-> DiscoveryRecord(Discoveries(d)[k], d)],
     aliases |-> [k \in DOMAIN Aliases(d) |->
         [target |-> d.targets[Aliases(d)[k]], depth |-> d.sources[d.context.source].depth]]]

output_digest(records) == <<records>>
PublicationId(d, output) == <<d.ids.run, d.ids.job, d.ids.fence, output>>

FaultyCommitId(d, publication) ==
    <<d.ids.run, d.ids.job, d.ids.fence, d.ids.token, publication, d.context.generation>>

CommitId(d, publication) ==
    <<d.ids.run, d.ids.job, d.ids.fence, d.ids.token, publication,
      d.context.baseline, d.context.generation>>

Publication(d) == PublicationId(d, output_digest(Records(d)))
Commit(d) == CommitId(d, Publication(d))

-----------------------------------------------------------------------------
(* Publication-derived fields. *)

ImageKey(publication, page, url) == <<publication, page, url>>

ImagePayload(image, publication, page) ==
    [publication |-> publication, page |-> page, url |-> image.url, alt |-> image.alt]

Manifest(records, publication) ==
    LET page == records.page.normalized
        Key(image) == ImageKey(publication, page, image.url)
    IN [publication |-> publication, page |-> page, count |-> Len(records.images), padding |-> 0,
        keys |-> [k \in DOMAIN records.images |-> Key(records.images[k])]]

\* projection_for_publication: what becomes visible under a publication.
Projection(records, publication) ==
    [page |-> [publication |-> publication] @@ records.page,
     payloads |-> [k \in DOMAIN records.images |->
         ImagePayload(records.images[k], publication, records.page.normalized)],
     manifest |-> Manifest(records, publication)]

\* digest_projection_semantics: the output digest again, from what is visible.
SemanticDigest(records, p) ==
    IF /\ p.manifest.publication = p.page.publication
       /\ \A k \in DOMAIN p.payloads : p.payloads[k].publication = p.page.publication
       /\ Len(p.payloads) = Len(records.images)
    THEN output_digest([records EXCEPT !.page = Restrict(p.page, DOMAIN records.page)])
    ELSE <<"INVALID_PROJECTION">>

-----------------------------------------------------------------------------
(* Output profiles: a baseline, without anything optional, rendered, and at *)
(* every limit.                                                             *)

\* The first request alone; nothing on the page.
EmptyProfile(d) ==
    [d EXCEPT !.context.requests = SubSeq(@, 1, 1), !.context.generation = d.context.requests[1].count,
              !.page = [normalized |-> "page", html |-> 0, original |-> 0, type |-> 1, status |-> 100,
                        rendered |-> FALSE, rule |-> 0, digest |-> <<>>],
              !.outlinks = <<>>, !.images = <<>>, !.discoveries = <<>>]

\* The page as a rendered one, under the run's own policy.
RenderedProfile(d) ==
    [d EXCEPT !.authorized = d.ids.policy, !.rules = {1},
              !.page = [rendered |-> TRUE, original |-> 1, rule |-> 1, digest |-> d.ids.policy] @@ @]

\* generated_indexed_urls: as long as a URL can be, in ascending order.
IndexedUrls(n, origin) == [k \in 1..n |-> <<origin + k, MaxPath>>]

Alias(k) == "alias_" \o ToString(k)
Discovered(k) == "discovery_" \o ToString(k)

\* build_maximum_output_data: a document with as many redirects as there may be
\* aliases, and every list and text at its limit.
MaximumProfile(d) ==
    LET names == {Alias(k) : k \in 1..MaxAliases} \cup {Discovered(k) : k \in 1..MaxDiscoveries}
        url == [n \in names |->
                   IF \E k \in 1..MaxAliases : n = Alias(k)
                   THEN IndexedUrls(MaxAliases, 10)[CHOOSE k \in 1..MaxAliases : n = Alias(k)]
                   ELSE IndexedUrls(MaxDiscoveries, 30)[CHOOSE k \in 1..MaxDiscoveries : n = Discovered(k)]]
        g == d.groups[1]
        decision == [n \in names |->
            [kind |-> Document, target |-> n, depth |-> 1, group |-> g.group, rate |-> g.rate,
             concurrency |-> g.concurrency, interval |-> g.interval]]
        Item(n) == [target |-> n, decision |-> n, score |-> <<1>>, depth |-> 1,
                    group |-> g.group, rate |-> g.rate]
    IN [ids |-> [d.ids EXCEPT !.job = url_id(url[Alias(1)])],
        targets |-> [n \in names |-> [id |-> url_id(url[n]), url |-> url[n]]],
        decisions |-> decision, groups |-> <<g>>, sources |-> <<Item(Alias(1))>>,
        discoveries |-> [k \in 1..MaxDiscoveries |-> Item(Discovered(k))],
        context |-> [source |-> 1, baseline |-> 0, generation |-> MaxAliases,
                     requests |-> [k \in 1..MaxAliases |->
                         [count |-> k, ordinal |-> k, started |-> 1000 * k, target |-> Alias(k),
                          kind |-> IF k = 1 THEN Document ELSE Redirect]]],
        page |-> [normalized |-> Alias(MaxAliases), html |-> MaxBlob, original |-> MaxBlob,
                  type |-> MaxType, status |-> 399, rendered |-> TRUE, rule |-> MaxRule,
                  digest |-> d.ids.policy],
        outlinks |-> IndexedUrls(MaxOutlinks, 50),
        images |-> [k \in 1..MaxImages |-> [url |-> IndexedUrls(MaxImages, 70)[k], alt |-> MaxAlt]],
        authorized |-> d.ids.policy, rules |-> {MaxRule}]
=============================================================================

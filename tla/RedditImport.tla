---------------------------- MODULE RedditImport ----------------------------
(***************************************************************************)
(* The Reddit adapter of the seed importer (seed-importer/reddit.py): an   *)
(* approved export of one subreddit listing is checked, the links of its   *)
(* posts and comments become seeds, seeds of one URL are merged, and the   *)
(* merged seeds are written in ordered batches.                            *)
(*                                                                         *)
(* A host is a sequence of labels.  A link is [host, wraps, path, https,   *)
(* eligible]: wraps is the sequence of url parameters an out.reddit.com    *)
(* link carries; a post without a URL has NoLink.  A path is a sequence of *)
(* segments [n, j], a name with j suffixes ".json"; an empty name with no  *)
(* suffix at the end is a trailing slash.                                  *)
(***************************************************************************)
EXTENDS Integers, Sequences, SequencesExt, FiniteSets, FiniteSetsExt, TLC

CONSTANTS
    Export,         \* the exports the instance reads: [source, posts, comments]
    BatchSize,      \* --batch-size
    MaxSources,     \* MAX_SOURCES of a seed document
    MaxFaults       \* bound on failed bulk writes

VARIABLES
    export,         \* the document read
    stats,          \* ImportStats
    discovered,     \* the seeds found, in order
    pending,        \* url -> the sources of its document, by key
    toWrite,        \* the identities not yet handed to a bulk write
    collection,     \* url -> sources, in MongoDB
    code,           \* the exit code, or -1 while it runs
    pc, faults

vars == <<export, stats, discovered, pending, toWrite, collection, code, pc, faults>>

-----------------------------------------------------------------------------
(* Hosts and links. *)

Reddit == <<"reddit", "com">>
Out    == <<"out", "reddit", "com">>
NoLink == [host |-> <<>>, wraps |-> <<>>, path |-> "", https |-> FALSE, eligible |-> FALSE]
PageHosts == {Reddit, <<"www">> \o Reddit, <<"old">> \o Reddit}

IsRedditOwnedHost(host) == IsSuffix(Reddit, host) \/ IsSuffix(<<"redd", "it">>, host)

\* unwrap_reddit_out_url: the first non-empty url parameter, one level deep.
UnwrapRedditOutUrl(link) ==
    IF link.eligible /\ link.https /\ link.host = Out /\ link.wraps # <<>>
    THEN Head(link.wraps) ELSE link

Prepare(link) ==
    LET candidate == UnwrapRedditOutUrl(link)
    IN IF candidate.host = <<>> \/ IsRedditOwnedHost(candidate.host) THEN <<>>
       ELSE <<candidate>>

-----------------------------------------------------------------------------
(* The forms of a listing's URL. *)

Seg(name) == [n |-> name, j |-> 0]
Slash == Seg("")
StripSlash(path) ==
    LET kept == {k \in DOMAIN path : path[k] # Slash}
    IN IF kept = {} THEN <<Slash>> ELSE SubSeq(path, 1, Max(kept))

\* _reddit_html_path: one "/.json" or ".json" is dropped.
RedditHtmlPath(path) ==
    LET p == StripSlash(path)
        s == Last(p)
        dropped == IF s = [n |-> "", j |-> 1] THEN Front(p)
                   ELSE IF s.j > 0 THEN Append(Front(p), [s EXCEPT !.j = @ - 1])
                   ELSE p
    IN IF dropped = <<>> THEN <<Slash>> ELSE dropped

RedditJsonPath(path) ==
    LET p == RedditHtmlPath(path)
    IN Append(Front(p), [Last(p) EXCEPT !.j = @ + 1])

\* _reddit_page_parts and _validated_generated_reddit_url: a URL of a page host
\* with an unambiguous path, as sequence of length at most one.
Unambiguous(path) ==
    \A k \in DOMAIN path : /\ path[k].n \notin {".", "..", "%2F"}
                           /\ path[k] = Slash => k = Len(path)
Accepted(host, path) ==
    IF host \in PageHosts /\ Unambiguous(path) THEN <<[host |-> host, path |-> path]>> ELSE <<>>
WithHost(host) == IF host = Reddit THEN <<"www">> \o Reddit ELSE host

Form(url, host, path) ==
    IF Accepted(url.host, url.path) = <<>> THEN <<>> ELSE Accepted(host, path)
RedditHtmlUrl(url) == Form(url, WithHost(url.host), RedditHtmlPath(url.path))
RedditJsonUrl(url) == Form(url, WithHost(url.host), RedditJsonPath(url.path))
OldRedditUrl(url)  == Form(url, <<"old">> \o Reddit, RedditHtmlPath(url.path))

\* reddit_crawl_urls: both hosts, both forms, or nothing.
RedditCrawlUrls(url) ==
    LET forms == [k \in 1..4 |->
                     Form(url, IF k \in {1, 3} THEN <<"www">> \o Reddit ELSE <<"old">> \o Reddit,
                          IF k <= 2 THEN RedditHtmlPath(url.path) ELSE RedditJsonPath(url.path))]
    IN IF \E k \in 1..4 : forms[k] = <<>> THEN <<>> ELSE [k \in 1..4 |-> forms[k][1]]

\* full_reddit_permalink; <<>> when the post has none.
FullRedditPermalink(permalink) == IF permalink = <<>> THEN <<>> ELSE OldRedditUrl(permalink[1])

-----------------------------------------------------------------------------
(* Discovery. *)

\* validate_reddit_export: the source is its own html form, one listing, and
\* every post is of its subreddit.
ValidExport(e) ==
    LET path == e.source.path
    IN /\ RedditHtmlUrl(e.source) = <<e.source>> /\ RedditJsonUrl(e.source) # <<>>
       /\ e.source.host # Reddit /\ Len(path) = 2 /\ path[1] = Seg("r") /\ path[2].n # ""
       /\ e.posts # <<>>
       /\ \A k \in DOMAIN e.posts :
             /\ e.posts[k].subreddit = path[2].n
             /\ e.posts[k].permalink # <<>>
             /\ IsStrictPrefix(path, e.posts[k].permalink[1].path)

\* seed_from_url: <<>> when the link is Reddit's, ineligible or malformed.
SeedFromUrl(link, key, from) ==
    LET candidate == Prepare(link)
    IN IF candidate = <<>> THEN <<>>
       ELSE IF ~candidate[1].eligible THEN <<>>
       ELSE <<[url |-> <<candidate[1].host, candidate[1].path>>, key |-> key, from |-> from]>>

\* source_ref of seed_document: the permalink's old form, else the listing's json form.
SourceRef(permalink) ==
    LET full == FullRedditPermalink(permalink)
    IN IF full = <<>> THEN RedditJsonUrl(export.source)[1] ELSE full[1]

OfPost(k) == SeedFromUrl(export.posts[k].link, SourceRef(export.posts[k].permalink), <<"post", k>>)
OfComment(k) == SeedFromUrl(export.comments[k], SourceRef(<<>>), <<"comment", k>>)

Counters == {"posts_seen", "comment_urls_seen", "outbound_urls_found", "skipped_reddit_urls",
             "skipped_low_score", "duplicate_urls", "imported", "write_errors"}
Counted(names) == [c \in Counters |-> stats[c] + IF c \in names THEN 1 ELSE 0]

ReadPost ==
    /\ pc = "posts" /\ stats.posts_seen < Len(export.posts)
    /\ LET k == stats.posts_seen + 1
           p == export.posts[k]
       IN \/ /\ p.low
             /\ stats' = Counted({"posts_seen", "skipped_low_score"})
             /\ UNCHANGED discovered
          \/ /\ ~p.low /\ p.self
             /\ stats' = Counted({"posts_seen"})
             /\ UNCHANGED discovered
          \/ /\ ~p.low /\ ~p.self
             /\ discovered' = discovered \o OfPost(k)
             /\ stats' = Counted({"posts_seen"} \cup
                                 IF OfPost(k) = <<>> /\ p.link # NoLink
                                 THEN {"skipped_reddit_urls"} ELSE {})
    /\ UNCHANGED <<export, pending, toWrite, collection, code, pc, faults>>

EndPosts ==
    /\ pc = "posts" /\ stats.posts_seen = Len(export.posts)
    /\ pc' = "comments"
    /\ UNCHANGED <<export, stats, discovered, pending, toWrite, collection, code, faults>>

ReadComment ==
    /\ pc = "comments" /\ stats.comment_urls_seen < Len(export.comments)
    /\ LET k == stats.comment_urls_seen + 1
       IN /\ discovered' = discovered \o OfComment(k)
          /\ stats' = Counted({"comment_urls_seen"} \cup
                              IF OfComment(k) = <<>> THEN {"skipped_reddit_urls"} ELSE {})
    /\ UNCHANGED <<export, pending, toWrite, collection, code, pc, faults>>

EndComments ==
    /\ pc = "comments" /\ stats.comment_urls_seen = Len(export.comments)
    /\ pc' = "merge"
    /\ UNCHANGED <<export, stats, discovered, pending, toWrite, collection, code, faults>>

\* The newest observation wins a tie.
FaultyMergedSources(sources, seed) == (seed.key :> seed.from) @@ sources

\* merge_seed_documents within one run: every source has the same time, and a
\* stored one wins a tie.
MergedSources(sources, seed) ==
    IF seed.key \in DOMAIN sources THEN sources ELSE sources @@ (seed.key :> seed.from)

\* One seed of main's loop; the merge raises when it has too many sources.
MergeSeed ==
    /\ pc = "merge" /\ discovered # <<>>
    /\ LET seed   == Head(discovered)
           known  == seed.url \in DOMAIN pending
           merged == MergedSources(IF known THEN pending[seed.url] ELSE <<>>, seed)
       IN /\ stats' = Counted({IF known THEN "duplicate_urls" ELSE "outbound_urls_found"})
          /\ IF Cardinality(DOMAIN merged) > MaxSources
             THEN /\ code' = 2 /\ pc' = "end"
                  /\ UNCHANGED <<pending, discovered>>
             ELSE /\ pending' = (seed.url :> merged) @@ pending
                  /\ discovered' = Tail(discovered)
                  /\ UNCHANGED <<code, pc>>
    /\ UNCHANGED <<export, toWrite, collection, faults>>

EndMerge ==
    /\ pc = "merge" /\ discovered = <<>>
    /\ toWrite' = SetToSeq(DOMAIN pending)
    /\ pc' = "write"
    /\ UNCHANGED <<export, stats, discovered, pending, collection, code, faults>>

-----------------------------------------------------------------------------
(* Writes. *)

\* The first sources of a stored seed stay, the others join them.
Stored(db, urls) ==
    [u \in DOMAIN db \cup urls |->
        (IF u \in DOMAIN db THEN db[u] ELSE <<>>) @@ (IF u \in urls THEN pending[u] ELSE <<>>)]

\* flush_documents: an ordered bulk stops at the first operation that fails.
FlushBatch ==
    /\ pc = "write" /\ toWrite # <<>>
    /\ LET size  == Min({BatchSize, Len(toWrite)})
           batch == SubSeq(toWrite, 1, size)
       IN \E done \in 0..size :
             LET urls == ToSet(SubSeq(batch, 1, done))
                 new  == Cardinality(urls \ DOMAIN collection)
             IN /\ done < size => faults < MaxFaults
                /\ faults' = faults + IF done < size THEN 1 ELSE 0
                /\ collection' = Stored(collection, urls)
                /\ stats' = [stats EXCEPT !.imported = @ + new,
                                          !.duplicate_urls = @ + done - new,
                                          !.write_errors = @ + IF done < size THEN 1 ELSE 0]
                /\ toWrite' = SubSeq(toWrite, size + 1, Len(toWrite))
    /\ UNCHANGED <<export, discovered, pending, code, pc>>

\* Any other error of the driver leaves main at once.
WriteRaises ==
    /\ pc = "write" /\ toWrite # <<>> /\ faults < MaxFaults
    /\ faults' = faults + 1
    /\ code' = 2 /\ pc' = "end"
    /\ UNCHANGED <<export, stats, discovered, pending, toWrite, collection>>

Finish ==
    /\ pc = "write" /\ toWrite = <<>>
    /\ code' = (IF stats.write_errors = 0 THEN 0 ELSE 2) /\ pc' = "end"
    /\ UNCHANGED <<export, stats, discovered, pending, toWrite, collection, faults>>

Init ==
    /\ export \in Export
    /\ stats = [c \in Counters |-> 0]
    /\ discovered = <<>> /\ pending = <<>> /\ toWrite = <<>> /\ collection = <<>> /\ faults = 0
    /\ IF ValidExport(export) THEN code = -1 /\ pc = "posts" ELSE code = 1 /\ pc = "end"

Next ==
    \/ ReadPost \/ EndPosts \/ ReadComment \/ EndComments \/ MergeSeed \/ EndMerge
    \/ FlushBatch \/ WriteRaises \/ Finish

Spec == Init /\ [][Next]_vars

-----------------------------------------------------------------------------
(* Properties. *)

Writers == {k \in DOMAIN export.posts :
               LET p == export.posts[k] IN ~p.low /\ ~p.self /\ p.link # NoLink}

\* Whatever wraps what, no URL of Reddit's own hosts becomes a seed.
NoRedditSeeds ==
    \A url \in DOMAIN pending \cup DOMAIN collection : ~IsRedditOwnedHost(url[1])

\* When discovery is over, every link looked at was found, was seen before, or
\* was skipped, and no counter is off.
EveryLinkAccounted ==
    pc = "write" /\ stats.imported = 0 /\ stats.write_errors = 0 =>
        /\ stats.outbound_urls_found = Cardinality(DOMAIN pending)
        /\ Len(toWrite) = Cardinality(DOMAIN pending) =>
              Cardinality(Writers) + stats.comment_urls_seen
                = stats.outbound_urls_found + stats.duplicate_urls + stats.skipped_reddit_urls

\* The source of a post, with its score and title, is never hidden by a comment
\* or another post that links the same page.
PostKeepsItsSource ==
    pc = "write" => \A k \in Writers : OfPost(k) # <<>> =>
        LET sources == pending[OfPost(k)[1].url]
            ref     == SourceRef(export.posts[k].permalink)
        IN /\ ref \in DOMAIN sources
           /\ sources[ref][1] = "post"
           /\ \E i \in 1..k : sources[ref] = <<"post", i>>

\* An import that says it succeeded has written every source of every seed; one
\* that fails before the writes has written nothing.
ExitTellsTheTruth ==
    /\ code = 0 => \A url \in DOMAIN pending :
          url \in DOMAIN collection /\ DOMAIN pending[url] \subseteq DOMAIN collection[url]
    /\ code \in {1, 2} /\ faults = 0 => collection = <<>>

\* All forms of an accepted source are forms of one listing.
FormsAgree ==
    LET forms == RedditCrawlUrls(export.source)
    IN pc # "end" =>
         /\ Len(forms) = 4
         /\ \A k \in 1..4 : /\ RedditHtmlUrl(forms[k])[1].path = export.source.path
                            /\ RedditJsonUrl(forms[k])[1].path = RedditJsonUrl(export.source)[1].path
=============================================================================

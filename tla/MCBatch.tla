------------------------------ MODULE MCBatch ------------------------------
(***************************************************************************)
(* The batch jobs for TLC.  A behaviour is one of TF-IDF, the migration,   *)
(* a DMOZ import or a Reddit import: program says which, and the variables *)
(* of the others are off.  pc, faults, stats and collection are shared.    *)
(***************************************************************************)
EXTENDS Integers, Sequences, SequencesExt, FiniteSets, TLC

CONSTANTS
    Word, Url, Thread, MaxEdits, Threshold, OperationsThreshold, MaxPages,
    BatchSize, SampleSize, Limit, MaxImports, MaxSources, MaxFaults

VARIABLES
    program, pc, faults, stats, collection,
    words, todo, thread, bulk, lock, edited,        \* TF-IDF
    old, new, buffer, cursor,                       \* migration
    dump, at, operations, sample, imports,          \* DMOZ
    export, discovered, pending, toWrite, code      \* Reddit

weighing  == <<words, todo, thread, bulk, lock, edited>>
migrating == <<old, new, buffer, cursor>>
dumping   == <<dump, at, operations, sample, imports>>
linking   == <<export, discovered, pending, toWrite, code>>
vars == <<program, pc, faults, stats, collection, weighing, migrating, dumping, linking>>

-----------------------------------------------------------------------------
(* The dumps of the DMOZ import: short ones of any records, and longer     *)
(* ones, beyond the limit, of a few.                                       *)

Parts(scheme, www, host, port, path, query) ==
    [scheme |-> scheme, www |-> www, host |-> host, port |-> port, path |-> path, query |-> query]
Page(path, query) == Parts("http", 1, "h", "none", path, query)
Arts == <<"Arts">>
Record(url, topic, title) == [url |-> url, topic |-> topic, title |-> title]

KeptUrls == {Page(<<>>, <<>>), Page(<<"/", "/">>, <<>>), Page(<<"/", "%61", "/">>, <<"utm_x">>),
             Page(<<"/", "a">>, <<"k", "ref", "utm_x">>), Page(<<"/", "a">>, <<>>),
             Parts("https", 0, "h", "80", <<"/", "%2f">>, <<>>), Page(<<"/", "/">>, <<"k">>)}
Odd  == {Record(Parts("ftp", 0, "h", "none", <<>>, <<>>), Arts, TRUE),
         Record(Parts("http", 0, "none", "none", <<>>, <<>>), Arts, TRUE),
         Record(Parts("http", 0, "h", "99999", <<>>, <<>>), Arts, TRUE),
         Record(Parts("http", 0, "h", "99999", <<>>, <<>>), <<"Adult">>, TRUE),
         Record(Page(<<>>, <<>>), <<>>, TRUE),
         Record(Page(<<>>, <<>>), <<"Recreation">>, TRUE),
         Record(Page(<<>>, <<>>), Arts, FALSE)}
Kept == {Record(u, Arts, TRUE) : u \in KeptUrls}
             \cup {Record(Page(<<>>, <<>>), <<"Recreation", "Photography">>, TRUE)}
Dumps == [1..2 -> Kept \cup Odd] \cup [1..4 -> {r \in Kept : r.url.path # <<>>} \cup
              {r \in Odd : r.url.port # "none" \/ r.topic = <<>>}]

-----------------------------------------------------------------------------
(* The exports of the Reddit import.                                       *)

Host == <<"reddit", "com">>
Seg(name) == [n |-> name, j |-> 0]
Site(host) == [host |-> host, wraps |-> <<>>, path |-> "p", https |-> TRUE, eligible |-> TRUE]
A == Site(<<"a">>)
Wrap(links) == [Site(<<"out">> \o Host) EXCEPT !.wraps = links]
Links == {A, Site(<<"notreddit", "com">>), Site(<<"i", "redd", "it">>), Wrap(<<A>>), Wrap(<<>>),
          Wrap(<<Wrap(<<A>>)>>), Wrap(<<Site(Host), A>>), [A EXCEPT !.eligible = FALSE],
          Site(<<>>)}
Listing == [host |-> <<"www">> \o Host, path |-> <<Seg("r"), Seg("s")>>]
NoLink == [host |-> <<>>, wraps |-> <<>>, path |-> "", https |-> FALSE, eligible |-> FALSE]
Permalink(p) == <<[host |-> <<"old">> \o Host, path |-> <<Seg("r"), Seg("s"), Seg(p)>>]>>
Post(link, p) == [link |-> link, permalink |-> Permalink(p), low |-> FALSE, self |-> FALSE,
                  subreddit |-> "s"]
Posts == {Post(link, p) : link \in Links, p \in {"p", "q"}}
            \cup {[Post(A, "p") EXCEPT !.low = TRUE], [Post(A, "p") EXCEPT !.self = TRUE],
                  Post(A, ".."), Post(NoLink, "p")}
Refused == {[Listing EXCEPT !.path = <<Seg("r"), [n |-> "s", j |-> 1]>>],
            [Listing EXCEPT !.host = Host],
            [Listing EXCEPT !.path = <<Seg("r"), Seg("t")>>],
            [Listing EXCEPT !.path = <<Seg("r"), Seg("s"), Seg("")>>]}
Exports ==
    [source : {Listing}, posts : UNION {[1..n -> Posts] : n \in 1..2},
     comments : {<<>>} \cup {<<link>> : link \in Links} \cup {<<A, A>>}]
    \cup [source : Refused, posts : {<<Post(A, "p")>>}, comments : {<<>>}]

-----------------------------------------------------------------------------
Weights  == INSTANCE TfIdf WITH main <- pc
Migrates == INSTANCE WordMigration
Dmoz     == INSTANCE DmozImport WITH Dump <- Dumps
Reddit   == INSTANCE RedditImport WITH Export <- Exports, BatchSize <- 1

Off == "off"
WeighingOff  == /\ words = Off /\ todo = Off /\ thread = Off /\ bulk = Off
                /\ lock = Off /\ edited = Off
MigratingOff == old = Off /\ new = Off /\ buffer = Off /\ cursor = Off
DumpingOff   == dump = Off /\ at = Off /\ operations = Off /\ sample = Off /\ imports = Off
LinkingOff   == /\ export = Off /\ discovered = Off /\ pending = Off
                /\ toWrite = Off /\ code = Off

BatchInit ==
    \/ /\ program = "tfidf" /\ Weights!Init /\ stats = Off /\ collection = Off
       /\ MigratingOff /\ DumpingOff /\ LinkingOff
    \/ /\ program = "migration" /\ Migrates!Init /\ stats = Off /\ collection = Off
       /\ WeighingOff /\ DumpingOff /\ LinkingOff
    \/ /\ program = "dmoz" /\ Dmoz!Init
       /\ WeighingOff /\ MigratingOff /\ LinkingOff
    \/ /\ program = "reddit" /\ Reddit!Init
       /\ WeighingOff /\ MigratingOff /\ DumpingOff

BatchNext ==
    /\ UNCHANGED program
    /\ \/ /\ program = "tfidf" /\ Weights!Next
          /\ UNCHANGED <<stats, collection, migrating, dumping, linking>>
       \/ /\ program = "migration" /\ Migrates!Next
          /\ UNCHANGED <<stats, collection, weighing, dumping, linking>>
       \/ /\ program = "dmoz" /\ Dmoz!Next
          /\ UNCHANGED <<weighing, migrating, linking>>
       \/ /\ program = "reddit" /\ Reddit!Next
          /\ UNCHANGED <<weighing, migrating, dumping>>

BatchSpec == BatchInit /\ [][BatchNext]_vars

-----------------------------------------------------------------------------
\* The threads of a TF-IDF job weigh every document between them, under one
\* lock.  A migration that a signal stops has written all that it has read; one
\* that ends or fails by itself leaves out less than a bulk of each collection.
NoneSkipped ==
    /\ program = "tfidf" => Weights!LockHeld /\ Weights!AllWeighed
    /\ program = "migration" => Migrates!NoOpLost /\ Migrates!LossBounded

\* A DMOZ import counts every record once, and each that it could not store as
\* a write error, and stores URLs under which they are found again.
DumpImported ==
    program = "dmoz" => /\ Dmoz!StatsAddUp /\ Dmoz!KeptIsImported
                        /\ Dmoz!StoredUrlFindsItself /\ Dmoz!SampleIsOfKept

\* A Reddit import finds no link of Reddit's own, accounts for every other one,
\* keeps where each was found, and exits with the truth.
LinksImported ==
    program = "reddit" => /\ Reddit!NoRedditSeeds /\ Reddit!EveryLinkAccounted
                          /\ Reddit!PostKeepsItsSource /\ Reddit!ExitTellsTheTruth
                          /\ Reddit!FormsAgree

\* A removed posting stays removed, and the first record of an identity wins
\* over every later batch and import.
DocumentsKept ==
    [][/\ program = "tfidf" => Weights!NoResurrection
       /\ program = "dmoz" => Dmoz!FirstRecordWins]_vars
=============================================================================

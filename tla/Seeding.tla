------------------------------- MODULE Seeding -------------------------------
(***************************************************************************)
(* The seed catalog and the crawl queue.  A behaviour is one of the        *)
(* catalog, or one of the feeder and the workers over a catalog that an    *)
(* operator edits: program says which, and the other part is off.          *)
(***************************************************************************)
EXTENDS SeedCatalog

CONSTANTS
    QueueId, Pending,
    Invalid, Worker, PerFeed, FeedLimit, MaxScore, MaxDepth, MaxEdits, MaxPushes

ASSUME QueueAssumption ==
    /\ QueueId \subseteq Nat /\ IsFiniteSet(QueueId)
    /\ PerFeed \in Nat \ {0} /\ FeedLimit \in Nat
    /\ MaxScore \in Nat /\ Invalid \subseteq QueueId

VARIABLES
    program,
    records, queue, urls, depths, feed, worker, since, edits, pushes, lost

catalogVars == <<mode, catalog, stage, job, rebuild, toggles, faults>>
queueVars   == <<records, queue, urls, depths, feed, worker, since, edits, pushes, lost>>
seedingVars == <<program, catalogVars, queueVars>>

Queue == INSTANCE CrawlQueue WITH
    Id <- QueueId, BatchSize <- PerFeed, Limit <- FeedLimit,
    catalog <- records, faults <- lost

-----------------------------------------------------------------------------
Off == "off"

CatalogOff == mode = Off /\ catalog = Off /\ stage = Off /\ job = Off /\ rebuild = Off
                /\ toggles = 0 /\ faults = 0
QueueOff   == /\ records = Off /\ queue = Off /\ urls = Off /\ depths = Off /\ feed = Off
              /\ worker = Off /\ since = Off /\ edits = 0 /\ pushes = 0 /\ lost = 0

SeedingInit ==
    \/ program = "catalog" /\ Init /\ QueueOff
    \/ program = "queue" /\ Queue!Init /\ CatalogOff

SeedingNext ==
    /\ UNCHANGED program
    /\ \/ program = "catalog" /\ Next /\ UNCHANGED queueVars
       \/ program = "queue" /\ Queue!Next /\ UNCHANGED catalogVars

SeedingSpec == SeedingInit /\ [][SeedingNext]_seedingVars

-----------------------------------------------------------------------------
\* What merges twice, in Python and in the server, merges alike, merging again
\* changes nothing, documents are valid, and an import that ended well is all
\* there.
CatalogSound ==
    program = "catalog" => PipelineIsMerge /\ ReplayIsNoop /\ CatalogValid /\ ImportComplete

\* After a feed the queue shows the catalog, and no entry is ever an orphan.
QueueFollowsCatalog ==
    program = "queue" => Queue!NoOrphans /\ Queue!DisabledGone /\ Queue!EnabledPending

\* No import loses provenance, an operator's decision or a legacy collection,
\* and a rebuild replaces the catalog as a whole or not at all.  Entries of the
\* queue only improve while they are pending, a claim takes the entry that was
\* inspected, and a feed adds no record that does not fit its URL.
RecordsKept ==
    [][/\ program = "catalog" => KeepsProvenance /\ KeepsDisabled /\ LeavesLegacy /\ ReplacesWhole
       /\ program = "queue" => Queue!OnlyImproves /\ Queue!ClaimsCurrent /\ Queue!KeepsInvalidOut]_seedingVars
=============================================================================

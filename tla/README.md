# TLA+ specifications of MiFolyo

MiFolyo is a community search engine with a forum: a spider crawls policy-bound
groups of sites into Redis, indexers move the pages into MongoDB, batch jobs rank
them, and a query engine, a forum and a client serve them.  This directory holds
TLA+ modules of the parts whose correctness depends on order, failure and
concurrency, the TLC configurations that check small instances of them, and
proofs, checked by TLAPS, that hold for all instances.

There are four groups of modules: the *Crawl Jobs V2 ledger* (Redis Lua scripts
that own every job, lease, request, stage and budget of a crawl run), the *indexing
services* that follow the spider, the *sources of crawl seeds and batch programs*
around the database, and the programs that keep the *contract*: the digest
verifier, the canonical form of URLs and the indexer's tokenizer data.

## 1. Inventory

| Part | State it keeps | Operations | What is hard about it |
| --- | --- | --- | --- |
| **Crawl Jobs V2 ledger** (`crawljobsv2/lua_src`, 42 operations) | run, job, reservation, group, scope, stage and slot records in Redis, with sorted-set indexes | claim, reserve, start, finish, cancel a reservation, renew, release, retry, dead, complete, cancel job, reject ready, the stage operations and commit, promote, recover, cancel batch, finalize, purge, and the loading of a run | leases that expire while their worker works; lost and repeated replies; counters that dozens of deltas must keep equal to the records; batch recovery; budgets shared by redirects; cancellation at any moment |
| Crawl Jobs V2 Go client (`transitions.go`, `transport_gate.go`, `response.go`) | none | encodes calls, decodes replies | ambiguous transport errors |
| V1 spider: scheduler, request gate, policy runtime (`crawler/`, `crawlpolicy/runtime.go`) | in-memory reservations, permits and budgets per group | claim a URL under two reservations, start, refund, commit, release, reset the batch | goroutines; refund against release |
| V1 spider: URL queue (`redis_client.go`) | a sorted set of pending ids, the URL and the depth of an id | push, inspect, claim, put back | the feed and an operator at the same time |
| V1 spider: batch persistence (`cmd/spider/main.go`, `controllers/`) | the batch in memory, the queues in Redis | persist pages, links and images, publish, reset | one step of several fails and is retried |
| V1 spider: robots guard, secure fetch, render client | caches, sockets | single-flight load, fetch, render frames | eviction and reset during a load |
| **Indexer, image indexer** (`indexer/`, `image-indexer/`) | an owner lock with an epoch, queues of claims in Redis; canonical locks, postings, metadata, images in MongoDB | take ownership, recover claims, claim, index, complete, skip, quarantine, release | a new owner while the old one still runs; two stores without a transaction; writes in parts; late writes |
| **Backlinks processor** (`backlinks-processor/`) | sets in Redis, one document per target in MongoDB, cursors and buffers in memory | scan, admit, write, acknowledge, reconcile | crash between write and acknowledgement; a second writer; bounds on memory and documents |
| **Seed catalog and feed** (`seed-importer/`) | `crawl_seeds` in MongoDB, the V1 queue | import, merge, rebuild, toggle, feed | several importers; a merge that exists twice; no transaction over the collection |
| **Batch programs** (`tfidf/`, `migration/`, `dmoz-importer/`, `seed-importer/reddit.py`) | documents in MongoDB, buffers | weigh, migrate, import | threads, interruption, partial bulks, duplicates |
| **URL identity, digest verifier** (`url_identity.py`, `url_validation.py`, `scripts/`) | a fixture of vectors | canonicalize, recognize, recompute every identity and refuse every mutation | three implementations of one form, with two sets of rules for A-labels; a repository read twice |
| **Tokenizer data** (`indexer/tools/vendor_nlp.py`, `verify_nlp.py`, `nlp/`) | data files, a cache, pins | generate, provision, verify, load | interrupted runs, stale or foreign files |
| Page rank (`page-rank/`) | documents in MongoDB | batch computation, publication under a lock | numeric |
| Forum engine (Laravel) | votes, topics, moderation and account rows | vote, moderate, delete an account | row locks, counters |
| Query engine, client, render worker, monitoring | none of their own | search, render, metrics | stateless |

How they meet: seeds are imported into the catalog, the feed puts them into the
spider's queue; the spider publishes page data and a message to the *pages* queue.
The indexer takes the message under its own claim, writes the page and hands its
image manifest to the image indexer in the script that completes the claim; both
take one lock per URL.  The backlinks processor takes the link sets that the spider
left.  Page rank and TF-IDF read and write MongoDB, the query engine reads.  With
Crawl Jobs V2 the ledger replaces the V1 pending set: a worker calls scripts, and
Redis runs each script without interleaving, so that all concurrency is between
scripts and all crashes are between scripts.

What makes each part correct:

- **Ledger**: no sequence of calls, crashes and expiries reaches a record or a
  counter that the scripts' own validators refuse (a run in such a state is
  wedged); no budget or rate is exceeded; two workers never fetch for one job; a
  terminal job stays as it is; what ends a lease gives everything back; a cancelled
  or expired run only shrinks, and ends.
- **Indexers**: every publication is in one place until it is handed on or
  quarantined; a URL's searchable state is that of one crawl and moves forward; a
  superseded owner moves nothing back.
- **Backlinks**: an edge is removed from Redis only when MongoDB has it, and reaches it.
- **Seeds**: no import loses where a seed was found or revives what an operator
  disabled; a feed leaves the queue as the catalog says.
- **Batch programs**: nothing is skipped, and the first record of an identity stays.
- **Contract**: one meaning per identity, one canonical form per URL, one repository
  per verified fixture; tokenizer data whole or not at all.

## 2. Modules

| Module | What it holds |
| --- | --- |
| `CrawlJobs`, `CrawlJobsSafety`, `MCCrawlJobs` | the ledger: state and actions; properties; values of the constants |
| `CrawlJobsProofs` | type correctness; what a worker may rely on, and that terminal jobs are final; each step keeps a job's record valid |
| `CrawlJobsCountProofs`, `CrawlJobsStageProofs` | the counters and the budgets; the stage slots, the published pages and the end of a run |
| `OwnedQueue` | the fenced queue of both indexers, one action per Lua script; the abstract specification of a queue under any callers |
| `PageIndexer`, `MCPageIndexer` | the page indexer; implements `OwnedQueue` |
| `PageIndexerProofs` | its queue, claims and locks, and that it implements `OwnedQueue`; the searchable state it writes |
| `ImageIndexer`, `MCImageIndexer` | the image indexer, over the scripts of `OwnedQueue` |
| `ImageIndexerProofs` | its locks, claims and calls, what they leave in the page's documents, and that it implements `OwnedQueue` |
| `PublicationFlow` | what the two promise together: each publication passes its stages once, in order per URL |
| `IndexPipeline`, `MCIndexPipeline` | both indexers on one Redis and MongoDB; implements `PublicationFlow` |
| `Backlinks`, `MCBacklinks` | the backlinks processor beside its reconciliation tool |
| `BacklinksProofs` | what is buffered, what was checked, and that no edge is lost |
| `SeedCatalog`, `CrawlQueue` | the catalog with its importers and rebuild; the V1 queue with feed, workers and operator |
| `Seeding`, `MCSeeding` | both as one specification, with their properties; its instance |
| `SeedCatalogProofs`, `SeedingProofs` | the merge, the batches and the invariant of the catalog; that of the queue, and both together |
| `Ordering` | the members of a set in an order, which the batches of imports and feeds have |
| `TfIdf`, `WordMigration`, `DmozImport`, `RedditImport`, `MCBatch` | the batch programs |
| `UrlIdentity` | canonical URLs in the three implementations |
| `WireIdentities`, `IdentityReplay` | the identities of a run and their mutations; a submitter that repeats one after its data changed |
| `StageOutput`, `StageChunks` | transcript, records, publication and commit ids of an output; its chunks and their mutations |
| `GuardChain`, `VectorVerifier` | the script bundle, guard core, manifest and stored guard; a run of the verifier |
| `NlpAssets`, `MCContract` | the tokenizer data; the instances of this group |

### The ledger: state of `CrawlJobs`

| Variable | In the code |
| --- | --- |
| `run` | the run hash (`ledger_run.lua`, `valid_record`); `authorized` is *now < authorization_expires_at_ms*, `finalized` is that the finalization evidence is written |
| `group` | the run's `group_started`, `group_pending`, `group_active_started`, `group_open_jobs` maps |
| `scope` | the rate scope hashes, with `next_left = next_start_at_ms - now` |
| `job` | the job hashes and, as `reservation`, the reservation hash a job owns; the sorted sets ready, leased, delayed and the terminal sets are the sets of jobs in that state |
| `stage` | the metadata of a job's active stage |
| `slots` | the `stage_slots` hash |
| `visited` | the `visited_depth` hash |
| `belief` | what a worker slot knows of its lease: not in Redis, but what the client contract (`docs/crawl-jobs-v2.md`, the heartbeat rules) lets a worker derive from the replies it heard |

A deadline is kept as the time left before it, because every comparison in the
scripts is between a stored deadline and the server's time, or between two
deadlines at one time.  `Tick` lowers all of them.

Every action is a whole script with all its writes, guarded by the checks in the
script; a call that a script refuses writes nothing and is a stuttering step.

| Action | Script |
| --- | --- |
| `Claim`, `ClaimVisited`, `ReplayClaim` | `CJ2_TRY_CLAIM`: new lease; job visited meanwhile; repeated by a worker that missed the reply |
| `Reserve`, `Start`, `ReplayStart`, `FinishRequest`, `CancelReservation`, `Renew` | `CJ2_RESERVE_REQUEST`, `CJ2_START_REQUEST` and its repetition, `CJ2_FINISH_REQUEST`, `CJ2_CANCEL_RESERVATION`, `CJ2_RENEW_LEASE` |
| `ReleaseBeforeIo`, `Retry`, `Dead`, `CompleteNoOutput`, `CancelJob`, `RejectReady` | the scripts of the same names; all go through `Settle` (`Job.plan_outcome`, `Request.plan_terminal`) |
| `BeginStage`, `SealStage`, `AbortStage`, `Backpressure`, `Commit` | the stage scripts; `Backpressure` and `Commit` are the two ends of `CJ2_COMMIT` |
| `PromoteDue`, `CancelRun`, `CancelBatch`, `RecoverExpired`, `FinalizeRun` | the maintenance scripts |
| `Tick`, `AuthorizationExpires`, `Abandon` | time, the end of the authorization, a worker that crashes or drops its lease |

A reply may be lost: `heard` in `Claim`, `Start` and `Renew` says whether the
worker learned of it.  A repeated or late request is the same action again; it is
refused unless the lease is still held by the same owner and fence.

What is abstracted, and why:

- Receipts and tombstones (the 24-hour evidence that answers repeated calls), hex
  digests, timestamps, tokens and wire formats: data that no property tells apart.
- `renewal_rejections`, which scripts write and none reads.
- Memory accounting: its verdict is the reason of a `Backpressure` step.
- The contents of a stage: `SealStage` stands for the complete set of chunks.  How an
  output is cut and checked is `StageChunks`, after the verifier.
- The request kind `document` stands for a document and for a redirect, `robots`
  for a robots request.
- The order of a sorted set: `PromoteDue` and `CancelBatch` take any page of the
  right size.  `RecoverExpired` takes all expired leases, for at most 64 leases exist
  and one page holds 100.
- One run, from its activation to its finalization.  The origin of a request is fixed
  by its policy group.
- A worker's clock is no slower than the server's: it counts from the moment it sent
  the request, as the contract demands, so `Learn` gives it at most what the record
  says.

### The indexing services

`OwnedQueue` has the lists of one service's queue: `queue`, `processing`, `dead`, the
owner lock, the fencing epoch, and `done`, what its last script handed on or
acknowledged.  A script names its caller's epoch; under any other it writes nothing.

`PageIndexer` has any number of processes (`proc`), which may run at once: one takes
the lock, recovers the claims of the last owner (`AcquireOwner`, `RecoverClaims`),
then claims, takes the URL's canonical lock, loads, writes the collections one call
at a time (`Write`, over the calls that `Calls` lists), and completes or skips
(`CompletePage`, `SkipPage`), quarantines or gives the claim back.  A step ends just
before a call whose outcome another process or a crash can change; a check of the
ownership belongs to the step before the write it permits, so that the gap between
them is there.  Every call may fail with its effect or without it; a process may
crash anywhere (`Crash`) or be terminated (`Terminate`, SIGTERM); the lock may expire
under a live owner (`LockExpires`); in a `late` workload a write whose caller gave up
may land at any later time (`WriteLands`).  An operator removes the canonical lock of
a process that is gone (`OperatorClears`), which `services/indexer/README.md` demands.
`ImageIndexer` does the same for manifests: it deletes, replaces and adds a page's
images and postings in bulks of `Batch`, each under three conditions, and in a `late`
workload its writes land late as well, as do those of the metadata that the page
indexer gave up (`MetadataLands`).  What the code then keeps is less than without them:
images and postings of an older epoch may stand beside those of the acknowledged
publication, and its postings may be made of keywords that were current only when they
were read.  Its properties say so (`Leftover`), and no more than that.

A document is the publication and the epoch that wrote it; a page is a set of words.
A page that cannot be indexed is removed and skipped, after its artifact was saved when
it had been rendered (`Rendered`, `Indexable`).
Text extraction, stemming and the contents of images are not modelled.

`Backlinks` keeps `sets` (Redis), `mongo` and the processor's memory (`state`).  A
cursor is what it guarantees: the elements a scan still owes.  `reconcile.py` (`rec`)
reads and adds beside it.  A batch that the document has no room for is refused whole,
and so is one that MongoDB refuses: its members leave the memory, not their Redis set.
A write that lands after its call timed out has no step of its own: it is a
compare-and-set on the whole document, which only grows, so that it adds edges that were
checked to the very document its caller read, or nothing, and to the other writers it
looks like one of `reconcile.py`.

### Seeds and batch programs

`SeedCatalog` writes each operation of an ordered bulk as one step.  `MergeDocs` is the
merge of `crawl_seed.py`, `Pipeline` the aggregation that the server runs, and the
collection changes by the second.  The rebuild fills a staging collection and renames
it.  `CrawlQueue` has the scripts of feed and spider as steps, an operator who edits
the catalog between any two of them, and a feed that dies.

`TfIdf` steps between two accesses to what the threads share.  `WordMigration` steps
per document and per bulk; its lists die with a process that ends by itself.
`DmozImport` and `RedditImport` read records one by one; URLs are records of the parts
the code tells apart.  A bulk of the DMOZ import may fail in part, which is counted and
makes the exit status 2 (`FlushOperations`), or with another error, which ends the
import (`FlushRaises`).

### Contract

A text is a sequence of characters and a digest is the bytes it was computed of, so that
two digests are equal exactly when their inputs are: `WireIdentities` shows what framing
and field lists make of that. The mutations the verifier makes are sets of changed
inputs with the class that must refuse each. `VectorVerifier` runs case by case over a
fixture and a repository that a maintainer edits between runs and, the repository,
during one. `UrlIdentity` has URLs whose parts are the kinds of character and host that
one of the three programs tells apart. They do not all tell the same apart: for labels
in their ASCII form there is a kind that all of them take, one that none takes, one that
only the verifier takes and one that only the two with the package `idna` take; which
labels are of which kind is in tables that the model leaves out. `NlpAssets` has files
with content, which may be damaged, removed or replaced by links between runs of the
tool, and runs that are interrupted.

Definitions named *Faulty*, or in `CrawlJobs` marked so, are plausible mistakes.  No
action uses them; each property was seen to fail when one of them takes the place of
the definition that follows it (`PROJECT.json`, *mutants*).

## 3. Runs

| Run | Instance | Question | Properties |
| --- | --- | --- | --- |
| `recovery` | one job, two workers, lease 2, stage 3, three starts | Is every record that one job can reach valid? Is a worker's view safe? | `TypeOK`, `RecordsValid`, `IoIsCovered`, `BeliefsHold`, `LeaseIntegrity` |
| `redirects` | two jobs of two groups on one paced origin, three starts, no stages | Do the counters of run, groups and scopes stay exact through redirects and batch recovery? Are budgets kept? Does withdrawal only shrink? | `CountersExact`, `BudgetsHold`, `FinalizedIsClean`, `WithdrawnOnlyShrinks` |
| `publication` | a seed and a deeper job, two workers, one stage slot | Are stage slots exact under competition, aliases, discovery and backpressure? Is a published page known as visited? Does the first admission of a job win? | `SlotsOwned`, `PublishedIsVisited`, `TerminalIsFinal` |
| `progress` | two jobs with different delays, one worker that promises nothing, batches of one | Does every run end cleanly, and does a full batch starve a retry? | `RunFinalizes`, `DelayEnds` |
| `page` | two processes; recrawls that shrink, are skipped, corrupt or invalid; two faults, or one with late writes or three publications; a rendered page and one that cannot be indexed | Is nothing lost or doubled, is the searchable state whole, does it move forward, and does everything settle? | `QueueSound`, `SettledStateIsWhole`, `StateMovesForward`, `ImplementsOwnedQueue`, `EventuallySettled` |
| `page_late_skip` | one process, a page and its skip, late writes | Is a skipped page gone? (It is not: section 5) | `SkippedIsGone` |
| `image` | two processes; a page that loses an image, without and with writes that land late; bad manifests before a good one; one fault | Is an acknowledged page whole, and is every manifest settled? | `AckedPageIsWhole`, `RecordNeverBackwards`, `EventuallyAcked` |
| `pipeline` | one process of each service, a page and its skip, two faults, no write that lands late (section 5 shows what one can do to a skip) | Do the services exclude each other and agree? | `PageAndImagesAgree`, `ImplementsFlow` |
| `backlinks` | three targets, one with a bad name, four members of two sizes, one of them invalid, batches of two, a byte budget of one whole page, a document with room for each of two edges but not for both, one fault | Is every edge kept, within all bounds, and does it arrive? | `BufferSound`, `ChecksHold`, `NoEdgeLost`, `EdgesArrive` |
| `seeding` | two importers, an operator, a rebuild, five initial collections; three seeds, one invalid, one worker, feeds in batches of one | Do merges agree and keep what is there? Does the queue follow the catalog? | `CatalogSound`, `QueueFollowsCatalog`, `RecordsKept` |
| `batch` | two threads, words and pages; two collections with malformed documents; dumps of two to four records, imported twice with a write error; all exports of a few posts and comments | Does each program do all of its work, once? | `NoneSkipped`, `DumpImported`, `LinksImported`, `DocumentsKept` |
| `contract` | short paths and every authority, A-labels that one rule or the other refuses included; two edits of a run's data; several outputs over every limit; two runs of verifier and tool over edits | Do identities mean one thing, and is every change refused? | `FormsAgree`, `IdentitiesBind`, `OutputSound`, `VectorsHold`, `AssetsHold` |

`seeding`, `batch` and `contract` each hold several programs that share no state: a
behaviour chooses one (`program`) and the variables of the others are off.

### Bounds

*Ledger.*  No script touches more than one leased job except the batch passes, so two
jobs and a batch of one or two show every interaction of jobs; no script names two
workers, and a worker interferes with another only through a lease that was lost,
which needs two; a redirect involves two groups.  The counters of a job are bounded by
three deliveries and the request budget, all of which the instances exhaust.  The
worker slots are symmetric and are declared so in the safety runs.  A finalized run
may stop; it is the explicit step `Done`, so that deadlock is checked.

*Indexers.*  Two processes are one owner and one that was superseded; a third can only
be superseded again.  Three epochs let the second owner be superseded too.  Two or
three publications of one URL are an earlier crawl, a later one and one that arrives
while the first is retried; the faults of a workload (crashes, failed calls, expiries,
signals, writes that are given up and land later) are at most two, enough for a lost
reply whose repair fails.  `MaxEpoch`
appears in the liveness properties because a model that ran out of epochs cannot start
an owner; the code's epochs do not end.  Only the page run needs two URLs, to see that
a bad value does not stop the next one.

*Backlinks.*  The byte budget is one whole page, the key queue holds all targets, a
batch has at most two members: backpressure, waiting targets and partly admitted pages
all happen, and so do batches that are refused for ever although the document has room
for one of their members.  `EdgesArrive` therefore excuses an edge that is refused with
others (`RefusedWith`), and demands every other one.

*Seeding, batch, contract.*  Batches are of one or two, so that a first, a full and a
last one exist; at most one bulk fails; limits (`MaxSources`, `Limit`, `MaxU64`,
`MaxPath` and their like) are small numbers that the inputs pass by one.

In the runs of section 3 other than the ledger's, deadlock is not checked: workloads,
faults and batch programs end, and what must not end early is a property.

### Fairness

*Ledger.*  The workers are assumed to do nothing: `RunFinalizes` must hold although
all of them crash.  Fair are time (`Tick`) and the passes that, by section 11 of
`docs/crawl-jobs-v2.md`, every running Spider invokes at least once per 10 seconds:
recovery of expired leases, the batches of cancelled runs, promotion of due delays and
run finalization (`RecoverExpired`, `CancelBatch`, `PromoteDue`, `FinalizeRun`), a
replica being kept in maintenance-only mode while a lease or a slot is left.  Weak
fairness suffices: each of these stays enabled until it is done.  `RunFinalizes` itself
assumes `EndFairness` on top: the authorization, a fixed time in every run record, runs
out, and the run-expiry cancellation of the same section follows.  `DelayEnds` does
without it and excuses a run that was withdrawn.

*Indexers.*  The lock of an owner that is gone expires (Redis does that); a process
that stopped is started again (the services' restart policy) and one that runs goes on
(it has no waits but its own polling); the operator removes the locks of processes
that are gone.  In `ImageIndexer` the page indexer releases a URL in the end, which
`PageIndexer` does.  Faults are bounded by the workload, so that they end; nothing is
assumed about when.

*Backlinks.*  The processor goes on with its cycle (`ProcessCycle`); a crash is a
`Restart` with empty memory.  Nothing is assumed of the reconciliation or the spider.

## 4. Proofs

The theorems hold for all values of the constants that the named assumptions of
`CrawlJobs`, `PageIndexer`, `ImageIndexer`, `Backlinks`, `SeedCatalog` and `Seeding`
allow: any finite number of jobs, workers, groups and scopes, any budgets and lifetimes; any number of indexer
processes, publications, URLs, words, images, epochs and faults, bulks of any size; any
finite sets of link targets and members, any limits of the processor's configuration;
any importers with any rows and batch sizes, any records, limits and workers of a feed.
Every safety property that the ledger's runs and the runs `page`, `image`, `backlinks`
and `seeding` check is proved, and so is that both indexers implement `OwnedQueue`.

| Theorem | States |
| --- | --- |
| `TypeCorrect` | `Spec => []TypeOK` |
| `LeaseKnown` | `Spec => []BeliefsHold` |
| `IoCovered` | `Spec => []IoIsCovered` |
| `OneFetcher` | two workers never do request I/O for one job at once |
| `OutcomesAreFinal` | `Spec => TerminalIsFinal` |
| `RecordsAlwaysValid` | `Spec => []RecordsValid` |
| `CountersAlwaysExact` | `Spec => []CountersExact` |
| `BudgetsAlwaysHold` | `Spec => []BudgetsHold` |
| `LeasesKeepFaith` | `Spec => LeaseIntegrity` |
| `SlotsAlwaysOwned` | `Spec => []SlotsOwned` |
| `PublishedStaysVisited` | `Spec => []PublishedIsVisited` |
| `FinalizedStaysClean` | `Spec => []FinalizedIsClean` |
| `WithdrawalOnlyShrinks` | `Spec => WithdrawnOnlyShrinks` |
| `QueueStaysSound` | `Spec => []QueueSound` (page indexer, as are the next) |
| `PageQueueImplementsOwnedQueue` | `Spec => ImplementsOwnedQueue` |
| `StateAlwaysMovesForward` | `Spec => StateMovesForward` |
| `SettledStateStaysWhole` | `Spec => []SettledStateIsWhole` |
| `KeywordsStayCurrent` | `Spec => []KeywordsCurrent /\ KeywordsHeld`: keywords in use change by late metadata writes only (image indexer, as are the next) |
| `RecordNeverGoesBack` | `Spec => RecordNeverBackwards` |
| `AcksAreWhole` | `Spec => AckedPageIsWhole`, late writes included |
| `ImageQueueImplementsOwnedQueue` | `Spec => Queue!QueueSpec` |
| `BufferIsSound` | `Spec => []BufferSound` (backlinks, as are the next) |
| `CopiesAreChecked` | `Spec => []ChecksHold` |
| `EdgesAreKept` | `Spec => NoEdgeLost` |
| `ServerMergesAlike` | on valid documents `Pipeline` is `MergeDocs`, and merging again changes nothing (seeds, as are the next) |
| `CatalogIsSound` | `SeedingSpec => []CatalogSound` |
| `QueueFollows` | `SeedingSpec => []QueueFollowsCatalog` |
| `RecordsAreKept` | `SeedingSpec => RecordsKept` |

What is assumed of the constants is what the code checks or pins.  The reasons that
workers and operators give are disjoint from those that the ledger gives itself, as
`ledger_job.lua` lists them; a group has a rate scope of its own with the group's
concurrency; a run's request budget is at most what a job record may carry.  Of the page
indexer, `WorkloadAssumption` types the workloads and says that the dead-letter list and
a recovery batch have room for one value, and `ManifestAssumption` says the same of the
image indexer.  Of the backlinks processor, `LimitsAssumption` says that its limits are
positive, that the key queue holds what one cycle and one scan may find, and that the
byte budget holds one full page, as `config.py` checks.  Of the seeds, `RowsAssumption`
says that no merge of an importer's rows raises: `reddit.py` and `crawl_seeds.py` merge
all of them before the first write and end if one does.  `InitialAssumption` says that
documents that were there before have the fields of the schema and, where the V1
validator was set, are valid, which is what the importers leave; a loose collection may
hold anything of the shape.  `LimitsAssumption` and `QueueAssumption` say that batches
hold at least one document, that ids are finitely many and that a rebuild has a
baseline, which `rebuild_database` demands.

**Type correctness.**  `TypeOK` alone is not inductive: cancelling a job writes the
run's terminal reason into the job, so the invariant `TypeInv` adds that a cancelled
run has one of the cancellation reasons (`CancelledFor`).  The lemmas follow the
code: `OutcomeType`, `FailedType`, `RetriedType` and `RecoveredType` for the records
an outcome builds, `ReleasedType` and `SettleType` for the counters they move, then
one lemma per script.

**What a worker may rely on.**  `IoIsCovered` says that a worker performing I/O on
its own clock still holds the lease and the request.  It is not inductive: a worker
whose clock has run out may hear a later renewal, by which time it must not be
mistaken for a live request.  `BeliefsHold` therefore says of every belief, fresh or
stale, that its fence is at most the record's, that its time left is at most the
record's, and that I/O under the current fence means a started request.  The central
lemma `LeaseCall` says that a call under a held lease concerns the caller's own
belief only, since the owner and the fence of the record decide who that is;
`LiveCall` (the lease goes on), `EndCall` (it ends) and `UnheldJobs` (no live lease is
involved) are its consequences, and each script falls under one of them.  Expiry is
safe because `RecoverExpired` takes a lease only when no time is left of it, and by
then no worker counts on it.

**Outcomes are final.**  Time passes for every record, so a terminal one stays as it
is only if no deadline of it is ahead: `QuietInv`.  `Settles` says what any step but
`Tick` may do to a record; the proof has a lemma for calls under a lease and one for
all the others.

**Records.**  The relations of `ledger_job.lua`'s validator are not inductive.
`Margins` adds what keeps the next call within them: a lease has room for the delivery
and for the recovery that may end it (`retry_count + lease_delivery_started` is at most
`delivery_attempts`, and so on), a pending request has an ordinal of its own, a held
reservation is paid for by a group of the run, an absent record has counted nothing.
`Sound` is the validator's relations with these and with the stage (`Bound`: the
transcript, and that the lease does not outlive it); there is one lemma per change of
a record (`ClaimedRecord`, `ReservedRecord` and so on) and one per script.

**Counters and budgets.**  A record may carry `JobStartLimit` starts and
`MaxReservations` ordinals, and nothing in the record itself keeps it there: the
budgets of the run do, whose counters in turn are sums over the records.  The argument
is circular from one state to the next, so `LedgerInv` joins `RecordInv` and
`CountInv`.  `CountStep` shows that a step from sound records keeps the counters exact;
`StepPoised` that it changes no record by more than one start and one ordinal;
`BudgetsBound` that a record is then within what its run has counted; and
`RecordStep` that the new records are sound.  A counter of jobs is the cardinality of
a set, and a sum is the cardinality of the set of its units (`Total`), for which
`CountChange`, `TotalRaised` and `PartOfTotal` are proved from facts about finite sets
alone, without induction over data.  Steps fall into few kinds, each with one lemma for
requests, one for jobs, one for totals: admissions (claim, reserve), the start, the end
of a reservation, settlements (`Settlement`: every outcome, recovery and batch),
commits, and steps that count nothing (`Neutral`).  That a group stays within its
concurrency follows from its own rate scope, since every request that the group pays
for is charged to it.

**Slots, pages, the end.**  `StepKinds` sorts the steps once more, and `WholeInv` adds
three invariants to `LedgerInv`.  The slots are owned (`SlotsOwned`, inductive with
their finiteness: a claim takes a fence above every earlier stage, a settlement drops
the slot with the lease, an abort only marks it).  Published pages are visited: but for a
commit no step changes the number of commits, and since published records are final
(`QuietStep`) the published set then is the same; a commit lowers depths only.  A
finalized run is over and has no lease (`EndInv`); that it then charges no scope and
has no slot follows from the exact counters and the owned slots.  A withdrawn run
answers only calls that give back (`ShrinkStep`); that a settled job has no time left
of its lease is `LeaseValid` of the next state.

**The page indexer's queue.**  `QueueSound` counts a publication in three lists and a
set, which no step can be seen to preserve as it stands.  What makes it inductive is an
order: publications are numbered as they come, the spider adds at the left and the
indexer claims at the right, so the queue followed by the claims is one falling line
(`LineInv`).  A claim, a recovery and a release move the border between the two lists
and leave the line alone; completion, skip and quarantine take its last element, so
that everything settled is older than everything that waits.  With at most one claim
the scripts that remove a value wherever it stands do so at a known place
(`RemoveOnly`), and no induction over lists is needed.  At most one claim exists
because a new owner claims nothing before it has recovered (`ClaimInv`: in the places
of the loop the owner of the last epoch has no claim open, and while it is busy the
claims are its own one).  `ProcInv` says that no two processes share an epoch, and
`LockInv` that a process between its canonical lock and its release still has it, since
only itself, or an operator once it is gone, removes it.  There is a lemma for each
script (`ClaimKeepsLists`, `GiveBackKeepsLists`, `FinishKeepsLists` and so on) and one
for each step of a process (`RecoverFits`, `WriteFits` and so on), which says that the
step is one of the scripts for the lists and a legal move for the process (`Sound`);
`SoundKeeps` combines them.  The refinement uses the same kinds: each step makes one
script of `OwnedQueue` under the epoch of its process, or leaves the queue as it is.

**The searchable state.**  The fence compares epochs, the properties compare
publications.  `StampInv` joins them: each document, each write that a process may
still make and each write that MongoDB may still carry out has a stamp, a publication
and an epoch, and a pending write whose epoch is not below a document's is not of an
older publication.  A claim keeps this because it takes the oldest of the line, which
is at least as new as everything stamped before; a caller that gave a write up makes no
other write in its epoch (`Quiet`).  From this no document goes back, even through late
writes; and since the canonical lock lets one process handle a URL at a time, and its
claim is newer than all that was handed on (`NewerInv`), what was handed on is changed
only for something newer.

That a settled URL is whole says nothing of the many states in between.  `MadeInv`
follows the plan of the publication being written: each call of it is still to be made
or has left its trace (`Made`), which a later call of the same plan does not remove and
no other process touches; when the plan is empty, the traces together are the state
(`AllMade`).  `WholeInv` is then inductive: each URL shows its last publication handed
on, or one that can be indexed or skipped still waits, as one does from the moment a
process starts to write for it until it is handed on.  A process that stops in the
middle leaves its publication waiting, so the property never has to say what a state
cut short looks like.  `ProcessPath` reduces the steps of a process to the few things
these invariants are sensitive to (where it goes, what it writes, what it hands on).

**The image indexer.**  The falling line, the epochs and the locks are those of the page
indexer, but the argument about the documents is another one.  A page's images are
written by a row of calls: the record, the removal of what is gone, the associations in
bulks, the removal of all postings, the postings in bulks.  `Trace` says what each kind
of call leaves, and `MadeInv` that the calls made so far have left their traces and the
rest of the row is still to be made; `TraceKept` shows that a later call of the row keeps
the traces of the earlier ones.  A call goes on only if its process is still the owner,
whose epoch is the last one given and not below any document's (`StoreOK`), so it gets
past its fence on every document of the page (`Reached`, `TraceMade`), including those
that earlier attempts left half written.  No other process disturbs the traces, since
only the holder of the canonical lock writes for the page (`LockInv`, `MadeElsewhere`).
When the row is empty the traces together are the whole page (`WholePage`), and only then
is the publication acknowledged (`DoneMoves`).  The keywords read from the metadata stay
current because the page indexer moves metadata only under the same lock, but for a
write that it gave up and that lands after it let the lock go (`KeywordsHeld`).  A process
that lost ownership may still write with its old epoch; that the record cannot go back
through it is `StampInv`, as above.

`LateInv` and `LateStamps` are about the writes that were given up.  Such a write has an
epoch, and its attempt made no other write after it; the next attempt on the page runs
under a higher one, since the process that failed gives its claim back and exits.  A
late deletion therefore removes nothing of the current epoch (its fence is below), and a
late upsert replaces nothing of it, but it may bring back what a prune has removed.
`Trace` says of what the row writes that it is there under the current epoch, and of
everything else that it is absent or, in a workload with late writes, of a lower epoch
(`Leftover`).  The postings written so far use the keywords the attempt has read, current
or not, so at the end all use one version of them (`Exactly`).

**The backlinks processor.**  `BufferSound` speaks of bytes, which are sums over the
queue and the buffers.  A sum is characterised by counting (`SumIsCount`): it is the
number of cells of its members, proved along the well-founded order of finite sets, so
that what an admission adds and an acknowledgement takes is an equation on
cardinalities.  The loop of `_admit_members` stops at the first member that does not
fit; `WalkExists` and the least-number principle give what it admitted without
following it.  Two forms of the invariant are needed, since within a cycle the counts
are spread: `Book` relates the queue, the visited targets and the buffers, `BytesInv`
says that what the cycle counts, less what it found at its start, plus what a visit has
still to book, is what is buffered.  A pending member belongs to a target that is
queued or was visited and has a valid name.  `DocsInv` says that a document the tool or
the processor has checked is, as long as compare-and-set would accept it, the document
that MongoDB has, which is `ChecksHold` and more; `CountInv` that the edges the
reconciliation counts as lacking are those it has looked at.  `EdgesAreKept` then
follows from `AckInv`: between the write and the removal from Redis every member to be
removed is in the document (`Served`), whoever else writes to it meanwhile, since no
writer takes an edge out.

**The seed catalog.**  `PipelineLeaves` and `MergesAgree` are the algebra: of two valid
documents the aggregation keeps and adds the same sources as the Python merge, and the
sources it makes have one per key, so that the validator's bound on their number is the
only thing in which the full check and the server's can differ, and they do not.
`WalkExists` follows the merge of an importer's rows without induction over an operator:
by the least row at which it would fail.  `BatchesFacts` says that cutting and sorting
the documents loses none: an id's place is the number of ids before it (`Places`,
`OrderedLists`), and the parts of the line cover it (`PiecesOf`).  The invariant then
has three parts.  `StoredInv`: under the validator everything is valid.  `PreflightInv`:
an importer writes only then, and, as long as nobody else has set the validator, what
its cursor has passed is valid; a collection cannot change meanwhile but for the
operator, whose edit keeps a document valid.  `WritingInv`: what an importer without an
error brings is in the catalog, or newer, or still in its batches.  It survives the
other importers because every write covers what was there (`Grows`, `CoversAll`), and it
is given up when a rebuild replaces the catalog.  Every step of an importer is an
instance of `JobKeeps`; `StageInv` says that the stage has baseline documents only and
all of them when it is renamed.

**The crawl queue.**  What a feed has still to do was read earlier, so it need not agree
with the catalog.  The invariant follows the records that neither a worker nor the
operator has touched since the feed began (`Quiet`): such a record is disabled and gone
or still to be removed (`RemovedInv`), or enabled and pending or still to be added, if
the feed's limit has room for all (`AddedInv`, `Room`).  That a batch and the rest of a
feed make up all of it is `BatchAndRest` and `CutInTwo`; that the feed's two lists name
each record is `ByIdLists` and `ByPriorityLists`.  There is one lemma per step of feed,
worker and operator; `EnqueueFacts` and `RemoveFacts` say what the two scripts do.
`SeedingSteps` puts the two invariants together.

**Only model-checked.**  The liveness properties (`RunFinalizes`, `DelayEnds`,
`EventuallySettled`, `EventuallyAcked`, `EdgesArrive`): they need fairness and
`ENABLED`, which are out of the provers' reach.  `SkippedIsGone` is a disagreement
(section 5).  The properties of the two indexers together (`PageAndImagesAgree`,
`ImplementsFlow`) and of the batch programs: their modules have no proofs.  Those of
the contract speak of recursive functions of texts, and what such a function computes
needs induction over data.

Worth proving next: of the two indexers together, that they exclude each other on a
URL.  It does not follow from the invariants of the two modules as they stand: in
`ImageIndexer` manifests are numbered as they arrive, in `IndexPipeline` as they are
published, and the two differ once a publication is quarantined before it is handed on.

## 5. Findings

- `page_late_skip`: a skip deletes a page's documents together with the epochs that
  guard them.  An upsert of the earlier crawl that MongoDB applies after its caller
  timed out finds nothing to conflict with and brings the page back, although
  `services/indexer/README.md:41-43` says that a permanent skip removes it.

Four more disagreements were met while modelling and are part of the models, with the
properties stated for what the code does.

- `tfidf/main.py:28` calls its final bulk without the collection name, so that an
  interrupted job loses what it collected (`AllWeighed` speaks of jobs that were not
  interrupted).
- The comment at `migration/main.py:141` says that the new entries are added to the new
  database; the call at line 143 writes only full bulks.  Less than one bulk of each
  collection is lost with the process, as it is when a malformed document ends it
  (lines 96 and 124), and running the migration again loses as much again: `NoOpLost`
  speaks of operations as long as the process lives or a signal ends it, `LossBounded`
  of what a process that ends by itself takes with it, which is less than a bulk.
- The comment at `canonical_url.go:400-406` of the spider calls its rules for labels the
  mapping used by the Python and PHP implementations.  The digest verifier follows the
  spider, and both take A-labels that the package `idna` of `url_identity.py` and
  `url_validation.py` refuses, such as a lone symbol, which `lua_url_test.go` asserts
  from line 287 on, and refuse some that it takes.  `VerifierAgrees` says that the
  verifier recognizes exactly the canonical URLs with the two kinds of label exchanged;
  `BacklinksAgree`, between the two programs with one package, needs no exception.
- `services/image-indexer/README.md:41-43` says that each valid publication fully
  reconciles the page's images and postings.  A write of an earlier attempt that lands
  late may leave documents of an older epoch beside them, also after the prune and the
  acknowledgement, and a late write of the metadata postings of keywords that have
  changed, until the page's next publication (`AckedPageIsWhole` allows these
  leftovers, and nothing else, in workloads with late writes).

## 6. Not modelled

- Of the ledger: the planner, context, wire, read and gate modules of the Lua code
  (the framework that lets a script either write its whole plan or nothing, which is
  the atomicity of the actions); memory accounting; the loading, audit, archive and
  purge of a run; several runs that share a rate scope; release administration, called
  by hand once per release; the Go client, which no worker loop uses yet.
- The V1 spider but for its URL queue: goroutines of one process under one mutex, which
  the ledger replaces.
- Text extraction, stemming, the tokenizer's own algorithm and the checks of syntax
  trees in `vendor_nlp.py`: sequential functions of text.
- Page rank: floating-point arithmetic.  The forum: SQL transactions with row locks.
  The query engine, the client, the render worker and the monitoring service:
  stateless or read-only.

`PROJECT.json` lists every part with its state and, under *hazards*, what can go wrong
at which line, with the property that would show it or the reason there is none.

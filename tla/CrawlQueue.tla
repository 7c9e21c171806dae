----------------------------- MODULE CrawlQueue -----------------------------
(***************************************************************************)
(* The V1 crawl queue: three Redis keys (a sorted set of URL ids, the URL  *)
(* and the crawl depth of an id) that the feeder (seed-importer/feed.py)   *)
(* fills from the enabled records of the seed catalog and clears of the    *)
(* disabled ones, and that the spider's workers claim from and push to.    *)
(*                                                                         *)
(* Each Lua script is one step.  Nothing ties a feed to the catalog while  *)
(* it runs: the feeder reads the disabled records, then the enabled ones,  *)
(* and the operator may change either in between.                          *)
(***************************************************************************)
EXTENDS Integers, Sequences, SequencesExt, FiniteSets, FiniteSetsExt, Functions, Ordering

CONSTANTS
    Id,             \* URL ids, numbers in their order
    Invalid,        \* ids whose stored record does not fit its URL
    Worker,         \* the spider's workers
    BatchSize,      \* feed.py --batch-size
    Limit,          \* feed.py --limit, 0 for none
    MaxScore,       \* utils.MaxScore
    MaxDepth,       \* the depth the crawl policy stops at
    Pending,        \* the sets of ids that may be pending at the start
    MaxEdits, MaxPushes, MaxFaults  \* bounds on edits, pushes and lost replies

VARIABLES
    catalog,        \* id -> [enabled, priority]
    queue,          \* the sorted set: ids that are pending, with their scores
    urls,           \* the URL of an id: "none", its own, or another's
    depths,         \* the depth of an id, -1 when there is none
    feed,           \* where the feeder is
    worker,         \* where each worker of the spider is
    since,          \* ids edited, claimed or pushed since the feed began
    edits, pushes, faults

redis == <<queue, urls, depths>>
vars  == <<catalog, queue, urls, depths, feed, worker, since, edits, pushes, faults>>

None   == -1
Queued == {u \in Id : queue[u] # None}
Lower(a, b) == IF a = None \/ b < a THEN b ELSE a

-----------------------------------------------------------------------------
(* The scripts. *)

\* ENQUEUE_SCRIPT and pushURLV1Script for the members m of S: m[u] is the score
\* and the depth asked for.  An id that is pending keeps the lower of both.
Enqueued(S, m) ==
    /\ urls'  = [u \in Id |-> IF u \in S THEN "own" ELSE urls[u]]
    /\ queue' = [u \in Id |-> IF u \in S THEN Lower(queue[u], m[u].score) ELSE queue[u]]
    /\ depths' = [u \in Id |->
            IF u \notin S THEN depths[u]
            ELSE IF queue[u] = None THEN m[u].depth ELSE Lower(depths[u], m[u].depth)]

\* REMOVE_DISABLED_SCRIPT.
Removed(S) ==
    /\ queue'  = [u \in Id |-> IF u \in S THEN None ELSE queue[u]]
    /\ urls'   = [u \in Id |-> IF u \in S THEN "none" ELSE urls[u]]
    /\ depths' = [u \in Id |-> IF u \in S THEN None ELSE depths[u]]

\* Both scripts check every member before they write any.
Collides(S) == \E u \in S : urls[u] = "other"

-----------------------------------------------------------------------------
(* The feeder. *)

Score(u) == catalog[u].priority - 1

FeedOff == [pc |-> "off", todo |-> <<>>]

FeedStart ==
    /\ feed.pc \in {"off", "done", "failed"}
    /\ feed' = [pc |-> "disabled", todo |-> <<>>]
    /\ since' = {}
    /\ UNCHANGED <<catalog, redis, worker, edits, pushes, faults>>

\* The disabled records, those that are no valid pair of id and URL skipped.
FindDisabled ==
    /\ feed.pc = "disabled"
    /\ LET ids == {u \in Id : ~catalog[u].enabled} \ Invalid
           todo == Ordered(ids, LAMBDA u, v : u < v)
       IN feed' = [pc |-> "remove", todo |-> [k \in 1..Len(todo) |-> [id |-> todo[k]]]]
    /\ UNCHANGED <<catalog, redis, worker, since, edits, pushes, faults>>

\* The enabled ones by priority; the limit counts the invalid ones as well.
FindEnabled ==
    /\ feed.pc = "enabled"
    /\ LET ids == {u \in Id : catalog[u].enabled}
           before(u, v) == \/ catalog[u].priority < catalog[v].priority
                           \/ catalog[u].priority = catalog[v].priority /\ u < v
           all  == Ordered(ids, before)
           some == IF Limit = 0 \/ Len(all) <= Limit THEN all ELSE SubSeq(all, 1, Limit)
           todo == Ordered(ToSet(some) \ Invalid, before)
       IN feed' = [pc |-> "enqueue",
                   todo |-> [k \in 1..Len(todo) |-> [id |-> todo[k], score |-> Score(todo[k])]]]
    /\ UNCHANGED <<catalog, redis, worker, since, edits, pushes, faults>>

Batch == SubSeq(feed.todo, 1, Min({BatchSize, Len(feed.todo)}))
FaultyRest == SubSeq(feed.todo, Len(Batch) + 2, Len(feed.todo))
Rest  == SubSeq(feed.todo, Len(Batch) + 1, Len(feed.todo))
Ids(s) == {s[k].id : k \in 1..Len(s)}
Asked(s) == [u \in Ids(s) |-> [score |-> (CHOOSE r \in Range(s) : r.id = u).score, depth |-> 0]]

\* A batch is one script call; the feed ends with it when it raises.
FeedBatch(pc, next, Script(_)) ==
    /\ feed.pc = pc
    /\ IF feed.todo = <<>> THEN feed' = [pc |-> next, todo |-> <<>>] /\ UNCHANGED redis
       ELSE IF Collides(Ids(Batch))
       THEN feed' = [pc |-> "failed", todo |-> <<>>] /\ UNCHANGED redis
       ELSE feed' = [feed EXCEPT !.todo = Rest] /\ Script(Batch)
    /\ UNCHANGED <<catalog, worker, since, edits, pushes, faults>>

RemoveBatch  == FeedBatch("remove", "enabled", LAMBDA s : Removed(Ids(s)))
EnqueueBatch == FeedBatch("enqueue", "done", LAMBDA s : Enqueued(Ids(s), Asked(s)))

\* The connection fails, with the script applied or not.
FeedFails ==
    /\ feed.pc \in {"remove", "enqueue"} /\ feed.todo # <<>>
    /\ faults < MaxFaults
    /\ faults' = faults + 1
    /\ feed' = [pc |-> "failed", todo |-> <<>>]
    /\ \/ UNCHANGED redis
       \/ ~Collides(Ids(Batch)) /\ IF feed.pc = "remove" THEN Removed(Ids(Batch))
                                   ELSE Enqueued(Ids(Batch), Asked(Batch))
    /\ UNCHANGED <<catalog, worker, since, edits, pushes>>

Feed == FindDisabled \/ RemoveBatch \/ FindEnabled \/ EnqueueBatch

-----------------------------------------------------------------------------
(* The spider. *)

Off == [pc |-> "idle", id |-> 0, score |-> 0, depth |-> 0, link |-> 0, linkScore |-> 0]

\* A candidate is read from a snapshot of the queue that may be old when the
\* claim runs; ids without URL or depth are no candidates.  The reads of the
\* queue and of the URLs are one step: Claim compares all that they returned
\* with what is there then, so values of two moments only make it fail.
Inspect(w, u) ==
    /\ worker[w].pc = "idle"
    /\ u \in Queued /\ urls[u] = "own" /\ depths[u] # None
    /\ worker' = [worker EXCEPT ![w] = [Off EXCEPT !.pc = "inspected", !.id = u,
                                                   !.score = queue[u], !.depth = depths[u]]]
    /\ UNCHANGED <<catalog, redis, feed, since, edits, pushes, faults>>

\* claimURLV1Script: the id leaves the queue only if its score, URL and depth
\* are still those inspected; its URL and depth stay behind.
Claim(w) ==
    /\ worker[w].pc = "inspected"
    /\ LET u == worker[w].id
       IN IF queue[u] = worker[w].score /\ urls[u] = "own" /\ depths[u] = worker[w].depth
          THEN /\ worker' = [worker EXCEPT ![w].pc = "crawl"]
               /\ queue' = [queue EXCEPT ![u] = None]
               /\ since' = since \cup {u}
          ELSE /\ worker' = [worker EXCEPT ![w] = Off]
               /\ UNCHANGED <<queue, since>>
    /\ UNCHANGED <<catalog, urls, depths, feed, edits, pushes, faults>>

Push(w, u, score, depth) ==
    /\ since' = since \cup {u}
    /\ IF urls[u] = "other" THEN UNCHANGED redis
       ELSE Enqueued({u}, [v \in {u} |-> [score |-> score, depth |-> depth]])

\* The crawl was refused its capacity, or rendering failed for now.
Requeue(w) ==
    /\ worker[w].pc = "crawl"
    /\ pushes < MaxPushes
    /\ pushes' = pushes + 1
    /\ Push(w, worker[w].id, worker[w].score, worker[w].depth)
    /\ worker' = [worker EXCEPT ![w] = Off]
    /\ UNCHANGED <<catalog, feed, edits, faults>>

\* A page links to v: its score is read first, and pushed in a later call.
Discover(w, v) ==
    /\ worker[w].pc = "crawl"
    /\ v # worker[w].id
    /\ worker[w].depth < MaxDepth
    /\ pushes < MaxPushes
    /\ LET score == IF queue[v] # None THEN queue[v] ELSE worker[w].score + 1
       IN worker' = [worker EXCEPT ![w].pc = "push", ![w].link = v,
                                   ![w].linkScore = Min({score, MaxScore})]
    /\ UNCHANGED <<catalog, redis, feed, since, edits, pushes, faults>>

PushLink(w) ==
    /\ worker[w].pc = "push"
    /\ pushes < MaxPushes
    /\ pushes' = pushes + 1
    /\ Push(w, worker[w].link, worker[w].linkScore, worker[w].depth + 1)
    /\ worker' = [worker EXCEPT ![w].pc = "crawl", ![w].link = 0, ![w].linkScore = 0]
    /\ UNCHANGED <<catalog, feed, edits, faults>>

\* The crawl ends, or the process dies with the claim in its memory only.
EndCrawl(w) ==
    /\ worker[w].pc \in {"crawl", "push"}
    /\ worker' = [worker EXCEPT ![w] = Off]
    /\ UNCHANGED <<catalog, redis, feed, since, edits, pushes, faults>>

-----------------------------------------------------------------------------
\* The operator enables or disables a record, or an import moves its priority.
Edit(u) ==
    /\ edits < MaxEdits
    /\ edits' = edits + 1
    /\ since' = since \cup {u}
    /\ \/ catalog' = [catalog EXCEPT ![u].enabled = ~@]
       \/ \E p \in 1..3 : catalog' = [catalog EXCEPT ![u].priority = p]
    /\ UNCHANGED <<redis, feed, worker, pushes, faults>>

Init ==
    /\ \E on \in SUBSET Id :
          catalog = [u \in Id |-> [enabled |-> u \in on, priority |-> (u % 3) + 1]]
    /\ \E p \in Pending : queue = [u \in Id |-> IF u \in p THEN 1 ELSE None]
    /\ \E other \in {{}} \cup {{u} : u \in Id \ Queued} :
          urls = [u \in Id |-> IF u \in other THEN "other"
                               ELSE IF u \in Queued THEN "own" ELSE "none"]
    /\ depths = [u \in Id |-> IF urls[u] = "none" THEN None ELSE 1]
    /\ feed = FeedOff
    /\ worker = [w \in Worker |-> Off]
    /\ since = {} /\ edits = 0 /\ pushes = 0 /\ faults = 0

Next ==
    \/ FeedStart \/ Feed \/ FeedFails
    \/ \E w \in Worker : \/ Claim(w) \/ Requeue(w) \/ PushLink(w) \/ EndCrawl(w)
                         \/ \E u \in Id : Inspect(w, u) \/ Discover(w, u)
    \/ \E u \in Id : Edit(u)

Spec == Init /\ [][Next]_vars

-----------------------------------------------------------------------------
(* Properties. *)

\* An id that is pending has its own URL and a depth, so that no worker pops an
\* orphan, whatever feeders and workers do at the same time.
NoOrphans == \A u \in Queued : urls[u] = "own" /\ depths[u] # None

\* While an id is pending nothing makes its score or its depth worse.
OnlyImproves ==
        \A u \in Id : queue[u] # None /\ queue'[u] # None =>
            queue'[u] <= queue[u] /\ depths'[u] <= depths[u]

\* A claim takes the entry that was inspected: a shallower depth or a better
\* score that arrived in between is not lost with it.
ClaimsCurrent ==
        \A w \in Worker : worker[w].pc = "inspected" /\ worker'[w].pc = "crawl" =>
            /\ queue[worker[w].id] = worker[w].score
            /\ depths[worker[w].id] = worker[w].depth

\* When a feed has ended well no disabled record is pending, unless it was
\* edited or pushed while the feed ran.
DisabledGone ==
    feed.pc = "done" =>
        \A u \in Id \ (since \cup Invalid) : ~catalog[u].enabled => u \notin Queued

\* ... and every enabled one is, at the score of its priority or better, as a
\* start of the crawl.
EnabledPending ==
    feed.pc = "done" /\ (Limit = 0 \/ Cardinality(since \cup {u \in Id : catalog[u].enabled}) <= Limit) =>
        \A u \in Id \ (since \cup Invalid) : catalog[u].enabled =>
            u \in Queued /\ queue[u] <= Score(u) /\ depths[u] = 0

\* A record that does not fit its URL never enters the queue through a feed.
KeepsInvalidOut ==
        \A u \in Invalid \ since' : queue[u] = None => queue'[u] = None
=============================================================================

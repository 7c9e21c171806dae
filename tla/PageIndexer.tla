----------------------------- MODULE PageIndexer -----------------------------
(***************************************************************************)
(* The page indexer (services/indexer): processes that overlap, of which   *)
(* the owner of the queue claims one immutable publication at a time,      *)
(* takes the URL's canonical lock in MongoDB, rewrites the searchable      *)
(* state of the URL one collection at a time, and hands the publication's  *)
(* image manifest on.                                                      *)
(*                                                                         *)
(* A step ends just before a call whose outcome another process or a crash *)
(* can change: owner_check (SIGTERM, renewal of the owner lock, the        *)
(* canonical lock) is evaluated with the write that precedes it, so the    *)
(* gap between a check and the write it permits is kept.                   *)
(*                                                                         *)
(* Publications are numbered in the order in which they are published.  A  *)
(* process takes one epoch in its life, so the epoch stands for its random *)
(* token: the canonical lock of a URL holds [service, pub, epoch].         *)
(***************************************************************************)
EXTENDS Integers, Sequences, SequencesExt, FiniteSets

CONSTANTS
    Proc,           \* indexer processes that may run at once
    NPub,           \* bound on the publications of a behaviour
    Url, Word,
    MaxEpoch, DeadMax, RecoverBatch,
    Workloads       \* what the spider may publish, and how much may fail

Pub == 1..NPub

Kinds == {"page", "rendered", "empty", "rendered empty", "corrupt", "invalid"}

\* A publication has a URL, a kind of key and payload, and the words of its
\* text; a workload also bounds the crashes, failed calls, expiries and
\* signals, and says whether a write may land after its call has timed out.
ASSUME WorkloadAssumption ==
    /\ NPub \in Nat /\ MaxEpoch \in Nat
    /\ DeadMax \in Nat \ {0} /\ RecoverBatch \in Nat \ {0}
    /\ \A w \in Workloads :
          /\ w.pubs \in Seq([url : Url, words : SUBSET Word,
                             kind : Kinds])
          /\ Len(w.pubs) <= NPub /\ w.faults \in Nat /\ w.late \in BOOLEAN

VARIABLES
    workload,       \* chosen once
    owner, epoch, queue, processing, dead, done,    \* see OwnedQueue
    published,      \* publications the spider has published
    inputs,         \* publications whose page and outlinks keys exist
    canonical,      \* canonical_url_ownership_locks
    store,          \* words, metadata, outlinks, page_artifacts, dictionary
    proc,           \* what each process is doing
    late,           \* writes given up by their caller that may still land
    signals,        \* has RESUME_CRAWL been sent for the present idle time?
    faults

queueVars == <<owner, epoch, queue, processing, dead, done>>
mongoVars == <<canonical, store, late>>
envVars   == <<published, faults, workload>>
vars == <<queueVars, inputs, mongoVars, envVars, proc, signals>>

Queue == INSTANCE OwnedQueue WITH Value <- Pub

UrlOf(v)   == workload.pubs[v].url
Kind(v)    == workload.pubs[v].kind
WordsOf(v) == workload.pubs[v].words

\* page.rendered, and a page that has English text.
Rendered(v)  == Kind(v) \in {"rendered", "rendered empty"}
Indexable(v) == Kind(v) \in {"page", "rendered"}

NoDoc == [pub |-> 0, epoch |-> 0]
Free  == [service |-> "none", pub |-> 0, epoch |-> 0]

\* A process that is not running.
Stopped == [pc |-> "down", epoch |-> 0, claim |-> 0, running |-> TRUE,
            sent |-> FALSE, todo |-> <<>>, outcome |-> "none"]

ClaimUrl(p) == UrlOf(proc[p].claim)
Mine(p)     == [service |-> "page", pub |-> proc[p].claim, epoch |-> proc[p].epoch]
Owner(p)    == Queue!Holds(proc[p].epoch)

\* owner_check: still running, still the queue's owner, still the URL's.
OwnerCheck(p) ==
    /\ proc[p].running
    /\ Owner(p)
    /\ canonical[ClaimUrl(p)] = Mine(p)

Goto(p, l)       == proc' = [proc EXCEPT ![p].pc = l]
Finished(p, res) == proc' = [proc EXCEPT ![p].pc = "unlock", ![p].outcome = res,
                                         ![p].todo = <<>>]
Spend == faults < workload.faults /\ faults' = faults + 1

-----------------------------------------------------------------------------
(* What one MongoDB call does.  Every selector carries the fence: it finds *)
(* documents of no epoch or of an epoch that is not above the caller's.    *)

Fenced(doc, e)       == doc.epoch <= e

UpsertDoc(doc, op) == IF Fenced(doc, op.epoch) THEN [pub |-> op.pub, epoch |-> op.epoch] ELSE doc
DeleteDoc(doc, op) == IF Fenced(doc, op.epoch) THEN NoDoc ELSE doc

FaultyDropStaleWords(s, op) == s

DropStaleWords(s, op) ==
    [s EXCEPT !.words[UrlOf(op.pub)] =
        [w \in Word |-> IF w \in WordsOf(op.pub) THEN @[w] ELSE DeleteDoc(@[w], op)]]

\* An unordered bulk write: the postings without a conflict are written.
UpsertWords(s, op) ==
    [s EXCEPT !.words[UrlOf(op.pub)] =
        [w \in Word |-> IF w \in WordsOf(op.pub) THEN UpsertDoc(@[w], op) ELSE @[w]]]

\* The dictionary is shared by all URLs, only grows, and carries no epoch.
AddToDictionary(s, op) == [s EXCEPT !.dictionary = @ \cup WordsOf(op.pub)]

ReplaceMetadata(s, op) == [s EXCEPT !.meta[UrlOf(op.pub)] = UpsertDoc(@, op)]
ReplaceOutlinks(s, op) == [s EXCEPT !.links[UrlOf(op.pub)] = UpsertDoc(@, op)]
SavePageArtifact(s, op) == [s EXCEPT !.artifact[UrlOf(op.pub)] = UpsertDoc(@, op)]

RemoveWords(s, op) ==
    [s EXCEPT !.words[UrlOf(op.pub)] = [w \in Word |-> DeleteDoc(@[w], op)]]
RemoveMetadata(s, op) == [s EXCEPT !.meta[UrlOf(op.pub)] = DeleteDoc(@, op)]
RemoveOutlinks(s, op) == [s EXCEPT !.links[UrlOf(op.pub)] = DeleteDoc(@, op)]

Apply(s, op) ==
    CASE op.call = "artifact"   -> SavePageArtifact(s, op)
      [] op.call = "stale"      -> DropStaleWords(s, op)
      [] op.call = "words"      -> UpsertWords(s, op)
      [] op.call = "dictionary" -> AddToDictionary(s, op)
      [] op.call = "metadata"   -> ReplaceMetadata(s, op)
      [] op.call = "outlinks"   -> ReplaceOutlinks(s, op)
      [] op.call = "no words"    -> RemoveWords(s, op)
      [] op.call = "no metadata" -> RemoveMetadata(s, op)
      [] op.call = "no outlinks" -> RemoveOutlinks(s, op)

\* An upsert that finds no fenced document inserts, and the unique key
\* refuses it: DuplicateKeyError or BulkWriteError.
Conflicts(s, op) ==
    LET u == UrlOf(op.pub) IN
    \/ op.call = "words" /\ \E w \in WordsOf(op.pub) : ~Fenced(s.words[u][w], op.epoch)
    \/ op.call = "metadata" /\ ~Fenced(s.meta[u], op.epoch)
    \/ op.call = "outlinks" /\ ~Fenced(s.links[u], op.epoch)
    \/ op.call = "artifact" /\ ~Fenced(s.artifact[u], op.epoch)

\* The calls of replace_search_state and of remove_search_state, in order;
\* a bulk write without operations is not made.
ReplaceSearchState(pub) ==
    IF WordsOf(pub) = {} THEN <<"stale", "metadata", "outlinks">>
    ELSE <<"stale", "words", "dictionary", "metadata", "outlinks">>
RemoveSearchState == <<"no words", "no metadata", "no outlinks">>

\* A rendered page keeps its artifact, whether or not it can be indexed.
Calls(pub) ==
    (IF Rendered(pub) THEN <<"artifact">> ELSE <<>>)
        \o (IF Indexable(pub) THEN ReplaceSearchState(pub) ELSE RemoveSearchState)

-----------------------------------------------------------------------------
(* The spider, the clock and the supervisor. *)

Publish ==
    /\ published < Len(workload.pubs)
    /\ published' = published + 1
    /\ Queue!Push(published + 1)
    /\ inputs' = inputs \cup (IF Kind(published + 1) = "corrupt" THEN {} ELSE {published + 1})
    /\ signals' = FALSE
    /\ UNCHANGED <<mongoVars, faults, workload, proc>>

Alive(e) == \E p \in Proc : proc[p].epoch = e /\ proc[p].pc # "down"

\* The lock of a dead process expires; that of a live one does when the
\* process makes no call for a minute.
LockExpires ==
    /\ Queue!LockExpires
    /\ IF Alive(owner) THEN Spend ELSE UNCHANGED faults
    /\ UNCHANGED <<inputs, mongoVars, published, workload, proc, signals>>

Start(p) ==
    /\ proc[p].pc = "down"
    /\ Goto(p, "acquire")
    /\ UNCHANGED <<queueVars, inputs, mongoVars, envVars, signals>>

Terminate(p) ==
    /\ proc[p].pc # "down"
    /\ proc[p].running
    /\ Spend
    /\ proc' = [proc EXCEPT ![p].running = FALSE]
    /\ UNCHANGED <<queueVars, inputs, mongoVars, published, workload, signals>>

Crash(p) ==
    /\ proc[p].pc # "down"
    /\ Spend
    /\ proc' = [proc EXCEPT ![p] = Stopped]
    /\ UNCHANGED <<queueVars, inputs, mongoVars, published, workload, signals>>

\* README: operators delete the exact lock once no matching indexer remains.
OperatorClears(u) ==
    /\ canonical[u].service = "page"
    /\ ~Alive(canonical[u].epoch)
    /\ canonical' = [canonical EXCEPT ![u] = Free]
    /\ UNCHANGED <<queueVars, inputs, store, late, envVars, proc, signals>>

\* The server carries out a write whose caller gave up after socketTimeoutMS.
WriteLands(op) ==
    /\ late' = late \ {op}
    /\ store' = Apply(store, op)
    /\ UNCHANGED <<queueVars, inputs, canonical, envVars, proc, signals>>

-----------------------------------------------------------------------------
(* One process.  The last disjunct of most steps is a call that raises: it *)
(* has had its effect or has not, and the process cannot tell.             *)

Quit(p)     == Goto(p, "exit")
Unmoved     == UNCHANGED queueVars
NoMongo     == UNCHANGED mongoVars

AcquireOwner(p) ==
    /\ proc[p].pc = "acquire"
    /\ \/ /\ proc[p].running
          /\ Queue!AcquireLock
          /\ proc' = [proc EXCEPT ![p].pc = "recover", ![p].epoch = epoch + 1]
          /\ UNCHANGED faults
       \/ /\ ~proc[p].running
          /\ proc' = [proc EXCEPT ![p] = Stopped]
          /\ Unmoved /\ UNCHANGED faults
       \/ /\ Spend
          /\ proc' = [proc EXCEPT ![p] = Stopped]
          /\ Unmoved \/ Queue!AcquireLock
    /\ NoMongo /\ UNCHANGED <<inputs, published, workload, signals>>

RecoverClaims(p) ==
    /\ proc[p].pc = "recover"
    /\ \/ /\ proc[p].running /\ Owner(p)
          /\ Queue!RecoverScript(proc[p].epoch)
          /\ Goto(p, IF Len(processing) < RecoverBatch THEN "loop" ELSE "recover")
          /\ UNCHANGED faults
       \/ /\ ~(proc[p].running /\ Owner(p))
          /\ Quit(p) /\ Unmoved /\ UNCHANGED faults
       \/ Spend /\ Quit(p) /\ (Unmoved \/ Queue!RecoverScript(proc[p].epoch))
    /\ NoMongo /\ UNCHANGED <<inputs, published, workload, signals>>

\* The head of the loop: work sizes, and whether the crawler is to be woken.
Inspect(p) ==
    LET idle == queue = <<>> /\ processing = <<>> IN
    /\ proc[p].pc = "loop"
    /\ \/ /\ proc[p].running /\ Owner(p)
          /\ IF idle /\ ~proc[p].sent
             THEN Goto(p, "signal")
             ELSE proc' = [proc EXCEPT ![p].pc = "claim", ![p].sent = @ /\ idle]
          /\ UNCHANGED faults
       \/ ~(proc[p].running /\ Owner(p)) /\ Quit(p) /\ UNCHANGED faults
       \/ Spend /\ Quit(p)
    /\ Unmoved /\ NoMongo /\ UNCHANGED <<inputs, published, workload, signals>>

SignalCrawler(p) ==
    /\ proc[p].pc = "signal"
    /\ \/ /\ Owner(p)
          /\ signals' = TRUE
          /\ proc' = [proc EXCEPT ![p].pc = "claim", ![p].sent = TRUE]
          /\ UNCHANGED faults
       \/ ~Owner(p) /\ Quit(p) /\ UNCHANGED <<faults, signals>>
       \/ Spend /\ Quit(p) /\ signals' \in {signals, TRUE}
    /\ Unmoved /\ NoMongo /\ UNCHANGED <<inputs, published, workload>>

ClaimPage(p) ==
    /\ proc[p].pc = "claim"
    /\ \/ /\ Queue!ClaimScript(proc[p].epoch)
          /\ proc' = [proc EXCEPT ![p].pc = "claimed", ![p].claim = Last(queue),
                                  ![p].sent = FALSE]
          /\ UNCHANGED faults
       \/ Owner(p) /\ queue = <<>> /\ Goto(p, "loop") /\ Unmoved /\ UNCHANGED faults
       \/ ~Owner(p) /\ Quit(p) /\ Unmoved /\ UNCHANGED faults
       \/ Spend /\ Quit(p) /\ (Unmoved \/ Queue!ClaimScript(proc[p].epoch))
    /\ NoMongo /\ UNCHANGED <<inputs, published, workload, signals>>

\* A claim taken during shutdown is left for the next owner to recover.
LeaveClaim(p) ==
    /\ proc[p].pc = "claimed"
    /\ ~proc[p].running
    /\ Quit(p)
    /\ Unmoved /\ NoMongo /\ UNCHANGED <<inputs, envVars, signals>>

FaultyQuarantineInvalid(p) ==
    /\ proc[p].pc = "claimed"
    /\ proc[p].running
    /\ Kind(proc[p].claim) = "invalid"
    /\ proc' = [proc EXCEPT ![p].pc = "loop", ![p].claim = 0]
    /\ Queue!QuarantineScript(proc[p].epoch, proc[p].claim) \/ Unmoved
    /\ NoMongo /\ UNCHANGED <<faults, inputs, published, workload, signals>>

\* A queue value that is no publication key names no URL to lock.
QuarantineInvalid(p) ==
    /\ proc[p].pc = "claimed"
    /\ proc[p].running
    /\ Kind(proc[p].claim) = "invalid"
    /\ \/ /\ Queue!QuarantineScript(proc[p].epoch, proc[p].claim)
          /\ proc' = [proc EXCEPT ![p].pc = "loop", ![p].claim = 0]
          /\ UNCHANGED faults
       \/ ~Owner(p) /\ Quit(p) /\ Unmoved /\ UNCHANGED faults
       \/ Spend /\ Quit(p) /\ (Unmoved \/ Queue!QuarantineScript(proc[p].epoch, proc[p].claim))
    /\ NoMongo /\ UNCHANGED <<inputs, published, workload, signals>>

\* The renewal of the owner's lock and the insert of the canonical one are one
\* step: an owner that loses the queue between them holds a canonical lock that
\* it gives back after its first owner_check, as it does when it loses the queue after
\* the insert.  insert_one never steals a lock; when it raises the claim is
\* given up without a release, whether or not the lock exists now.
FaultyAcquireCanonical(p) ==
    /\ proc[p].pc = "claimed"
    /\ proc[p].running
    /\ Kind(proc[p].claim) # "invalid"
    /\ IF Owner(p)
       THEN Goto(p, "load") /\ canonical' = [canonical EXCEPT ![ClaimUrl(p)] = Mine(p)]
       ELSE Goto(p, "release") /\ UNCHANGED canonical
    /\ Unmoved /\ UNCHANGED <<store, late, inputs, envVars, signals>>

AcquireCanonical(p) ==
    LET u == ClaimUrl(p)
        Insert == canonical[u] = Free /\ canonical' = [canonical EXCEPT ![u] = Mine(p)]
    IN  /\ proc[p].pc = "claimed"
        /\ proc[p].running
        /\ Kind(proc[p].claim) # "invalid"
        /\ \/ Owner(p) /\ Insert /\ Goto(p, "load") /\ UNCHANGED faults
           \/ /\ ~Owner(p) \/ canonical[u] # Free
              /\ Goto(p, "release") /\ UNCHANGED <<canonical, faults>>
           \/ Spend /\ Goto(p, "release") /\ (UNCHANGED canonical \/ Insert)
        /\ Unmoved /\ UNCHANGED <<store, late, inputs, published, workload, signals>>

\* An absent or malformed page cannot touch the searchable state.
LoadPage(p) ==
    LET v   == proc[p].claim
        bad == v \notin inputs
        Quarantine == OwnerCheck(p) /\ Queue!QuarantineScript(proc[p].epoch, v)
    IN  /\ proc[p].pc = "load"
        /\ \/ bad /\ Quarantine /\ Finished(p, "dead") /\ UNCHANGED faults
           \/ /\ ~bad /\ OwnerCheck(p)
              /\ proc' = [proc EXCEPT ![p].pc = "write", ![p].todo = Calls(v)]
              /\ Unmoved /\ UNCHANGED faults
           \/ ~OwnerCheck(p) /\ Finished(p, "failed") /\ Unmoved /\ UNCHANGED faults
           \/ /\ Spend /\ Finished(p, "failed")
              /\ Unmoved \/ (bad /\ Quarantine)
        /\ NoMongo /\ UNCHANGED <<inputs, published, workload, signals>>

\* One call of the plan, then owner_check.  The process goes on only when
\* the call is acknowledged without a conflict and the check succeeds.
Write(p) ==
    LET op == [call |-> Head(proc[p].todo), pub |-> proc[p].claim, epoch |-> proc[p].epoch]
        rest == Tail(proc[p].todo)
    IN  /\ proc[p].pc = "write"
        /\ \/ /\ store' = Apply(store, op)
              /\ IF ~Conflicts(store, op) /\ OwnerCheck(p)
                 THEN proc' = [proc EXCEPT ![p].pc = IF rest = <<>> THEN "finish" ELSE "write",
                                           ![p].todo = rest]
                 ELSE Finished(p, "failed")
              /\ UNCHANGED <<late, faults>>
           \/ /\ Spend /\ Finished(p, "failed")
              /\ \/ store' \in {store, Apply(store, op)} /\ UNCHANGED late
                 \/ workload.late /\ late' = late \cup {op} /\ UNCHANGED store
        /\ Unmoved /\ UNCHANGED <<canonical, inputs, published, workload, signals>>

\* The completion and the skip script: the manifest is queued for the image
\* indexer (the value is done), the claim and the exact inputs are removed.
HandOn(p) ==
    /\ Queue!FinishScript(proc[p].epoch, proc[p].claim)
    /\ inputs' = inputs \ {proc[p].claim}

FinishPage(p) ==
    \/ HandOn(p) /\ Finished(p, "done") /\ UNCHANGED faults
    \/ /\ ~(Owner(p) /\ Contains(processing, proc[p].claim))
       /\ Finished(p, "failed")
       /\ Unmoved /\ UNCHANGED <<inputs, faults>>
    \/ /\ Spend /\ Finished(p, "failed")
       /\ HandOn(p) \/ (Unmoved /\ UNCHANGED inputs)

CompletePage(p) ==
    /\ proc[p].pc = "finish"
    /\ Indexable(proc[p].claim)
    /\ FinishPage(p)
    /\ NoMongo /\ UNCHANGED <<published, workload, signals>>

SkipPage(p) ==
    /\ proc[p].pc = "finish"
    /\ ~Indexable(proc[p].claim)
    /\ FinishPage(p)
    /\ NoMongo /\ UNCHANGED <<published, workload, signals>>

\* The release deletes the lock of this owner only; when it fails the lock
\* stays for an operator to review.
UnlockCanonical(p) ==
    /\ proc[p].pc = "unlock"
    /\ proc' = [proc EXCEPT ![p].pc = IF proc[p].outcome = "failed" THEN "release" ELSE "loop",
                            ![p].claim = IF proc[p].outcome = "failed" THEN @ ELSE 0,
                            ![p].outcome = "none"]
    /\ \/ canonical' = [canonical EXCEPT ![ClaimUrl(p)] = IF @ = Mine(p) THEN Free ELSE @]
          /\ UNCHANGED faults
       \/ Spend /\ UNCHANGED canonical
    /\ Unmoved /\ UNCHANGED <<store, late, inputs, published, workload, signals>>

FaultyReleasePage(p) ==
    /\ proc[p].pc = "release"
    /\ Quit(p)
    /\ queue' = Append(queue, proc[p].claim)
    /\ processing' = RemoveFirst(processing, proc[p].claim)
    /\ NoMongo /\ UNCHANGED <<owner, epoch, dead, done, faults, inputs, published, workload, signals>>

\* One attempt to give the claim back, then the process ends.
ReleasePage(p) ==
    LET Give == Queue!ReleaseScript(proc[p].epoch, proc[p].claim) IN
    /\ proc[p].pc = "release"
    /\ Quit(p)
    /\ \/ Give /\ UNCHANGED faults
       \/ /\ ~(Owner(p) /\ Contains(processing, proc[p].claim))
          /\ Unmoved /\ UNCHANGED faults
       \/ Spend /\ (Unmoved \/ Give)
    /\ NoMongo /\ UNCHANGED <<inputs, published, workload, signals>>

ReleaseOwner(p) ==
    /\ proc[p].pc = "exit"
    /\ proc' = [proc EXCEPT ![p] = Stopped]
    /\ \/ Queue!DropLock(proc[p].epoch) /\ UNCHANGED faults
       \/ ~Owner(p) /\ Unmoved /\ UNCHANGED faults
       \/ Spend /\ Unmoved
    /\ NoMongo /\ UNCHANGED <<inputs, published, workload, signals>>

-----------------------------------------------------------------------------
Init ==
    /\ workload \in Workloads
    /\ Queue!QueueInit
    /\ published = 0
    /\ inputs = {}
    /\ canonical = [u \in Url |-> Free]
    /\ store = [words |-> [u \in Url |-> [w \in Word |-> NoDoc]],
                meta |-> [u \in Url |-> NoDoc], links |-> [u \in Url |-> NoDoc],
                artifact |-> [u \in Url |-> NoDoc], dictionary |-> {}]
    /\ proc = [p \in Proc |-> Stopped]
    /\ late = {}
    /\ signals = FALSE
    /\ faults = 0

\* process_claim, from the canonical lock to its release.
ProcessClaim(p) ==
    \/ AcquireCanonical(p)
    \/ LoadPage(p)
    \/ Write(p)
    \/ CompletePage(p)
    \/ SkipPage(p)
    \/ UnlockCanonical(p)

\* run_indexer.
RunIndexer(p) ==
    \/ AcquireOwner(p)
    \/ RecoverClaims(p)
    \/ Inspect(p)
    \/ SignalCrawler(p)
    \/ ClaimPage(p)
    \/ LeaveClaim(p)
    \/ QuarantineInvalid(p)
    \/ ProcessClaim(p)
    \/ ReleasePage(p)
    \/ ReleaseOwner(p)

Next ==
    \/ Publish
    \/ LockExpires
    \/ \E p \in Proc : Start(p) \/ Terminate(p) \/ Crash(p) \/ RunIndexer(p)
    \/ \E u \in Url : OperatorClears(u)
    \/ \E op \in late : WriteLands(op)

Fairness ==
    /\ WF_vars(LockExpires /\ ~Alive(owner))
    /\ \A p \in Proc : WF_vars(Start(p)) /\ WF_vars(RunIndexer(p))
    /\ \A u \in Url : WF_vars(OperatorClears(u))

Spec     == Init /\ [][Next]_vars
FairSpec == Spec /\ Fairness

-----------------------------------------------------------------------------
(* Properties. *)

Places(v) ==
    LET lists == queue \o processing \o dead
    IN  Cardinality({i \in 1..Len(lists) : lists[i] = v}) + (IF v \in done THEN 1 ELSE 0)

\* A publication is in exactly one place: waiting, claimed, dead or handed
\* on.  Only a bad one may vanish, from a dead-letter list that is full.
EveryPublicationAccounted ==
    \A v \in 1..published :
        \/ Places(v) = 1
        \/ Places(v) = 0 /\ Kind(v) \in {"corrupt", "invalid"} /\ Len(dead) = DeadMax

\* Whoever may still work on a publication finds its page and its outlinks:
\* completion removes the inputs of its own claim and of no other.
WaitingInputsKept ==
    \A v \in 1..published :
        Contains(queue \o processing, v) /\ Kind(v) # "corrupt" => v \in inputs

\* However the owners overlap, at most one claim is open: a new owner takes
\* back what the last one left before it claims anything itself.
OneOpenClaim == Len(processing) <= 1

\* Two processes never write the state of one URL in the same period, even
\* when one of them lost the queue while it was suspended.
OneWriterPerUrl ==
    \A p, q \in Proc :
        /\ p # q
        /\ proc[p].pc \in {"load", "write", "finish"}
        /\ proc[q].pc \in {"load", "write", "finish"}
        => ClaimUrl(p) # ClaimUrl(q)

\* The queue and the inputs it stands for, however owners overlap.
QueueSound ==
    /\ EveryPublicationAccounted
    /\ WaitingInputsKept
    /\ OneOpenClaim
    /\ OneWriterPerUrl

LastDone(u) == {v \in done : UrlOf(v) = u /\ \A x \in done : UrlOf(x) = u => x <= v}
Settled(u)  == \A v \in 1..published : UrlOf(v) = u => ~Contains(queue \o processing, v)

\* The searchable state that a publication asks for.
IsState(u, v) ==
    /\ \A w \in Word : store.words[u][w].pub
                        = IF Indexable(v) /\ w \in WordsOf(v) THEN v ELSE 0
    /\ store.meta[u].pub = IF Indexable(v) THEN v ELSE 0
    /\ store.links[u].pub = store.meta[u].pub
    /\ Rendered(v) => store.artifact[u].pub = v

\* When nothing of a URL waits, its searchable state is the whole state of
\* the last publication handed on, with no posting of an earlier one, however
\* often attempts were cut short between two collections.  A write that lands
\* after its caller gave up can break this: see SkippedIsGone.
SettledStateIsWhole ==
    ~workload.late => \A u \in Url : Settled(u) => \A v \in LastDone(u) : IsState(u, v)

\* Postings, metadata and outlinks of a URL never go back to a publication
\* older than one they have shown.
NeverBackwards ==
    \A u \in Url :
        /\ store'.meta[u].pub = 0 \/ store'.meta[u].pub >= store.meta[u].pub
        /\ store'.links[u].pub = 0 \/ store'.links[u].pub >= store.links[u].pub
        /\ \A w \in Word : \/ store'.words[u][w].pub = 0
                           \/ store'.words[u][w].pub >= store.words[u][w].pub

\* A publication that was handed on stays as it is: no step changes the state
\* of its URL on behalf of it or of an earlier one.
NoWorkAfterHandOn ==
    \A u \in Url : \A v \in LastDone(u) :
        \/ <<store.words[u], store.meta[u], store.links[u]>>'
             = <<store.words[u], store.meta[u], store.links[u]>>
        \/ \E p \in Proc : proc[p].claim > v /\ ClaimUrl(p) = u

\* However attempts and owners follow each other, the searchable state of a URL
\* moves forward only; late writes may repeat work that was handed on.
StateMovesForward ==
    [][NeverBackwards /\ (workload.late \/ NoWorkAfterHandOn)]_vars

\* The queue of this service behaves as OwnedQueue says.
ImplementsOwnedQueue == Queue!QueueSpec

\* Every publication is handed on or quarantined, unless the run has no epoch
\* left to give (a bound of the model), and an idle pipeline wakes the crawler:
\* once nothing waits, RESUME_CRAWL is sent, or something is published.
EventuallySettled ==
    /\ \A v \in Pub : v <= published ~> (v \in done \/ Contains(dead, v) \/ Places(v) = 0
                                       \/ epoch = MaxEpoch)
    /\ (queue \o processing = <<>> /\ ~signals) ~> (signals \/ queue # <<>> \/ epoch = MaxEpoch)

\* Once a permanent skip is handed on and nothing newer waits, the URL is not
\* searchable (README: a non-indexable recrawl removes all prior words,
\* metadata and outlinks before its Redis ACK).
SkippedIsGone ==
    \A u \in Url : Settled(u) =>
        \A v \in LastDone(u) : ~Indexable(v) => IsState(u, v)
=============================================================================

---------------------------- MODULE ImageIndexer ----------------------------
(***************************************************************************)
(* The image indexer (services/image-indexer): the same owner discipline   *)
(* as the page indexer over its own queue, the same collection of          *)
(* canonical locks, and a reconciliation of a page's images in batches,    *)
(* each guarded by the owner lock, the canonical lock and the epoch that   *)
(* image_page_state holds.  It reads the page's keywords from the metadata *)
(* the page indexer writes.                                                *)
(*                                                                         *)
(* As in PageIndexer, a guard is evaluated with the write before it, and a *)
(* write whose caller gave up after socketTimeoutMS may land later: one of *)
(* this service, or one of the metadata by the page indexer.               *)
(***************************************************************************)
EXTENDS Integers, Sequences, SequencesExt, FiniteSets

CONSTANTS
    Proc, NPub, Url,
    Image,          \* source URLs
    Batch,          \* MONGO_BATCH_SIZE
    MaxEpoch, DeadMax, RecoverBatch,
    Workloads       \* what the spider may publish, and how much may fail

Pub == 1..NPub

\* A publication has a URL, a kind of manifest, and the images of the page,
\* sorted and without repetition; a workload also bounds the failures, and
\* says whether a write may land after its call has timed out.
ASSUME ManifestAssumption ==
    /\ NPub \in Nat /\ MaxEpoch \in Nat /\ Batch \in Nat \ {0}
    /\ DeadMax \in Nat \ {0} /\ RecoverBatch \in Nat \ {0}
    /\ \A w \in Workloads :
          /\ w.pubs \in Seq([url : Url, manifest : {"images", "corrupt", "invalid"},
                             images : Seq(Image)])
          /\ Len(w.pubs) <= NPub /\ w.faults \in Nat /\ w.late \in BOOLEAN

VARIABLES
    workload,       \* chosen once
    owner, epoch, queue, processing, dead, done,    \* see OwnedQueue
    arrived,        \* manifests the page indexer has queued so far
    manifests,      \* publications whose manifest and payload keys exist
    canonical,      \* canonical_url_ownership_locks
    metadata,       \* the publication whose keywords a URL's metadata holds
    lateMetadata,   \* metadata writes the page indexer has given up
    store,          \* image_page_state, images, word_images
    late,           \* writes given up by their caller that may still land
    proc, faults

queueVars == <<owner, epoch, queue, processing, dead, done>>
pageVars  == <<metadata, lateMetadata>>
mongoVars == <<canonical, store, late>>
vars == <<workload, queueVars, arrived, manifests, pageVars, mongoVars, proc, faults>>

Queue == INSTANCE OwnedQueue WITH Value <- Pub

UrlOf(v)    == workload.pubs[v].url
Kind(v)     == workload.pubs[v].manifest
ImagesOf(v) == workload.pubs[v].images

\* Words are told apart by where they come from: the metadata of publication
\* k, or the image's own name and text (0).
Source == 0..NPub

NoDoc == [pub |-> 0, epoch |-> 0]
Free  == [service |-> "none", pub |-> 0, epoch |-> 0]

Stopped == [pc |-> "down", epoch |-> 0, claim |-> 0, running |-> TRUE,
            todo |-> <<>>, keywords |-> 0, outcome |-> "none"]

ClaimUrl(p) == UrlOf(proc[p].claim)
Mine(p)     == [service |-> "image", pub |-> proc[p].claim, epoch |-> proc[p].epoch]
Owner(p)    == Queue!Holds(proc[p].epoch)

OwnerCheck(p) ==
    /\ proc[p].running
    /\ Owner(p)
    /\ canonical[ClaimUrl(p)] = Mine(p)

\* The epoch of the page's own record must be the caller's.
PublicationIsCurrent(p, s) ==
    OwnerCheck(p) /\ s.state[ClaimUrl(p)].epoch = proc[p].epoch

Goto(p, l)       == proc' = [proc EXCEPT ![p].pc = l]
Quit(p)          == Goto(p, "exit")
Finished(p, res) == proc' = [proc EXCEPT ![p].pc = "unlock", ![p].outcome = res,
                                         ![p].todo = <<>>]
Spend   == faults < workload.faults /\ faults' = faults + 1
Unmoved == UNCHANGED queueVars

-----------------------------------------------------------------------------
(* What one MongoDB call does; see the fence of PageIndexer.               *)

Fenced(doc, e)    == doc.epoch <= e
DeleteDoc(doc, e) == IF Fenced(doc, e) THEN NoDoc ELSE doc
DocOf(op)         == [pub |-> op.pub, epoch |-> op.epoch]

\* state: replace_one.
ReplacePageState(s, op) ==
    [s EXCEPT !.state[UrlOf(op.pub)] = IF Fenced(@, op.epoch) THEN DocOf(op) ELSE @]

\* Associations of the page that the publication no longer has.
DeleteStaleImages(s, op) ==
    [s EXCEPT !.images[UrlOf(op.pub)] =
        [i \in Image |-> IF Contains(ImagesOf(op.pub), i) THEN @[i] ELSE DeleteDoc(@[i], op.epoch)]]

\* One ordered batch: the upserts before the first conflict are done.
Ordered(docs, op) ==
    [d \in DOMAIN docs |->
        IF \E k \in 1..Len(op.batch) :
              op.batch[k] = d /\ \A j \in 1..k : Fenced(docs[op.batch[j]], op.epoch)
        THEN DocOf(op) ELSE docs[d]]

UpsertImages(s, op) == [s EXCEPT !.images[UrlOf(op.pub)] = Ordered(@, op)]

\* Every posting of the page goes, not only those of stale images: the
\* keywords may have changed.
FaultyDeletePageWords(s, op) ==
    [s EXCEPT !.words[UrlOf(op.pub)] =
        [d \in Image \X Source |->
            IF Contains(ImagesOf(op.pub), d[1]) THEN @[d] ELSE DeleteDoc(@[d], op.epoch)]]

DeletePageWords(s, op) ==
    [s EXCEPT !.words[UrlOf(op.pub)] =
        [d \in Image \X Source |-> DeleteDoc(@[d], op.epoch)]]

UpsertImageWords(s, op) == [s EXCEPT !.words[UrlOf(op.pub)] = Ordered(@, op)]

Apply(s, op) ==
    CASE op.call = "state"  -> ReplacePageState(s, op)
      [] op.call = "prune"  -> DeleteStaleImages(s, op)
      [] op.call = "images" -> UpsertImages(s, op)
      [] op.call = "clear"  -> DeletePageWords(s, op)
      [] op.call = "words"  -> UpsertImageWords(s, op)

Conflicts(s, op) ==
    LET u == UrlOf(op.pub) IN
    \/ op.call = "state" /\ ~Fenced(s.state[u], op.epoch)
    \/ op.call = "images" /\ \E i \in ToSet(op.batch) : ~Fenced(s.images[u][i], op.epoch)
    \/ op.call = "words" /\ \E d \in ToSet(op.batch) : ~Fenced(s.words[u][d], op.epoch)

\* The postings of the page's images: the words of the image, and those of
\* the metadata k if there is one.
Postings(imgs, k) ==
    LET n == IF k = 0 THEN 1 ELSE 2
    IN  [j \in 1..n * Len(imgs) |-> <<imgs[(j - 1) \div n + 1], IF (j - 1) % n = 0 THEN 0 ELSE k>>]

\* The calls for a publication, its images and postings cut into batches.
Batches(call, items) ==
    [k \in 1..((Len(items) + Batch - 1) \div Batch) |->
        [call |-> call, batch |-> SubSeq(items, (k - 1) * Batch + 1,
                                         IF k * Batch < Len(items) THEN k * Batch ELSE Len(items))]]

ReplacePageImages(imgs, k) ==
    <<[call |-> "state", batch |-> <<>>], [call |-> "prune", batch |-> <<>>]>>
        \o Batches("images", imgs)
        \o <<[call |-> "clear", batch |-> <<>>]>>
        \o Batches("words", Postings(imgs, k))

-----------------------------------------------------------------------------
(* The surroundings of the service. *)

\* The page indexer hands a manifest on.
Arrive ==
    /\ arrived < Len(workload.pubs)
    /\ arrived' = arrived + 1
    /\ Queue!Push(arrived + 1)
    /\ manifests' = manifests \cup {arrived + 1}
    /\ UNCHANGED <<workload, pageVars, mongoVars, proc, faults>>

\* The page indexer works on a URL: it takes the canonical lock, may replace
\* or remove the metadata, and releases the lock.
PageLocks(u) ==
    /\ canonical[u] = Free
    /\ canonical' = [canonical EXCEPT ![u] = [service |-> "page", pub |-> 0, epoch |-> 0]]
    /\ UNCHANGED <<workload, queueVars, arrived, manifests, pageVars, store, late, proc, faults>>

Versions(u) == {0} \cup {v \in 1..Len(workload.pubs) : UrlOf(v) = u}

\* It hears that its write succeeded, or gives it up while it may yet land.
MetadataMoves(u) ==
    /\ canonical[u].service = "page"
    /\ \E v \in Versions(u) \ {metadata[u]} :
          \/ /\ metadata' = [metadata EXCEPT ![u] = v]
             /\ UNCHANGED <<lateMetadata, faults>>
          \/ /\ workload.late /\ Spend
             /\ lateMetadata' = lateMetadata \cup {<<u, v>>}
             /\ UNCHANGED metadata
    /\ UNCHANGED <<workload, queueVars, arrived, manifests, mongoVars, proc>>

PageUnlocks(u) ==
    /\ canonical[u].service = "page"
    /\ canonical' = [canonical EXCEPT ![u] = Free]
    /\ UNCHANGED <<workload, queueVars, arrived, manifests, pageVars, store, late, proc, faults>>

\* The lock of the URL may be another attempt's by now.
MetadataLands(m) ==
    /\ lateMetadata' = lateMetadata \ {m}
    /\ metadata' = [metadata EXCEPT ![m[1]] = m[2]]
    /\ UNCHANGED <<workload, queueVars, arrived, manifests, mongoVars, proc, faults>>

\* The server carries out a write whose caller gave up after socketTimeoutMS.
WriteLands(op) ==
    /\ late' = late \ {op}
    /\ store' = Apply(store, op)
    /\ UNCHANGED <<workload, queueVars, arrived, manifests, canonical, pageVars, proc, faults>>

Alive(e) == \E p \in Proc : proc[p].epoch = e /\ proc[p].pc # "down"

LockExpires ==
    /\ Queue!LockExpires
    /\ IF Alive(owner) THEN Spend ELSE UNCHANGED faults
    /\ UNCHANGED <<workload, arrived, manifests, pageVars, mongoVars, proc>>

Start(p) ==
    /\ proc[p].pc = "down"
    /\ Goto(p, "acquire")
    /\ UNCHANGED <<workload, queueVars, arrived, manifests, pageVars, mongoVars, faults>>

Terminate(p) ==
    /\ proc[p].pc # "down"
    /\ proc[p].running
    /\ Spend
    /\ proc' = [proc EXCEPT ![p].running = FALSE]
    /\ UNCHANGED <<workload, queueVars, arrived, manifests, pageVars, mongoVars>>

Crash(p) ==
    /\ proc[p].pc # "down"
    /\ Spend
    /\ proc' = [proc EXCEPT ![p] = Stopped]
    /\ UNCHANGED <<workload, queueVars, arrived, manifests, pageVars, mongoVars>>

OperatorClears(u) ==
    /\ canonical[u].service = "image"
    /\ ~Alive(canonical[u].epoch)
    /\ canonical' = [canonical EXCEPT ![u] = Free]
    /\ UNCHANGED <<workload, queueVars, arrived, manifests, pageVars, store, late, proc, faults>>

-----------------------------------------------------------------------------
(* One process. *)

Rest == <<workload, arrived, manifests, pageVars>>

AcquireOwner(p) ==
    /\ proc[p].pc = "acquire"
    /\ \/ /\ proc[p].running
          /\ Queue!AcquireLock
          /\ proc' = [proc EXCEPT ![p].pc = "recover", ![p].epoch = epoch + 1]
          /\ UNCHANGED faults
       \/ /\ ~proc[p].running
          /\ proc' = [proc EXCEPT ![p] = Stopped]
          /\ Unmoved /\ UNCHANGED faults
       \/ /\ Spend
          /\ proc' = [proc EXCEPT ![p] = Stopped]
          /\ Unmoved \/ Queue!AcquireLock
    /\ UNCHANGED <<Rest, mongoVars>>

RecoverClaims(p) ==
    /\ proc[p].pc = "recover"
    /\ \/ /\ proc[p].running /\ Owner(p)
          /\ Queue!RecoverScript(proc[p].epoch)
          /\ Goto(p, IF Len(processing) < RecoverBatch THEN "loop" ELSE "recover")
          /\ UNCHANGED faults
       \/ /\ ~(proc[p].running /\ Owner(p))
          /\ Quit(p) /\ Unmoved /\ UNCHANGED faults
       \/ Spend /\ Quit(p) /\ (Unmoved \/ Queue!RecoverScript(proc[p].epoch))
    /\ UNCHANGED <<Rest, mongoVars>>

\* The head of the loop and the claim.
ClaimManifest(p) ==
    /\ proc[p].pc = "loop"
    /\ \/ /\ proc[p].running
          /\ Queue!ClaimScript(proc[p].epoch)
          /\ proc' = [proc EXCEPT ![p].pc = "claimed", ![p].claim = Last(queue)]
          /\ UNCHANGED faults
       \/ ~(proc[p].running /\ Owner(p)) /\ Quit(p) /\ Unmoved /\ UNCHANGED faults
       \/ Spend /\ Quit(p) /\ (Unmoved \/ Queue!ClaimScript(proc[p].epoch))
    /\ UNCHANGED <<Rest, mongoVars>>

LeaveClaim(p) ==
    /\ proc[p].pc = "claimed"
    /\ ~proc[p].running
    /\ Quit(p)
    /\ Unmoved /\ UNCHANGED <<Rest, mongoVars, faults>>

FaultyQuarantineInvalid(p) ==
    /\ proc[p].pc = "claimed"
    /\ proc[p].running
    /\ Kind(proc[p].claim) = "invalid"
    /\ proc' = [proc EXCEPT ![p].pc = "loop", ![p].claim = 0]
    /\ Queue!QuarantineScript(proc[p].epoch, proc[p].claim) \/ Unmoved
    /\ UNCHANGED <<Rest, mongoVars, faults>>

\* A key that names no publication: the queue's fence is the only boundary.
QuarantineInvalid(p) ==
    LET Quarantine == Queue!QuarantineScript(proc[p].epoch, proc[p].claim) IN
    /\ proc[p].pc = "claimed"
    /\ proc[p].running
    /\ Kind(proc[p].claim) = "invalid"
    /\ \/ /\ Quarantine
          /\ proc' = [proc EXCEPT ![p].pc = "loop", ![p].claim = 0]
          /\ UNCHANGED faults
       \/ ~Owner(p) /\ Goto(p, "release") /\ Unmoved /\ UNCHANGED faults
       \/ Spend /\ Goto(p, "release") /\ (Unmoved \/ Quarantine)
    /\ UNCHANGED <<Rest, mongoVars>>

AcquireCanonical(p) ==
    LET u == ClaimUrl(p)
        Insert == canonical[u] = Free /\ canonical' = [canonical EXCEPT ![u] = Mine(p)]
    IN  /\ proc[p].pc = "claimed"
        /\ proc[p].running
        /\ Kind(proc[p].claim) # "invalid"
        /\ \/ Owner(p) /\ Insert /\ Goto(p, "load") /\ UNCHANGED faults
           \/ /\ ~Owner(p) \/ canonical[u] # Free
              /\ Goto(p, "release") /\ UNCHANGED <<canonical, faults>>
           \/ Spend /\ Goto(p, "release") /\ (UNCHANGED canonical \/ Insert)
        /\ Unmoved /\ UNCHANGED <<Rest, store, late>>

\* load_work; corrupt work is quarantined and its inputs are kept.
LoadWork(p) ==
    LET v   == proc[p].claim
        bad == Kind(v) = "corrupt" \/ v \notin manifests
        Quarantine == OwnerCheck(p) /\ Queue!QuarantineScript(proc[p].epoch, v)
    IN  /\ proc[p].pc = "load"
        /\ \/ bad /\ Quarantine /\ Finished(p, "dead") /\ UNCHANGED faults
           \/ bad /\ ~OwnerCheck(p) /\ Finished(p, "failed") /\ Unmoved /\ UNCHANGED faults
           \/ ~bad /\ Goto(p, "keywords") /\ Unmoved /\ UNCHANGED faults
           \/ Spend /\ Finished(p, "failed") /\ (Unmoved \/ (bad /\ Quarantine))
        /\ UNCHANGED <<Rest, mongoVars>>

\* get_keywords, and the first guard of replace_page_images.
GetKeywords(p) ==
    /\ proc[p].pc = "keywords"
    /\ \/ /\ OwnerCheck(p)
          /\ proc' = [proc EXCEPT ![p].pc = "write",
                                  ![p].keywords = metadata[ClaimUrl(p)],
                                  ![p].todo = ReplacePageImages(ImagesOf(proc[p].claim),
                                                               metadata[ClaimUrl(p)])]
          /\ UNCHANGED faults
       \/ ~OwnerCheck(p) /\ Finished(p, "failed") /\ UNCHANGED faults
       \/ Spend /\ Finished(p, "failed")
    /\ Unmoved /\ UNCHANGED <<Rest, mongoVars>>

Write(p) ==
    LET head == Head(proc[p].todo)
        op   == [call |-> head.call, batch |-> head.batch, pub |-> proc[p].claim,
                 epoch |-> proc[p].epoch]
        rest == Tail(proc[p].todo)
        new  == Apply(store, op)
    IN  /\ proc[p].pc = "write"
        /\ \/ /\ store' = new
              /\ IF ~Conflicts(store, op) /\ PublicationIsCurrent(p, new)
                 THEN proc' = [proc EXCEPT ![p].pc = IF rest = <<>> THEN "finish" ELSE "write",
                                           ![p].todo = rest]
                 ELSE Finished(p, "failed")
              /\ UNCHANGED <<late, faults>>
           \/ /\ Spend /\ Finished(p, "failed")
              /\ \/ store' \in {store, new} /\ UNCHANGED late
                 \/ workload.late /\ late' = late \cup {op} /\ UNCHANGED store
        /\ Unmoved /\ UNCHANGED <<Rest, canonical>>

\* The ACK script removes the claim, the manifest and its payloads.
AckWork(p) ==
    LET v   == proc[p].claim
        Ack == v \in manifests /\ Queue!FinishScript(proc[p].epoch, v)
                 /\ manifests' = manifests \ {v}
    IN  /\ proc[p].pc = "finish"
        /\ \/ Ack /\ Finished(p, "done") /\ UNCHANGED faults
           \/ /\ ~(v \in manifests /\ Owner(p) /\ Contains(processing, v))
              /\ Finished(p, "failed") /\ Unmoved /\ UNCHANGED <<manifests, faults>>
           \/ Spend /\ Finished(p, "failed") /\ (Ack \/ (Unmoved /\ UNCHANGED manifests))
        /\ UNCHANGED <<workload, arrived, pageVars, mongoVars>>

UnlockCanonical(p) ==
    /\ proc[p].pc = "unlock"
    /\ proc' = [proc EXCEPT ![p].pc = IF proc[p].outcome = "failed" THEN "release" ELSE "loop",
                            ![p].claim = IF proc[p].outcome = "failed" THEN @ ELSE 0,
                            ![p].keywords = 0, ![p].outcome = "none"]
    /\ \/ canonical' = [canonical EXCEPT ![ClaimUrl(p)] = IF @ = Mine(p) THEN Free ELSE @]
          /\ UNCHANGED faults
       \/ Spend /\ UNCHANGED canonical
    /\ Unmoved /\ UNCHANGED <<Rest, store, late>>

ReleaseClaim(p) ==
    LET Give == Queue!ReleaseScript(proc[p].epoch, proc[p].claim) IN
    /\ proc[p].pc = "release"
    /\ Quit(p)
    /\ \/ Give /\ UNCHANGED faults
       \/ /\ ~(Owner(p) /\ Contains(processing, proc[p].claim))
          /\ Unmoved /\ UNCHANGED faults
       \/ Spend /\ (Unmoved \/ Give)
    /\ UNCHANGED <<Rest, mongoVars>>

ReleaseOwner(p) ==
    /\ proc[p].pc = "exit"
    /\ proc' = [proc EXCEPT ![p] = Stopped]
    /\ \/ Queue!DropLock(proc[p].epoch) /\ UNCHANGED faults
       \/ ~Owner(p) /\ Unmoved /\ UNCHANGED faults
       \/ Spend /\ Unmoved
    /\ UNCHANGED <<Rest, mongoVars>>

-----------------------------------------------------------------------------
Init ==
    /\ workload \in Workloads
    /\ Queue!QueueInit
    /\ arrived = 0
    /\ manifests = {}
    /\ canonical = [u \in Url |-> Free]
    /\ metadata = [u \in Url |-> 0]
    /\ lateMetadata = {}
    /\ store = [state |-> [u \in Url |-> NoDoc],
                images |-> [u \in Url |-> [i \in Image |-> NoDoc]],
                words |-> [u \in Url |-> [d \in Image \X Source |-> NoDoc]]]
    /\ late = {}
    /\ proc = [p \in Proc |-> Stopped]
    /\ faults = 0

ProcessClaim(p) ==
    \/ QuarantineInvalid(p)
    \/ AcquireCanonical(p)
    \/ LoadWork(p)
    \/ GetKeywords(p)
    \/ Write(p)
    \/ AckWork(p)
    \/ UnlockCanonical(p)

RunIndexer(p) ==
    \/ AcquireOwner(p)
    \/ RecoverClaims(p)
    \/ ClaimManifest(p)
    \/ LeaveClaim(p)
    \/ ProcessClaim(p)
    \/ ReleaseClaim(p)
    \/ ReleaseOwner(p)

\* The service and its failures, without the page indexer.
ServiceNext ==
    \/ LockExpires
    \/ \E p \in Proc : Start(p) \/ Terminate(p) \/ Crash(p) \/ RunIndexer(p)
    \/ \E u \in Url : OperatorClears(u)
    \/ \E op \in late : WriteLands(op)

PageIndexerSteps ==
    \/ \E u \in Url : PageLocks(u) \/ MetadataMoves(u) \/ PageUnlocks(u)
    \/ \E m \in lateMetadata : MetadataLands(m)

Next == Arrive \/ PageIndexerSteps \/ ServiceNext

Fairness ==
    /\ WF_vars(LockExpires /\ ~Alive(owner))
    /\ \A p \in Proc : WF_vars(Start(p)) /\ WF_vars(RunIndexer(p))
    /\ \A u \in Url : WF_vars(OperatorClears(u)) /\ WF_vars(PageUnlocks(u))

Spec     == Init /\ [][Next]_vars
FairSpec == Spec /\ Fairness

-----------------------------------------------------------------------------
(* Properties. *)

\* A document that a write of another attempt may have left: none, unless
\* writes land late, and then never one of this attempt or of a later one.
Leftover(doc, e) == doc.pub = 0 \/ (workload.late /\ doc.epoch < e)

\* The documents of keys are those of publication v and epoch e, and the
\* others are left over.
Exactly(docs, keys, v, e) ==
    \A d \in DOMAIN docs :
        IF d \in keys THEN docs[d] = [pub |-> v, epoch |-> e] ELSE Leftover(docs[d], e)

\* A page's images, its word postings and its own record all come from one
\* publication, under the epoch the record names, whenever an ACK is given:
\* there is an image document for each image of the publication, and there
\* are postings for the words of the image and of the page's keywords.
\* Partial batches of attempts that failed leave nothing behind; a write that
\* landed late can, under an epoch below the record's, and can make the
\* keywords old ones, but all postings still use one version of them.
AckedPageIsWhole ==
    [][\A v \in done' \ done :
        LET u    == UrlOf(v)
            e    == store.state[u].epoch
            imgs == ToSet(ImagesOf(v))
        IN  /\ store.state[u].pub = v
            /\ Exactly(store.images[u], imgs, v, e)
            /\ \E k \in Versions(u) :
                  /\ workload.late \/ k = metadata[u]
                  /\ Exactly(store.words[u], imgs \X {0, k}, v, e)]_vars

\* The keywords an attempt works with are those the metadata still holds:
\* the page indexer cannot replace them before the attempt ends, unless a
\* write it has given up lands after it has released the lock.
KeywordsCurrent ==
    \A p \in Proc : proc[p].pc \in {"write", "finish"} =>
        workload.late \/ proc[p].keywords = metadata[ClaimUrl(p)]

\* While an attempt works with the keywords it read, they change only by such
\* a write.
KeywordsHeld ==
    [][\A p \in Proc : proc[p].pc \in {"write", "finish"} =>
          LET u == ClaimUrl(p) IN
          \/ metadata'[u] = metadata[u]
          \/ \E m \in lateMetadata \ lateMetadata' : m[1] = u]_vars

\* The record of a page never goes back to an older publication.
RecordNeverBackwards ==
    [][\A u \in Url : store'.state[u].pub >= store.state[u].pub]_vars

\* Contention for the canonical lock, lost queues and crashes delay work but
\* every manifest is acknowledged or quarantined in the end, unless the run
\* has no epoch left to give (a bound of the model).
EventuallyAcked ==
    \A v \in Pub : v <= arrived ~>
        (~Contains(queue \o processing, v) \/ epoch = MaxEpoch)
=============================================================================

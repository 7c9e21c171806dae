---------------------------- MODULE IndexPipeline ----------------------------
(***************************************************************************)
(* The page indexer and the image indexer on one Redis and one MongoDB.    *)
(* The completion or skip of a page queues its manifest for the image      *)
(* indexer in the same script; both services take the canonical lock of a  *)
(* URL in the same collection; the image indexer reads the metadata that   *)
(* the page indexer writes.                                                *)
(***************************************************************************)
EXTENDS Integers, Sequences, SequencesExt, FiniteSets

CONSTANTS
    PageProc, ImageProc, NPub, Url, Word, Image, Batch,
    MaxEpoch, DeadMax, RecoverBatch,
    Workloads       \* publications with their page's and their manifest's fields

VARIABLES
    workload,
    pOwner, pEpoch, pQueue, pProcessing, pDead, pDone,
    iOwner, iEpoch, iQueue, iProcessing, iDead, iDone,
    published, inputs, manifests, handed,
    canonical, pStore, iStore, pLate, iLate, pProc, iProc, signals, faults

pageOnly  == <<pOwner, pEpoch, pQueue, pProcessing, pDead, pDone,
               published, inputs, pStore, pLate, pProc, signals, workload>>
imageOnly == <<iOwner, iEpoch, iQueue, iProcessing, iDead, iDone,
               manifests, handed, iStore, iLate, iProc>>
vars == <<pageOnly, imageOnly, canonical, faults>>

Pub == 1..NPub

Page == INSTANCE PageIndexer WITH
    Proc <- PageProc,
    owner <- pOwner, epoch <- pEpoch, queue <- pQueue, processing <- pProcessing,
    dead <- pDead, done <- pDone, store <- pStore, late <- pLate, proc <- pProc

Images == INSTANCE ImageIndexer WITH
    Proc <- ImageProc,
    owner <- iOwner, epoch <- iEpoch, queue <- iQueue, processing <- iProcessing,
    dead <- iDead, done <- iDone, store <- iStore, late <- iLate, proc <- iProc,
    arrived <- handed, metadata <- [u \in Url |-> pStore.meta[u].pub],
    lateMetadata <- {<<Page!UrlOf(op.pub), IF op.call = "metadata" THEN op.pub ELSE 0>> :
                        op \in {x \in pLate : x.call \in {"metadata", "no metadata"}}}

Init == Page!Init /\ Images!Init

\* A step of the page indexer.  The manifest's hash exists since publication;
\* its key enters the image queue when the page's script hands it on.
PageStep ==
    /\ Page!Next
    /\ IF pDone' = pDone
       THEN UNCHANGED imageOnly
       ELSE \E v \in pDone' \ pDone :
              /\ Images!Queue!Push(v)
              /\ manifests' = manifests \cup {v}
              /\ handed' = handed + 1
              /\ UNCHANGED <<iStore, iLate, iProc>>

\* A step of the image indexer.
ImageStep == UNCHANGED pageOnly /\ Images!ServiceNext

Next == PageStep \/ ImageStep

Spec == Init /\ [][Next]_vars

-----------------------------------------------------------------------------
StageOf(v) ==
    CASE v > published                                -> "unborn"
      [] Contains(pQueue \o pProcessing, v)           -> "waiting"
      [] Contains(iQueue \o iProcessing, v)           -> "indexed"
      [] v \in iDone                                  -> "complete"
      [] OTHER                                        -> "dead"

Flow == INSTANCE PublicationFlow WITH
    stage <- [v \in Pub |-> StageOf(v)], urlOf <- [v \in Pub |-> Page!UrlOf(v)]

\* A publication goes through the two services as PublicationFlow says.
ImplementsFlow == Flow!Spec

\* The keywords an attempt on images works with are those its page still has.
KeywordsCurrent == Images!KeywordsCurrent

\* One canonical lock serves both services: a page attempt and an image
\* attempt never work on one URL in the same period.
ServicesExclude ==
    \A p \in PageProc, q \in ImageProc :
        /\ pProc[p].pc \in {"load", "write", "finish"}
        /\ iProc[q].pc \in {"load", "keywords", "write", "finish"}
        => Page!ClaimUrl(p) # Images!ClaimUrl(q)

\* What the canonical lock is for: no overlap of the services on a URL, and
\* keywords that cannot change under an attempt that has read them.  So when
\* nothing of a URL is on its way, the images of the URL are those of the
\* publication its page shows, and their postings use its keywords.
PageAndImagesAgree ==
    /\ ServicesExclude /\ KeywordsCurrent
    /\ \A u \in Url :
        (\A v \in 1..published : Page!UrlOf(v) = u =>
            StageOf(v) = "complete") =>
        \A v \in 1..published :
            Page!UrlOf(v) = u /\ (\A x \in 1..published : Page!UrlOf(x) = u => x <= v) =>
                /\ iStore.state[u].pub = v
                /\ \A i \in ToSet(Images!ImagesOf(v)) :
                      {k \in Images!Source : iStore.words[u][<<i, k>>].pub # 0}
                        = {0, pStore.meta[u].pub}
                /\ pStore.meta[u].pub = IF Page!Indexable(v) THEN v ELSE 0
=============================================================================

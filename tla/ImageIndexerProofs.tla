-------------------------- MODULE ImageIndexerProofs --------------------------
(***************************************************************************)
(* Proofs about the image indexer.                                         *)
(*                                                                         *)
(* As for the page indexer, the queue followed by the claims is one        *)
(* falling line of publications, so that a claim is at least as new as     *)
(* all that was recorded before it; a write that may land late counts as a *)
(* claim of its epoch.  The calls of an attempt are followed one by one:   *)
(* each is still to be made or has left its trace, and what a late write   *)
(* can add to a trace has an epoch below the attempt's.                    *)
(***************************************************************************)
EXTENDS ImageIndexer, FiniteSetTheorems, SequenceTheorems, TLAPS

Places0 == {"down", "acquire"}
Busy    == {"claimed", "load", "keywords", "write", "finish"}
Working == {"load", "keywords", "write", "finish"}
Locked  == Working \cup {"unlock"}
PcNames == Places0 \cup Busy \cup {"recover", "loop", "unlock", "release", "exit"}
CallNames == {"state", "prune", "images", "clear", "words"}
Outcomes  == {"none", "dead", "failed", "done"}
Posting   == Image \X Source
Item      == Image \cup Posting
Call      == [call : CallNames, batch : Seq(Item)]

ProcRecord == [pc : PcNames, epoch : Nat, claim : Nat, running : BOOLEAN,
               todo : Seq(Call), keywords : Source, outcome : Outcomes]
Doc      == [pub : Nat, epoch : Nat]
LockDoc  == [service : {"none", "page", "image"}, pub : Nat, epoch : Nat]

StoreType == [state : [Url -> Doc], images : [Url -> [Image -> Doc]],
              words : [Url -> [Posting -> Doc]]]

\* The documents carry epochs that have been given, the page records
\* publications that have arrived.
StoreOK ==
    /\ store \in StoreType
    /\ \A u \in Url :
          /\ store.state[u].pub <= arrived
          /\ store.state[u].epoch <= epoch
          /\ \A i \in Image : store.images[u][i].epoch <= epoch
          /\ \A d \in Posting : store.words[u][d].epoch <= epoch

TypeOK ==
    /\ workload \in Workloads
    /\ arrived \in 0..Len(workload.pubs)
    /\ epoch \in Nat /\ owner \in {0, epoch}
    /\ queue \in Seq(1..arrived)
    /\ processing \in Seq(1..arrived)
    /\ dead \in Seq(1..arrived) /\ done \subseteq 1..arrived
    /\ canonical \in [Url -> LockDoc]
    /\ metadata \in [Url -> Source]
    /\ proc \in [Proc -> ProcRecord]

\* The queue followed by the claims is one falling line of publications.
LineInv ==
    /\ Len(processing) <= 1
    /\ \A i, j \in 1..Len(queue) : i < j => queue[i] > queue[j]
    /\ \A i \in 1..Len(queue) : \A j \in 1..Len(processing) : queue[i] > processing[j]

\* The processes that run have epochs of their own, and a claim when they
\* work on one.
ProcInv ==
    /\ \A p \in Proc : proc[p].epoch <= epoch
    /\ \A p \in Proc : proc[p].epoch = 0 <=> proc[p].pc \in Places0
    /\ \A p, q \in Proc : p # q /\ proc[p].epoch = proc[q].epoch => proc[p].epoch = 0
    /\ \A p \in Proc : proc[p].claim \in 0..arrived
    /\ \A p \in Proc : proc[p].pc \in Places0 => proc[p].claim = 0
    /\ \A p \in Proc : proc[p].pc \in Busy \cup {"unlock", "release"} => proc[p].claim # 0

\* What the claims are while the process of epoch e is at place l: own is the
\* epoch in the lock and top the last epoch given.
OwnClaims(own, top, claims, e, l, c, o) ==
    (e # 0 /\ own = e /\ top = e) =>
        /\ l = "loop" => claims = <<>>
        /\ l = "unlock" /\ o # "failed" => claims = <<>>
        /\ l \in Busy => claims = <<c>>

\* The owner claims only when no claim is left, and its claim stays claimed
\* until it acknowledges it, quarantines it or gives it back.
ClaimInv ==
    \A p \in Proc : OwnClaims(owner, epoch, processing, proc[p].epoch, proc[p].pc,
                              proc[p].claim, proc[p].outcome)

\* From the acquisition to the release the canonical lock is the process's.
LockInv == \A p \in Proc : proc[p].pc \in Locked => canonical[ClaimUrl(p)] = Mine(p)

\* Publication v is none of those that wait, or the first of them.
Before(v) ==
    /\ \A i \in 1..Len(queue) : v <= queue[i]
    /\ \A i \in 1..Len(processing) : v <= processing[i]

\* What has been recorded or claimed is no newer than what waits; and a process
\* whose epoch lets it replace a record has claimed nothing older than it.
StampInv ==
    /\ \A u \in Url : Before(store.state[u].pub)
    /\ \A p \in Proc : Before(proc[p].claim)
    /\ \A p \in Proc : proc[p].claim # 0 =>
          /\ \A q \in Proc : proc[p].epoch > proc[q].epoch => proc[p].claim >= proc[q].claim
          /\ \A u \in Url :
                proc[p].epoch >= store.state[u].epoch => proc[p].claim >= store.state[u].pub

\* A call of a publication, under an epoch.
OpType == [call : CallNames, batch : Seq(Item), pub : 1..arrived, epoch : Nat]

\* Process record r has failed in its attempt and only gives back what it has.
Failing(r) ==
    \/ r.pc \in {"release", "exit"}
    \/ r.pc = "unlock" /\ r.outcome = "failed"

\* Writes that may land late are of attempts that have failed; an attempt on
\* the same URL began after them, under a later epoch.
LateInv ==
    \A op \in late :
        /\ workload.late
        /\ op \in OpType /\ op.epoch # 0 /\ op.epoch <= epoch
        /\ \A p \in Proc : proc[p].epoch = op.epoch => Failing(proc[p])
        /\ \A p \in Proc :
              proc[p].pc \in Working /\ ClaimUrl(p) = UrlOf(op.pub) => proc[p].epoch > op.epoch

\* Such a write is ordered with the records, the claims and the other writes
\* the way the claim was that it was made for.
LateStamps ==
    \A op \in late :
        /\ Before(op.pub)
        /\ \A u \in Url : op.epoch >= store.state[u].epoch => op.pub >= store.state[u].pub
        /\ \A p \in Proc : proc[p].claim # 0 =>
              /\ proc[p].epoch >= op.epoch => proc[p].claim >= op.pub
              /\ op.epoch >= proc[p].epoch => op.pub >= proc[p].claim
        /\ \A o \in late : op.epoch >= o.epoch => op.pub >= o.pub

\* Metadata and the keywords read from it are of publications of the URL.
MetadataInv ==
    /\ \A u \in Url : metadata[u] \in Versions(u)
    /\ \A m \in lateMetadata : workload.late /\ m[1] \in Url /\ m[2] \in Versions(m[1])
    /\ \A p \in Proc : proc[p].pc \in {"write", "finish"} =>
                           proc[p].keywords \in Versions(ClaimUrl(p))

\* The postings of the given images, and of publication v, with keywords k.
Crossed(imgs, k) == ToSet(imgs) \X {0, k}
Keys(v, k) == ToSet(ImagesOf(v)) \X {0, k}

\* The trace of call c for publication v with keywords k and epoch e.
Trace(s, v, k, e, c) ==
    LET u == UrlOf(v)
        d == [pub |-> v, epoch |-> e]
    IN  /\ c.call = "state" => s.state[u] = d
        /\ c.call = "prune" =>
               \A i \in Image : i \in ToSet(ImagesOf(v)) \/ Leftover(s.images[u][i], e)
        /\ c.call = "images" => \A i \in ToSet(c.batch) : s.images[u][i] = d
        /\ c.call = "clear" =>
               \A i \in Posting : \/ Leftover(s.words[u][i], e)
                                  \/ i \in Keys(v, k) /\ s.words[u][i] = d
        /\ c.call = "words" => \A i \in ToSet(c.batch) : s.words[u][i] = d

PlanOf(v, k) == ReplacePageImages(ImagesOf(v), k)

\* Of process r, the first n calls of the plan have been made, and the rest is
\* to be made.
Progress(s, r, n) ==
    LET P == PlanOf(r.claim, r.keywords)
    IN  /\ r.todo = SubSeq(P, n + 1, Len(P))
        /\ \A j \in 1..n : Trace(s, r.claim, r.keywords, r.epoch, P[j])

\* Where process r is in its plan, in store s.
Making(s, r) ==
    LET P == PlanOf(r.claim, r.keywords)
    IN  /\ r.pc = "write" => \E n \in Nat : n < Len(P) /\ Progress(s, r, n)
        /\ r.pc = "finish" =>
               \A j \in 1..Len(P) : Trace(s, r.claim, r.keywords, r.epoch, P[j])

MadeInv == \A p \in Proc : Making(store, proc[p])

Inv == /\ TypeOK /\ StoreOK /\ LineInv /\ ProcInv /\ ClaimInv /\ LockInv
       /\ StampInv /\ LateInv /\ LateStamps /\ MetadataInv /\ KeywordsCurrent /\ MadeInv

-----------------------------------------------------------------------------
(* What the scripts do to lists that hold at most one claim. *)

\* Taking the one claim out of the processing list leaves it empty.
LEMMA RemoveOnly ==
    ASSUME NEW S, NEW s \in Seq(S), NEW e, Len(s) <= 1, Contains(s, e)
    PROVE  s = <<e>> /\ RemoveFirst(s, e) = <<>>
<1>1. Len(s) = 1 /\ s[1] = e
  BY DEF Contains
<1>2. s = <<e>>
  BY <1>1
<1>3. {i \in 1..Len(s) : s[i] = e} = {1}
  BY <1>1
<1>4. Min({1}) = 1
  BY DEF Min
<1>5. RemoveFirst(s, e) = RemoveAt(s, 1)
  <2>1. SelectInSeq(s, LAMBDA v : v = e) = IF {1} # {} THEN Min({1}) ELSE 0
    BY <1>3 DEF SelectInSeq
  <2>2. SelectInSeq(s, LAMBDA v : v = e) = 1
    BY <1>4, <2>1
  <2>3. \E i \in 1..Len(s) : s[i] = e
    BY <1>1
  <2> QED
    BY <2>2, <2>3 DEF RemoveFirst
<1>6. RemoveAt(s, 1) = <<>>
  BY <1>1 DEF RemoveAt
<1> QED
  BY <1>2, <1>5, <1>6

\* A sequence cut to its first m elements.
LEMMA CutFacts ==
    ASSUME NEW S, NEW s \in Seq(S), NEW m \in Nat, m <= Len(s)
    PROVE  /\ SubSeq(s, 1, m) \in Seq(S) /\ Len(SubSeq(s, 1, m)) = m
           /\ \A i \in 1..m : SubSeq(s, 1, m)[i] = s[i]
OBVIOUS

\* A sequence without its last element.
LEMMA FrontFacts ==
    ASSUME NEW S, NEW s \in Seq(S), s # <<>>
    PROVE  /\ Len(s) \in Nat \ {0} /\ Last(s) \in S /\ Last(s) = s[Len(s)]
           /\ Front(s) \in Seq(S) /\ Len(Front(s)) = Len(s) - 1
           /\ \A i \in 1..Len(s) - 1 : Front(s)[i] = s[i]
<1>1. Len(s) \in Nat \ {0} /\ s[Len(s)] \in S
  OBVIOUS
<1>2. Len(s) - 1 \in Nat /\ Len(s) - 1 <= Len(s)
  BY <1>1
<1> QED
  BY <1>1, <1>2, CutFacts DEF Front, Last

\* OwnedQueue has the sequence operators under its own name.
LEMMA SameOperators ==
    ASSUME NEW s, NEW e
    PROVE  /\ Queue!Front(s) = Front(s) /\ Queue!Last(s) = Last(s)
           /\ Queue!Contains(s, e) <=> Contains(s, e)
           /\ Queue!RemoveFirst(s, e) = RemoveFirst(s, e)
<1>1. Queue!Front(s) = Front(s) /\ Queue!Last(s) = Last(s)
  BY DEF Queue!Front, Queue!Last, Front, Last
<1>2. Queue!Contains(s, e) <=> Contains(s, e)
  BY DEF Queue!Contains, Contains
<1>3. Queue!RemoveFirst(s, e) = RemoveFirst(s, e)
  BY DEF Queue!RemoveFirst, Queue!RemoveAt, Queue!SelectInSeq, Queue!Min,
         RemoveFirst, RemoveAt, SelectInSeq, Min
<1> QED
  BY <1>1, <1>2, <1>3

\* A sequence with one element.
LEMMA OneElement ==
    ASSUME NEW S, NEW s \in Seq(S), Len(s) = 1
    PROVE  s[1] \in S /\ s = <<s[1]>>
<1>1. s[1] \in S
  OBVIOUS
<1>2. s = <<s[1]>>
  OBVIOUS
<1> QED
  BY <1>1, <1>2

\* A sequence with at most one element.
LEMMA NoneOrOne ==
    ASSUME NEW S, NEW s \in Seq(S), Len(s) <= 1
    PROVE  s = <<>> \/ (Len(s) = 1 /\ s[1] \in S /\ s = <<s[1]>>)
<1>1. CASE s = <<>>
  BY <1>1
<1>2. CASE s # <<>>
  <2> DEFINE n == Len(s)
  <2>1. n \in Nat \ {0} /\ n <= 1
    BY <1>2
  <2> HIDE DEF n
  <2>2. n = 1
    BY <2>1
  <2>3. Len(s) = 1
    BY <2>2 DEF n
  <2> QED
    BY <2>3, OneElement
<1> QED
  BY <1>1, <1>2


\* The lists as sequences over one set.
LEMMA ListSets ==
    ASSUME TypeOK
    PROVE  /\ arrived \in Nat
           /\ queue \in Seq(1..arrived) /\ processing \in Seq(1..arrived)
           /\ dead \in Seq(1..arrived) /\ done \subseteq 1..arrived
BY ManifestAssumption DEF TypeOK

\* The lists as numbers.
LEMMA ListNumbers ==
    ASSUME TypeOK
    PROVE  /\ arrived \in Nat
           /\ Len(queue) \in Nat /\ \A i \in 1..Len(queue) : queue[i] \in 1..arrived
           /\ Len(processing) \in Nat
           /\ \A i \in 1..Len(processing) : processing[i] \in 1..arrived
BY ListSets

\* The claim script moves the last of the queue into the empty list of claims.
LEMMA ClaimMoves ==
    ASSUME TypeOK, NEW e, Queue!ClaimScript(e), processing = <<>>
    PROVE  /\ queue' \in Seq(1..arrived) /\ Last(queue) \in 1..arrived
           /\ processing' = <<Last(queue)>>
           /\ Len(queue') = Len(queue) - 1 /\ Len(queue) \in Nat \ {0}
           /\ \A i \in 1..Len(queue') : queue'[i] = queue[i]
           /\ Last(queue) = queue[Len(queue)]
<1>1. queue \in Seq(1..arrived) /\ queue # <<>> /\ queue' = Front(queue)
  BY ListSets, SameOperators DEF Queue!ClaimScript
<1>2. Last(queue) \in 1..arrived /\ processing' = <<Last(queue)>> \o <<>>
  BY <1>1, FrontFacts, SameOperators DEF Queue!ClaimScript
<1>3. processing' = <<Last(queue)>>
  BY <1>2
<1> QED
  BY <1>1, <1>3, FrontFacts

\* Recovery puts the one claim back behind the queue, where it came from.
LEMMA RecoverMoves ==
    ASSUME TypeOK, NEW e, Queue!RecoverScript(e), Len(processing) <= 1
    PROVE  queue' = queue \o processing /\ processing' = <<>>
<1>1. /\ RecoverBatch \in Nat \ {0} /\ Len(processing) \in Nat
      /\ processing \in Seq(1..arrived)
  BY ManifestAssumption, ListSets
<1>2. Queue!AtMost(RecoverBatch, processing) = SubSeq(processing, 1, Len(processing))
  BY <1>1 DEF Queue!AtMost
<1>3. SubSeq(processing, 1, Len(processing)) = processing
  BY <1>1
<1>4. SubSeq(processing, Len(processing) + 1, Len(processing)) = <<>>
  BY <1>1
<1> QED
  BY <1>2, <1>3, <1>4 DEF Queue!RecoverScript

\* The claim is taken out of the line.
LEMMA OutOfLine ==
    ASSUME TypeOK, LineInv, NEW v, Contains(processing, v)
    PROVE  /\ processing = <<v>> /\ RemoveFirst(processing, v) = <<>>
           /\ v \in 1..arrived /\ Len(processing) = 1 /\ processing[1] = v
<1>1. processing \in Seq(1..arrived) /\ Len(processing) <= 1
  BY DEF TypeOK, LineInv
<1>2. processing = <<v>> /\ RemoveFirst(processing, v) = <<>>
  BY <1>1, RemoveOnly
<1> QED
  BY <1>1, <1>2


\* A release is a recovery of one claim.
LEMMA ReleaseMoves ==
    ASSUME TypeOK, LineInv, NEW e, NEW v, Queue!ReleaseScript(e, v)
    PROVE  queue' = queue \o processing /\ processing' = <<>>
<1>1. /\ Contains(processing, v) /\ queue' = Append(queue, v)
      /\ processing' = RemoveFirst(processing, v)
  BY SameOperators DEF Queue!ReleaseScript
<1>2. processing = <<v>> /\ processing' = <<>> /\ v \in 1..arrived
  BY <1>1, OutOfLine
<1>3. Append(queue, v) = queue \o <<v>>
  BY <1>2, ListSets, AppendIsConcat
<1> QED
  BY <1>1, <1>2, <1>3

-----------------------------------------------------------------------------

-----------------------------------------------------------------------------
(* Each script keeps the line, and what was before all that waits stays so. *)

\* The lists after a step, with the line, and all that waits waited before.
Lined ==
    /\ LineInv
    /\ epoch \in Nat /\ owner \in {0, epoch}
    /\ queue \in Seq(1..arrived) /\ processing \in Seq(1..arrived)
    /\ dead \in Seq(1..arrived) /\ done \subseteq 1..arrived

\* A claim carries the last of the queue over: the line stays as it is.
LEMMA ClaimKeeps ==
    ASSUME TypeOK, LineInv, NEW e, Queue!ClaimScript(e), processing = <<>>, arrived' = arrived
    PROVE  /\ Lined' /\ (\A v : Before(v) => Before(v)')
           /\ Last(queue) \in 1..arrived /\ (\A v : v = Last(queue) => Before(v)')
           /\ processing' = <<Last(queue)>>
           /\ \A v : Before(v) => v <= Last(queue)
<1>1. /\ queue' \in Seq(1..arrived) /\ Last(queue) \in 1..arrived
      /\ processing' = <<Last(queue)>>
      /\ Len(queue') = Len(queue) - 1 /\ Len(queue) \in Nat \ {0}
      /\ \A i \in 1..Len(queue') : queue'[i] = queue[i]
      /\ Last(queue) = queue[Len(queue)]
  BY ClaimMoves
<1>2. UNCHANGED <<owner, epoch, dead, done>>
  BY DEF Queue!ClaimScript
<1>3. Len(processing') = 1 /\ processing'[1] = queue[Len(queue)]
      /\ processing' \in Seq(1..arrived)
  BY <1>1
<1>4. /\ arrived \in Nat /\ \A i \in 1..Len(queue) : queue[i] \in 1..arrived
      /\ \A i, j \in 1..Len(queue) : i < j => queue[i] > queue[j]
  BY ListNumbers DEF LineInv
<1> DEFINE n == Len(queue)
           m == Len(queue')
<1>9. /\ n \in Nat \ {0} /\ m = n - 1 /\ n \in 1..n
      /\ \A i \in 1..m : i \in 1..n /\ i < n /\ queue'[i] = queue[i]
      /\ \A i \in 1..Len(processing') : i = 1 /\ processing'[i] = queue[n]
  <2>1. n \in Nat \ {0} /\ m = n - 1
    BY <1>1
  <2>2. n \in 1..n /\ \A i \in 1..m : i \in 1..n /\ i < n
    <3> HIDE DEF n, m
    <3> QED
      BY <2>1
  <2>3. \A i \in 1..Len(processing') : i = 1 /\ processing'[i] = queue[n]
    BY <1>3
  <2>4. \A i \in 1..m : queue'[i] = queue[i]
    BY <1>1
  <2> QED
    BY <2>1, <2>2, <2>3, <2>4
<1>5. LineInv'
  <2>1. \A i, j \in 1..m : i < j => queue'[i] > queue'[j]
    BY <1>4, <1>9
  <2>2. \A i \in 1..m : \A j \in 1..Len(processing') : queue'[i] > processing'[j]
    BY <1>4, <1>9
  <2> QED
    BY <1>3, <2>1, <2>2 DEF LineInv
<1>6. \A v : Before(v) => Before(v)'
  BY <1>9 DEF Before
<1>7. \A v : v = Last(queue) => Before(v)'
  <2>1. \A i \in 1..m : queue[n] <= queue'[i]
    BY <1>4, <1>9
  <2>2. \A i \in 1..Len(processing') : queue[n] <= processing'[i]
    <3>1. queue[n] \in 1..arrived
      BY <1>4, <1>9
    <3>2. queue[n] <= queue[n]
      BY <1>4, <3>1
    <3> QED
      BY <1>9, <3>2
  <2> QED
    BY <1>1, <2>1, <2>2 DEF Before
<1>8. \A v : Before(v) => v <= Last(queue)
  BY <1>1 DEF Before
<1> QED
  BY <1>1, <1>2, <1>3, <1>5, <1>6, <1>7, <1>8 DEF Lined, TypeOK

\* Recovery and release put the claim back where it came from.
LEMMA GiveBackKeeps ==
    ASSUME TypeOK, LineInv, queue' = queue \o processing, processing' = <<>>,
           UNCHANGED <<owner, epoch, dead, done, arrived>>
    PROVE  Lined' /\ (\A v : Before(v) => Before(v)')
<1> DEFINE n == Len(queue)
           q == queue \o processing
<1>1. /\ queue \in Seq(1..arrived) /\ processing \in Seq(1..arrived)
      /\ Len(processing) <= 1 /\ n \in Nat /\ arrived \in Nat
  BY ListSets DEF LineInv
<1>2. /\ q \in Seq(1..arrived) /\ Len(q) = n + Len(processing)
      /\ \A i \in 1..n : q[i] = queue[i]
      /\ \A i \in 1..Len(q) : i > n => i = n + 1 /\ q[i] = processing[1]
  BY <1>1
<1>3. \A i \in 1..Len(q) : i \in 1..n \/ (i = n + 1 /\ Len(processing) = 1)
  <2> DEFINE m == Len(processing)
             k == Len(q)
  <2>1. m \in Nat /\ m <= 1 /\ k = n + m
    BY <1>1, <1>2
  <2> HIDE DEF m, k, n
  <2>2. \A i \in 1..k : i \in 1..n \/ (i = n + 1 /\ m = 1)
    BY <1>1, <2>1
  <2> QED
    BY <2>2 DEF m, k
<1>4. /\ \A i, j \in 1..n : i < j => queue[i] > queue[j]
      /\ \A i \in 1..n : \A j \in 1..Len(processing) : queue[i] > processing[j]
      /\ \A i \in 1..n : queue[i] \in 1..arrived
      /\ Len(processing) = 1 => processing[1] \in 1..arrived
  BY ListNumbers DEF LineInv
<1>5. queue' = q /\ Len(processing') = 0 /\ processing' \in Seq(1..arrived)
  OBVIOUS
<1> HIDE DEF q, n
<1>6. \A i, j \in 1..Len(q) : i < j => q[i] > q[j]
  <2> SUFFICES ASSUME NEW i \in 1..Len(q), NEW j \in 1..Len(q), i < j
               PROVE  q[i] > q[j]
    OBVIOUS
  <2>1. CASE j \in 1..n
    BY <1>1, <1>2, <1>4, <2>1
  <2>2. CASE j = n + 1 /\ Len(processing) = 1
    <3>1. i \in 1..n /\ 1 \in 1..Len(processing)
      BY <1>1, <2>2
    <3>2. q[i] = queue[i] /\ q[j] = processing[1] /\ queue[i] > processing[1]
      <4>1. q[j] = processing[1]
        BY <1>1, <1>2, <2>2
      <4> QED
        BY <1>2, <1>4, <3>1, <4>1
    <3> QED
      BY <3>2
  <2> QED
    BY <1>3, <2>1, <2>2
<1>7. LineInv'
  BY <1>5, <1>6 DEF LineInv
<1>8. \A v : Before(v) => Before(v)'
  <2> SUFFICES ASSUME NEW v, Before(v), NEW i \in 1..Len(q)
               PROVE  v <= q[i]
    BY <1>5 DEF Before
  <2>1. CASE i \in 1..n
    BY <1>2, <2>1 DEF Before, n
  <2>2. CASE i = n + 1 /\ Len(processing) = 1
    <3>1. q[i] = processing[1]
      BY <1>1, <1>2, <2>2
    <3> QED
      BY <2>2, <3>1 DEF Before
  <2> QED
    BY <1>3, <2>1, <2>2
<1> QED
  BY <1>2, <1>5, <1>7, <1>8 DEF Lined, TypeOK

\* What is acknowledged or quarantined leaves the line.
LEMMA EndKeeps ==
    ASSUME TypeOK, LineInv, NEW e, NEW v, arrived' = arrived,
           Queue!QuarantineScript(e, v) \/ Queue!FinishScript(e, v)
    PROVE  Lined' /\ (\A x : Before(x) => Before(x)') /\ processing' = <<>>
<1>1. /\ Contains(processing, v) /\ processing' = RemoveFirst(processing, v)
      /\ UNCHANGED <<owner, epoch, queue>>
  BY SameOperators DEF Queue!QuarantineScript, Queue!FinishScript
<1>2. v \in 1..arrived /\ processing' = <<>>
  BY <1>1, OutOfLine
<1>3. /\ queue \in Seq(1..arrived) /\ dead \in Seq(1..arrived) /\ done \subseteq 1..arrived
      /\ processing' \in Seq(1..arrived) /\ Len(processing') = 0
  BY <1>2, ListSets
<1>4. done' \subseteq 1..arrived
  BY <1>2, <1>3 DEF Queue!QuarantineScript, Queue!FinishScript
<1>5. dead' \in Seq(1..arrived)
  <2>1. CASE Queue!FinishScript(e, v)
    BY <1>3, <2>1 DEF Queue!FinishScript
  <2>2. CASE Queue!QuarantineScript(e, v)
    <3> DEFINE t == <<v>> \o dead
               m == IF DeadMax < Len(t) THEN DeadMax ELSE Len(t)
    <3>1. t \in Seq(1..arrived) /\ Len(t) \in Nat
      BY <1>2, <1>3
    <3>2. dead' = SubSeq(t, 1, m)
      BY <2>2 DEF Queue!QuarantineScript, Queue!AtMost
    <3> HIDE DEF t
    <3>3. m \in Nat /\ m <= Len(t)
      BY <3>1, ManifestAssumption
    <3> HIDE DEF m
    <3> QED
      BY <3>1, <3>2, <3>3, CutFacts
  <2> QED
    BY <2>1, <2>2
<1>6. LineInv'
  BY <1>1, <1>3 DEF LineInv
<1>7. \A x : Before(x) => Before(x)'
  BY <1>1, <1>3 DEF Before
<1> QED
  BY <1>1, <1>2, <1>3, <1>4, <1>5, <1>6, <1>7 DEF Lined, TypeOK

\* The script a step of process p may run: with its epoch and its claim.
QueueEffect(p) ==
    \/ Unmoved
    \/ Queue!AcquireLock
    \/ Queue!DropLock(proc[p].epoch)
    \/ Queue!ClaimScript(proc[p].epoch) /\ processing = <<>>
    \/ Queue!RecoverScript(proc[p].epoch)
    \/ Queue!ReleaseScript(proc[p].epoch, proc[p].claim)
    \/ Queue!QuarantineScript(proc[p].epoch, proc[p].claim)
    \/ proc[p].pc = "finish" /\ Queue!FinishScript(proc[p].epoch, proc[p].claim)

\* Each script keeps the line, and only the owner moves claims.
LEMMA EffectKeeps ==
    ASSUME TypeOK, LineInv, NEW p \in Proc, QueueEffect(p), arrived' = arrived
    PROVE  /\ Lined' /\ (\A v : Before(v) => Before(v)')
           /\ \/ UNCHANGED <<owner, epoch, processing>>
              \/ owner' = epoch + 1 /\ epoch' = epoch + 1 /\ processing' = processing
              \/ Owner(p) /\ owner' \in {owner, 0} /\ epoch' = epoch
<1> DEFINE e == proc[p].epoch
           c == proc[p].claim
<1>1. /\ epoch \in Nat /\ owner \in {0, epoch} /\ arrived \in Nat
      /\ queue \in Seq(1..arrived) /\ processing \in Seq(1..arrived)
      /\ dead \in Seq(1..arrived) /\ done \subseteq 1..arrived
  BY ListSets DEF TypeOK
<1>2. CASE Unmoved \/ Queue!AcquireLock \/ Queue!DropLock(e)
  <2>1. UNCHANGED <<queue, processing, dead, done>>
    BY <1>2 DEF Unmoved, queueVars, Queue!AcquireLock, Queue!DropLock, Queue!listVars
  <2>2. LineInv' /\ \A v : Before(v) => Before(v)'
    BY <2>1 DEF LineInv, Before
  <2>3. /\ epoch' \in Nat /\ owner' \in {0, epoch'}
        /\ \/ UNCHANGED <<owner, epoch, processing>>
           \/ owner' = epoch + 1 /\ epoch' = epoch + 1 /\ processing' = processing
           \/ Owner(p) /\ owner' \in {owner, 0} /\ epoch' = epoch
    BY <1>1, <1>2 DEF Unmoved, queueVars, Queue!AcquireLock, Queue!DropLock,
                      Queue!listVars, Owner
  <2> QED
    BY <1>1, <2>1, <2>2, <2>3 DEF Lined
<1>3. CASE Queue!ClaimScript(e) /\ processing = <<>>
  <2>1. Owner(p) /\ UNCHANGED <<owner, epoch>>
    BY <1>3 DEF Queue!ClaimScript, Owner
  <2> QED
    BY <1>3, <2>1, ClaimKeeps
<1>4. CASE Queue!RecoverScript(e) \/ Queue!ReleaseScript(e, c)
  <2>1. Len(processing) <= 1
    BY DEF LineInv
  <2>2. queue' = queue \o processing /\ processing' = <<>>
    BY <1>4, <2>1, RecoverMoves, ReleaseMoves
  <2>3. Owner(p) /\ UNCHANGED <<owner, epoch, dead, done>>
    BY <1>4 DEF Queue!RecoverScript, Queue!ReleaseScript, Owner
  <2> QED
    BY <2>2, <2>3, GiveBackKeeps
<1>5. CASE Queue!QuarantineScript(e, c) \/ Queue!FinishScript(e, c)
  <2>1. Owner(p) /\ UNCHANGED <<owner, epoch>>
    BY <1>5 DEF Queue!QuarantineScript, Queue!FinishScript, Owner
  <2> QED
    BY <1>5, <2>1, EndKeeps
<1> QED
  BY <1>2, <1>3, <1>4, <1>5 DEF QueueEffect

-----------------------------------------------------------------------------
(* The plan of an attempt. *)

\* The batches of n images are enough for them.
LEMMA Division ==
    ASSUME NEW n \in Nat, NEW b \in Nat \ {0}
    PROVE  /\ (n + b - 1) \div b \in Nat /\ n <= ((n + b - 1) \div b) * b
           /\ n \div b \in Nat /\ (n \div b) * b <= n /\ n < (n \div b) * b + b
BY Z3

\* A multiple grows with its factor.
LEMMA Multiples ==
    ASSUME NEW j \in Nat, NEW k \in Nat, NEW b \in Nat \ {0}, j * b < k * b
    PROVE  j < k
<1>1. k <= j => k * b <= j * b
  BY Z3
<1>2. j * b \in Nat /\ k * b \in Nat
  BY Z3
<1> QED
  BY <1>1, <1>2

\* A part of a sequence.
LEMMA PartFacts ==
    ASSUME NEW S, NEW s \in Seq(S), NEW a \in Nat \ {0}, NEW z \in Nat, z <= Len(s)
    PROVE  /\ SubSeq(s, a, z) \in Seq(S) /\ ToSet(SubSeq(s, a, z)) \subseteq ToSet(s)
           /\ \A x \in a..z : s[x] \in ToSet(SubSeq(s, a, z))
<1> DEFINE t == SubSeq(s, a, z)
<1>1. /\ t \in Seq(S) /\ Len(t) = IF a <= z THEN z - a + 1 ELSE 0
      /\ \A i \in 1..Len(t) : t[i] = s[a + i - 1]
  OBVIOUS
<1>2. Len(s) \in Nat /\ DOMAIN s = 1..Len(s) /\ DOMAIN t = 1..Len(t)
  BY <1>1
<1> HIDE DEF t
<1>3. ToSet(t) \subseteq ToSet(s)
  <2> SUFFICES ASSUME NEW i \in 1..Len(t)
               PROVE  t[i] \in ToSet(s)
    BY <1>2 DEF ToSet
  <2>1. a + i - 1 \in 1..Len(s)
    BY <1>1, <1>2
  <2> QED
    BY <1>1, <1>2, <2>1 DEF ToSet
<1>4. \A x \in a..z : s[x] \in ToSet(t)
  <2> SUFFICES ASSUME NEW x \in a..z
               PROVE  s[x] \in ToSet(t)
    OBVIOUS
  <2>1. x - a + 1 \in 1..Len(t) /\ a + (x - a + 1) - 1 = x
    BY <1>1
  <2>2. t[x - a + 1] = s[x]
    BY <1>1, <2>1
  <2> QED
    BY <1>2, <2>1, <2>2 DEF ToSet
<1> QED
  BY <1>1, <1>3, <1>4 DEF t

\* The batches hold the given items, and each item is in one of them.
LEMMA BatchFacts ==
    ASSUME NEW S, S \subseteq Item, NEW imgs \in Seq(S), NEW call \in CallNames,
           NEW B, B = Batches(call, imgs)
    PROVE  /\ B \in Seq(Call)
           /\ \A k \in 1..Len(B) : B[k].call = call /\ ToSet(B[k].batch) \subseteq ToSet(imgs)
           /\ \A i \in ToSet(imgs) : \E k \in 1..Len(B) : i \in ToSet(B[k].batch)
<1> DEFINE n == Len(imgs)
           m == (n + Batch - 1) \div Batch
           a(k) == (k - 1) * Batch + 1
           z(k) == IF k * Batch < n THEN k * Batch ELSE n
           part(k) == SubSeq(imgs, a(k), z(k))
<1>1. n \in Nat /\ Batch \in Nat \ {0} /\ m \in Nat /\ n <= m * Batch
  BY ManifestAssumption, Division
<1>2. B = [k \in 1..m |-> [call |-> call, batch |-> part(k)]]
  BY DEF Batches
<1> HIDE DEF m
<1>3. ASSUME NEW k \in 1..m
      PROVE  a(k) \in Nat \ {0} /\ z(k) \in Nat /\ z(k) <= n
  <2>1. k \in Nat /\ k - 1 \in Nat /\ k * Batch \in Nat /\ (k - 1) * Batch \in Nat
    BY <1>1, Z3
  <2> QED
    BY <1>1, <2>1
<1>4. ASSUME NEW k \in 1..m
      PROVE  /\ part(k) \in Seq(Item) /\ ToSet(part(k)) \subseteq ToSet(imgs)
             /\ \A x \in a(k)..z(k) : imgs[x] \in ToSet(part(k))
  <2> HIDE DEF a, z
  <2>1. /\ part(k) \in Seq(S) /\ ToSet(part(k)) \subseteq ToSet(imgs)
        /\ \A x \in a(k)..z(k) : imgs[x] \in ToSet(part(k))
    BY <1>3, PartFacts
  <2> HIDE DEF part
  <2>2. part(k) \in Seq(Item)
    BY <2>1
  <2> QED
    BY <2>1, <2>2
<1>5. \A x \in 1..n : \E k \in 1..m : x \in a(k)..z(k)
  <2> SUFFICES ASSUME NEW x \in 1..n
               PROVE  \E k \in 1..m : x \in a(k)..z(k)
    OBVIOUS
  <2> DEFINE j == (x - 1) \div Batch
             k == j + 1
  <2>1. j \in Nat /\ j * Batch <= x - 1 /\ x - 1 < j * Batch + Batch
    <3>1. x - 1 \in Nat
      BY <1>1
    <3> QED
      BY <1>1, <3>1, Division
  <2> HIDE DEF j
  <2>2. k * Batch = j * Batch + Batch /\ (k - 1) * Batch = j * Batch
        /\ j * Batch \in Nat /\ m * Batch \in Nat
    BY <1>1, <2>1, Z3
  <2>3. j * Batch < m * Batch
    BY <1>1, <2>1, <2>2
  <2>4. j < m
    BY <1>1, <2>1, <2>3, Multiples
  <2>5. k \in 1..m
    BY <1>1, <2>1, <2>4
  <2>6. a(k) <= x /\ x <= z(k)
    BY <1>1, <2>1, <2>2
  <2>7. x \in a(k)..z(k)
    BY <1>3, <2>5, <2>6
  <2> QED
    BY <2>5, <2>7
<1> HIDE DEF a, z, part, n
<1>6. B \in Seq(Call) /\ Len(B) = m
  <2>1. \A k \in 1..m : [call |-> call, batch |-> part(k)] \in Call
    BY <1>4 DEF Call
  <2> QED
    BY <1>1, <1>2, <2>1
<1>7. \A k \in 1..m : B[k].call = call /\ B[k].batch = part(k)
  BY <1>2
<1>8. \A i \in ToSet(imgs) : \E k \in 1..m : i \in ToSet(B[k].batch)
  <2> SUFFICES ASSUME NEW x \in 1..n
               PROVE  \E k \in 1..m : imgs[x] \in ToSet(B[k].batch)
    BY DEF ToSet, n
  <2>1. PICK k \in 1..m : x \in a(k)..z(k)
    BY <1>5
  <2> QED
    BY <1>4, <1>7, <2>1
<1> QED
  BY <1>4, <1>6, <1>7, <1>8

\* Sequence p is s, of m elements, followed by t, of n elements.
Joined(p, s, t, m, n, S) ==
    /\ p \in Seq(S) /\ Len(p) = m + n
    /\ \A i \in 1..m : p[i] = s[i]
    /\ \A i \in 1..n : p[m + i] = t[i]

\* Two sequences joined.
LEMMA JoinFacts ==
    ASSUME NEW S, NEW s \in Seq(S), NEW t \in Seq(S),
           NEW m \in Nat, Len(s) = m, NEW n \in Nat, Len(t) = n
    PROVE  Joined(s \o t, s, t, m, n, S)
BY DEF Joined

\* Sequence P is A, I of a elements, N, and W of b elements.
InParts(P, A, I, N, W, a, b, S) ==
    /\ P \in Seq(S) /\ Len(P) = 3 + a + b
    /\ P[1] = A[1] /\ P[2] = A[2] /\ P[3 + a] = N[1]
    /\ \A k \in 1..a : P[2 + k] = I[k]
    /\ \A k \in 1..b : P[3 + a + k] = W[k]

\* Four sequences joined, the first and the third of which are short.
LEMMA FourParts ==
    ASSUME NEW S, NEW A \in Seq(S), NEW I \in Seq(S), NEW N \in Seq(S), NEW W \in Seq(S),
           Len(A) = 2, Len(N) = 1, NEW P, P = ((A \o I) \o N) \o W,
           NEW a \in Nat, Len(I) = a, NEW b \in Nat, Len(W) = b
    PROVE  InParts(P, A, I, N, W, a, b, S)
<1> DEFINE B == A \o I
           C == B \o N
<1>1. /\ B \in Seq(S) /\ Len(B) = 2 + a
      /\ \A k \in 1..2 : B[k] = A[k]
      /\ \A k \in 1..a : B[2 + k] = I[k]
  <2>1. Joined(B, A, I, 2, a, S)
    BY JoinFacts
  <2> HIDE DEF B
  <2> QED
    BY <2>1 DEF Joined
<1>2. P = C \o W /\ 2 + a \in Nat /\ 3 + a \in Nat /\ 1 \in Nat
  OBVIOUS
<1> HIDE DEF B
<1>3. /\ C \in Seq(S) /\ Len(C) = 3 + a
      /\ \A k \in 1..(2 + a) : C[k] = B[k]
      /\ C[3 + a] = N[1]
  <2>1. /\ C \in Seq(S) /\ Len(C) = (2 + a) + 1
        /\ \A k \in 1..(2 + a) : C[k] = B[k]
        /\ \A k \in 1..1 : C[(2 + a) + k] = N[k]
    <3>1. Joined(C, B, N, 2 + a, 1, S)
      BY <1>1, <1>2, JoinFacts
    <3> HIDE DEF C
    <3> QED
      BY <3>1 DEF Joined
  <2> HIDE DEF C
  <2>2. C[(2 + a) + 1] = N[1] /\ (2 + a) + 1 = 3 + a
    BY <2>1
  <2> QED
    BY <2>1, <2>2
<1> HIDE DEF C
<1>4. /\ P \in Seq(S) /\ Len(P) = (3 + a) + b
      /\ \A k \in 1..(3 + a) : P[k] = C[k]
      /\ \A k \in 1..b : P[(3 + a) + k] = W[k]
  <2>1. Joined(P, C, W, 3 + a, b, S)
    BY <1>2, <1>3, JoinFacts
  <2> QED
    BY <2>1 DEF Joined
<1>5. \A k \in 1..(2 + a) : P[k] = B[k]
  BY <1>3, <1>4
<1>6. P[1] = A[1] /\ P[2] = A[2] /\ P[3 + a] = N[1]
  <2>1. 1 \in 1..(2 + a) /\ 2 \in 1..(2 + a) /\ 3 + a \in 1..(3 + a) /\ 1 \in 1..2 /\ 2 \in 1..2
    OBVIOUS
  <2>2. P[1] = B[1] /\ P[2] = B[2] /\ P[3 + a] = C[3 + a]
    BY <1>4, <1>5, <2>1
  <2>3. B[1] = A[1] /\ B[2] = A[2] /\ C[3 + a] = N[1]
    BY <1>1, <1>3, <2>1
  <2> QED
    BY <2>2, <2>3
<1>7. ASSUME NEW k \in 1..a
      PROVE  P[2 + k] = I[k]
  <2>1. 2 + k \in 1..(2 + a)
    OBVIOUS
  <2>2. P[2 + k] = B[2 + k]
    BY <1>5, <2>1
  <2> QED
    BY <1>1, <2>2
<1>8. Len(P) = 3 + a + b /\ \A k \in 1..b : P[3 + a + k] = W[k]
  BY <1>4
<1> QED
  BY <1>4, <1>6, <1>7, <1>8 DEF InParts

\* Which part an index is in.
LEMMA Parts ==
    ASSUME NEW a \in Nat, NEW b \in Nat, NEW l, l = 3 + a + b
    PROVE  /\ l \in Nat \ {0} /\ 1 \in 1..l /\ 2 \in 1..l /\ 3 + a \in 1..l
           /\ \A k \in 1..a : 2 + k \in 1..l
           /\ \A k \in 1..b : 3 + a + k \in 1..l /\ 3 + a < 3 + a + k
           /\ \A k \in 1..l : \/ k \in {1, 2, 3 + a}
                              \/ \E j \in 1..a : k = 2 + j
                              \/ \E j \in 1..b : k = 3 + a + j
<1>1. ASSUME NEW k \in 1..l
      PROVE  \/ k \in {1, 2, 3 + a}
             \/ \E j \in 1..a : k = 2 + j
             \/ \E j \in 1..b : k = 3 + a + j
  <2>1. CASE k > 2 /\ k < 3 + a
    <3>1. k - 2 \in 1..a /\ k = 2 + (k - 2)
      BY <2>1
    <3> QED
      BY <3>1
  <2>2. CASE k > 3 + a
    <3>1. k - (3 + a) \in 1..b /\ k = 3 + a + (k - (3 + a))
      BY <2>2
    <3> QED
      BY <3>1
  <2> QED
    BY <2>1, <2>2
<1> QED
  BY <1>1

\* The remainder and the quotient of a place in pairs.
LEMMA Halves ==
    ASSUME NEW m \in Nat, NEW x \in 1..m
    PROVE  /\ 2 * x - 1 \in 1..2 * m /\ 2 * x \in 1..2 * m
           /\ (2 * x - 1 - 1) \div 2 + 1 = x /\ (2 * x - 1 - 1) % 2 = 0
           /\ (2 * x - 1) \div 2 + 1 = x /\ (2 * x - 1) % 2 = 1
BY Z3

\* A place among the pairs is in one of them.
LEMMA Paired ==
    ASSUME NEW m \in Nat, NEW j \in 1..2 * m
    PROVE  (j - 1) \div 2 + 1 \in 1..m
BY Z3

\* A postings list has each image with its own words and with the keywords.
LEMMA PostingsFacts ==
    ASSUME NEW imgs \in Seq(Image), NEW k \in Source
    PROVE  /\ Postings(imgs, k) \in Seq(Posting)
           /\ ToSet(Postings(imgs, k)) = ToSet(imgs) \X {0, k}
<1> DEFINE m == Len(imgs)
<1>0. /\ m \in Nat /\ \A x \in 1..m : imgs[x] \in Image /\ imgs[x] \in ToSet(imgs)
      /\ 0 \in Source /\ ToSet(imgs) = {imgs[x] : x \in 1..m}
  BY ManifestAssumption DEF ToSet, Source
<1>1. CASE k = 0
  <2> DEFINE f == [j \in 1..m |-> <<imgs[j], 0>>]
  <2>1. Postings(imgs, k) = f
    <3>1. 1 * m = m /\ \A j \in 1..1 * m : (j - 1) \div 1 + 1 = j /\ (j - 1) % 1 = 0
      BY <1>0, Z3
    <3> HIDE DEF m
    <3>2. Postings(imgs, k) = [j \in 1..1 * m |-> <<imgs[(j - 1) \div 1 + 1],
                                                   IF (j - 1) % 1 = 0 THEN 0 ELSE k>>]
      BY <1>1 DEF Postings, m
    <3> QED
      BY <3>1, <3>2
  <2>2. f \in Seq(Posting) /\ DOMAIN f = 1..m
    BY <1>0 DEF Posting
  <2>3. ToSet(f) = {f[j] : j \in 1..m}
    BY <2>2 DEF ToSet
  <2>4. ToSet(f) = ToSet(imgs) \X {0, k}
    BY <1>0, <1>1, <2>3
  <2> QED
    BY <2>1, <2>2, <2>4
<1>2. CASE k # 0
  <2> DEFINE f == Postings(imgs, k)
             img(j) == imgs[(j - 1) \div 2 + 1]
             src(j) == IF (j - 1) % 2 = 0 THEN 0 ELSE k
  <2>1. f = [j \in 1..2 * m |-> <<img(j), src(j)>>] /\ 2 * m \in Nat
    BY <1>0, <1>2 DEF Postings
  <2>2. \A j \in 1..2 * m : img(j) \in Image /\ img(j) \in ToSet(imgs) /\ src(j) \in {0, k}
    BY <1>0, Paired
  <2>3. \A j \in 1..2 * m : <<img(j), src(j)>> \in Posting
    BY <1>0, <2>2 DEF Posting
  <2>4. ASSUME NEW x \in 1..m
        PROVE  \E a, b \in 1..2 * m : f[a] = <<imgs[x], 0>> /\ f[b] = <<imgs[x], k>>
    <3> DEFINE a == 2 * x - 1
               b == 2 * x
    <3>1. a \in 1..2 * m /\ b \in 1..2 * m
      BY <1>0, Halves
    <3>2. img(a) = imgs[x] /\ src(a) = 0
      BY <1>0, Halves
    <3>3. img(b) = imgs[x] /\ src(b) = k
      BY <1>0, Halves
    <3> HIDE DEF a, b, img, src, f
    <3>4. f[a] = <<img(a), src(a)>> /\ f[b] = <<img(b), src(b)>>
      BY <2>1, <3>1
    <3> QED
      BY <3>1, <3>2, <3>3, <3>4
  <2> HIDE DEF img, src, f, m
  <2>5. f \in Seq(Posting) /\ DOMAIN f = 1..2 * m
    BY <2>1, <2>3
  <2>6. ToSet(f) = {f[j] : j \in 1..2 * m}
    BY <2>5 DEF ToSet
  <2>7. \A j \in 1..2 * m : f[j] \in ToSet(imgs) \X {0, k}
    BY <2>1, <2>2
  <2>8. \A y \in ToSet(imgs) \X {0, k} : y \in ToSet(f)
    <3>1. ASSUME NEW x \in 1..m, NEW z \in {0, k}
          PROVE  <<imgs[x], z>> \in ToSet(f)
      BY <2>4, <2>6
    <3>2. \A i \in ToSet(imgs) : \A z \in {0, k} : <<i, z>> \in ToSet(f)
      BY <1>0, <3>1
    <3> SUFFICES ASSUME NEW y \in ToSet(imgs) \X {0, k}
                 PROVE  y \in ToSet(f)
      OBVIOUS
    <3>3. y[1] \in ToSet(imgs) /\ y[2] \in {0, k} /\ y = <<y[1], y[2]>>
      OBVIOUS
    <3> QED
      BY <3>2, <3>3
  <2> QED
    BY <2>5, <2>6, <2>7, <2>8 DEF f
<1> QED
  BY <1>1, <1>2

\* The plan P has calls for all that a page with these images and keywords needs.
Covers(P, imgs, k) ==
    /\ \A c \in {"state", "prune", "clear"} : \E j \in 1..Len(P) : P[j].call = c
    /\ \A i \in ToSet(imgs) :
          \E j \in 1..Len(P) : P[j].call = "images" /\ i \in ToSet(P[j].batch)
    /\ \A i \in Crossed(imgs, k) :
          \E j \in 1..Len(P) : P[j].call = "words" /\ i \in ToSet(P[j].batch)

\* What the plan of a page with the given images and keywords consists of.
LEMMA PlanFacts ==
    ASSUME NEW imgs \in Seq(Image), NEW k \in Source, NEW P, P = ReplacePageImages(imgs, k)
    PROVE  /\ P \in Seq(Call) /\ Len(P) \in Nat \ {0}
           /\ \A j \in 1..Len(P) :
                 /\ P[j].call = "images" => ToSet(P[j].batch) \subseteq ToSet(imgs)
                 /\ P[j].call = "words" => ToSet(P[j].batch) \subseteq Crossed(imgs, k)
           /\ \A j, m \in 1..Len(P) : P[j].call = "words" /\ P[m].call = "clear" => m < j
           /\ Covers(P, imgs, k)
<1> DEFINE A == <<[call |-> "state", batch |-> <<>>], [call |-> "prune", batch |-> <<>>]>>
           I == Batches("images", imgs)
           N == <<[call |-> "clear", batch |-> <<>>]>>
           X == Postings(imgs, k)
           K == ToSet(imgs) \X {0, k}
           W == Batches("words", X)
           a == Len(I)
           b == Len(W)
           l == Len(P)
<1>1. "images" \in CallNames /\ "words" \in CallNames /\ <<>> \in Seq(Item)
  BY DEF CallNames
<1>2. A \in Seq(Call) /\ Len(A) = 2 /\ A[1].call = "state" /\ A[2].call = "prune"
      /\ N \in Seq(Call) /\ Len(N) = 1 /\ N[1].call = "clear"
  <2> DEFINE x == [call |-> "state", batch |-> <<>>]
             y == [call |-> "prune", batch |-> <<>>]
             z == [call |-> "clear", batch |-> <<>>]
  <2>1. x \in Call /\ y \in Call /\ z \in Call
    BY <1>1 DEF Call, CallNames
  <2>2. x.call = "state" /\ y.call = "prune" /\ z.call = "clear"
    OBVIOUS
  <2>3. A = <<x, y>> /\ N = <<z>>
    OBVIOUS
  <2> HIDE DEF x, y, z, A, N
  <2>4. A \in Seq(Call) /\ Len(A) = 2 /\ A[1] = x /\ A[2] = y
    BY <2>1, <2>3
  <2>5. N \in Seq(Call) /\ Len(N) = 1 /\ N[1] = z
    BY <2>1, <2>3
  <2> QED
    BY <2>2, <2>4, <2>5
<1>3. /\ I \in Seq(Call)
      /\ \A n \in 1..a : I[n].call = "images" /\ ToSet(I[n].batch) \subseteq ToSet(imgs)
      /\ \A i \in ToSet(imgs) : \E n \in 1..a : i \in ToSet(I[n].batch)
  <2>1. Image \subseteq Item
    BY DEF Item
  <2> QED
    BY <1>1, <2>1, BatchFacts
<1>4. /\ W \in Seq(Call)
      /\ \A n \in 1..b : W[n].call = "words" /\ ToSet(W[n].batch) \subseteq K
      /\ \A i \in K : \E n \in 1..b : i \in ToSet(W[n].batch)
  <2>1. Posting \subseteq Item /\ X \in Seq(Posting) /\ ToSet(X) = K
    BY PostingsFacts DEF Item
  <2> HIDE DEF X, K
  <2> QED
    BY <1>1, <2>1, BatchFacts
<1>5. P = ((A \o I) \o N) \o W
  BY DEF ReplacePageImages
<1>6. a \in Nat /\ b \in Nat
  BY <1>3, <1>4
<1>7. K = Crossed(imgs, k)
  BY DEF Crossed
<1> HIDE DEF A, I, N, W, X, K
<1>8. /\ P \in Seq(Call) /\ l = 3 + a + b
      /\ P[1] = A[1] /\ P[2] = A[2] /\ P[3 + a] = N[1]
      /\ \A n \in 1..a : P[2 + n] = I[n]
      /\ \A n \in 1..b : P[3 + a + n] = W[n]
  <2>1. P = ((A \o I) \o N) \o W /\ Len(I) = a /\ Len(W) = b
    BY <1>5
  <2>2. A \in Seq(Call) /\ I \in Seq(Call) /\ N \in Seq(Call) /\ W \in Seq(Call)
    BY <1>2, <1>3, <1>4
  <2>3. InParts(P, A, I, N, W, a, b, Call)
    <3> HIDE DEF a, b
    <3> QED
      BY <1>2, <1>6, <2>1, <2>2, FourParts
  <2> HIDE DEF a, b
  <2> QED
    BY <2>3 DEF InParts, l
<1>9. /\ \A n \in 1..a : I[n].call = "images" /\ ToSet(I[n].batch) \subseteq ToSet(imgs)
      /\ \A i \in ToSet(imgs) : \E n \in 1..a : i \in ToSet(I[n].batch)
      /\ \A n \in 1..b : W[n].call = "words" /\ ToSet(W[n].batch) \subseteq K
      /\ \A i \in K : \E n \in 1..b : i \in ToSet(W[n].batch)
  BY <1>3, <1>4
<1> HIDE DEF a, b, l
<1>10. /\ l \in Nat \ {0} /\ 1 \in 1..l /\ 2 \in 1..l /\ 3 + a \in 1..l
       /\ \A n \in 1..a : 2 + n \in 1..l
       /\ \A n \in 1..b : 3 + a + n \in 1..l /\ 3 + a < 3 + a + n
       /\ \A n \in 1..l : \/ n \in {1, 2, 3 + a}
                          \/ \E j \in 1..a : n = 2 + j
                          \/ \E j \in 1..b : n = 3 + a + j
  BY <1>6, <1>8, Parts
<1>11. /\ P[1].call = "state" /\ P[2].call = "prune" /\ P[3 + a].call = "clear"
       /\ \A n \in 1..a : P[2 + n].call = "images" /\ ToSet(P[2 + n].batch) \subseteq ToSet(imgs)
       /\ \A n \in 1..b :
             P[3 + a + n].call = "words" /\ ToSet(P[3 + a + n].batch) \subseteq K
  <2>1. P[1] = A[1] /\ P[2] = A[2] /\ P[3 + a] = N[1]
    BY <1>8
  <2>2. A[1].call = "state" /\ A[2].call = "prune" /\ N[1].call = "clear"
    BY <1>2
  <2>3. \A n \in 1..a : P[2 + n].call = "images" /\ ToSet(P[2 + n].batch) \subseteq ToSet(imgs)
    BY <1>8, <1>9
  <2>4. \A n \in 1..b :
            P[3 + a + n].call = "words" /\ ToSet(P[3 + a + n].batch) \subseteq K
    BY <1>8, <1>9
  <2> QED
    BY <2>1, <2>2, <2>3, <2>4
<1>12. ASSUME NEW n \in 1..l
       PROVE  /\ P[n].call = "clear" => n = 3 + a
              /\ P[n].call = "words" => \E j \in 1..b : n = 3 + a + j
              /\ P[n].call = "images" => ToSet(P[n].batch) \subseteq ToSet(imgs)
              /\ P[n].call = "words" => ToSet(P[n].batch) \subseteq K
  <2>1. CASE n \in {1, 2, 3 + a}
    <3>1. P[n].call \in {"state", "prune", "clear"} /\ (P[n].call = "clear" => n = 3 + a)
      BY <1>11, <2>1
    <3> QED
      BY <3>1
  <2>2. ASSUME NEW j \in 1..a, n = 2 + j
        PROVE  P[n].call = "images" /\ ToSet(P[n].batch) \subseteq ToSet(imgs)
    BY <1>11, <2>2
  <2>3. ASSUME NEW j \in 1..b, n = 3 + a + j
        PROVE  P[n].call = "words" /\ ToSet(P[n].batch) \subseteq K
    BY <1>11, <2>3
  <2> QED
    BY <1>10, <2>1, <2>2, <2>3
<1>13. \A n, m \in 1..l : P[n].call = "words" /\ P[m].call = "clear" => m < n
  BY <1>10, <1>12
<1>14. ASSUME NEW i \in ToSet(imgs)
       PROVE  \E n \in 1..l : P[n].call = "images" /\ i \in ToSet(P[n].batch)
  <2>1. PICK n \in 1..a : i \in ToSet(I[n].batch)
    BY <1>9
  <2>2. P[2 + n] = I[n]
    BY <1>8
  <2>3. P[2 + n].call = "images" /\ 2 + n \in 1..l
    BY <1>10, <1>11
  <2> QED
    BY <2>1, <2>2, <2>3
<1>15. ASSUME NEW i \in K
       PROVE  \E n \in 1..l : P[n].call = "words" /\ i \in ToSet(P[n].batch)
  <2>1. PICK n \in 1..b : i \in ToSet(W[n].batch)
    BY <1>9
  <2>2. P[3 + a + n] = W[n]
    BY <1>8
  <2>3. P[3 + a + n].call = "words" /\ 3 + a + n \in 1..l
    BY <1>10, <1>11
  <2> QED
    BY <2>1, <2>2, <2>3
<1>16. \A c \in {"state", "prune", "clear"} : \E n \in 1..l : P[n].call = c
  BY <1>10, <1>11
<1>17. Covers(P, imgs, k)
  BY <1>7, <1>14, <1>15, <1>16 DEF l, Covers
<1> QED
  BY <1>7, <1>8, <1>10, <1>12, <1>13, <1>17 DEF l

-----------------------------------------------------------------------------
(* What one call changes. *)

\* The fields of a publication.
LEMMA PubFields ==
    ASSUME TypeOK
    PROVE  /\ arrived \in 0..NPub
           /\ \A v \in 1..arrived : UrlOf(v) \in Url /\ ImagesOf(v) \in Seq(Image)
<1> DEFINE I == Seq(Image)
           R == [url : Url, manifest : {"images", "corrupt", "invalid"}, images : I]
<1>1. workload.pubs \in Seq(R) /\ Len(workload.pubs) <= NPub /\ NPub \in Nat
  BY ManifestAssumption DEF TypeOK
<1>2. arrived \in 0..Len(workload.pubs) /\ Len(workload.pubs) \in Nat
  BY <1>1 DEF TypeOK
<1>3. \A v \in 1..arrived : workload.pubs[v] \in R
  <2> HIDE DEF R
  <2> QED
    BY <1>1, <1>2
<1>4. \A v \in 1..arrived : workload.pubs[v].url \in Url /\ workload.pubs[v].images \in I
  <2> HIDE DEF I
  <2> QED
    BY <1>3
<1> QED
  BY <1>1, <1>2, <1>4 DEF UrlOf, ImagesOf

\* An image is in a sequence, or in its set.
LEMMA InSequence ==
    ASSUME NEW imgs \in Seq(Image), NEW i
    PROVE  Contains(imgs, i) <=> i \in ToSet(imgs)
BY DEF Contains, ToSet

\* A deletion leaves the document or none.
LEMMA DeleteFacts ==
    ASSUME NEW d \in Doc, NEW e \in Nat
    PROVE  /\ DeleteDoc(d, e) \in Doc
           /\ Fenced(d, e) => DeleteDoc(d, e) = NoDoc
           /\ ~Fenced(d, e) => DeleteDoc(d, e) = d
BY DEF DeleteDoc, Doc, NoDoc

\* Of documents d, those of the batch that are within reach of op become new,
\* all of them unless one conflicts.
Batched(f, d, op, D) ==
    /\ \A i \in D : \/ f[i] = d[i]
                    \/ i \in ToSet(op.batch) /\ Fenced(d[i], op.epoch) /\ f[i] = DocOf(op)
    /\ (\A i \in ToSet(op.batch) : i \in D /\ Fenced(d[i], op.epoch)) =>
          \A i \in ToSet(op.batch) : f[i] = DocOf(op)

\* An ordered batch writes its documents up to the first conflict.
LEMMA OrderedFacts ==
    ASSUME NEW D, NEW d \in [D -> Doc], NEW op, op.batch \in Seq(Item), NEW f,
           f = Ordered(d, op), DocOf(op) \in Doc
    PROVE  f \in [D -> Doc] /\ Batched(f, d, op, D)
<1> DEFINE b == op.batch
           Reach(k) == \A j \in 1..k : Fenced(d[b[j]], op.epoch)
<1>1. /\ DOMAIN b = 1..Len(b) /\ Len(b) \in Nat /\ DOMAIN d = D
      /\ \A k \in 1..Len(b) : k \in 1..k /\ \A j \in 1..k : j \in 1..Len(b)
  OBVIOUS
<1>2. ToSet(b) = {b[k] : k \in 1..Len(b)}
  BY <1>1 DEF ToSet
<1>3. f = [i \in D |-> IF \E k \in 1..Len(b) : b[k] = i /\ Reach(k) THEN DocOf(op) ELSE d[i]]
  BY <1>1 DEF Ordered
<1>4. \A k \in 1..Len(b) : Reach(k) => Fenced(d[b[k]], op.epoch)
  BY <1>1
<1> HIDE DEF Reach
<1>5. ASSUME NEW i \in D
      PROVE  \/ f[i] = d[i]
             \/ i \in ToSet(b) /\ Fenced(d[i], op.epoch) /\ f[i] = DocOf(op)
  BY <1>2, <1>3, <1>4
<1>6. ASSUME \A i \in ToSet(b) : i \in D /\ Fenced(d[i], op.epoch), NEW i \in ToSet(b)
      PROVE  f[i] = DocOf(op)
  <2>1. \A k \in 1..Len(b) : Reach(k)
    BY <1>1, <1>2, <1>6 DEF Reach
  <2> QED
    BY <1>2, <1>3, <1>6, <2>1
<1>7. f \in [D -> Doc]
  BY <1>3
<1> QED
  BY <1>5, <1>6, <1>7 DEF Batched

\* Of a store, the documents of one URL are replaced.
SetsInState(s, t, u, d)  == t = [s EXCEPT !.state[u] = d]
SetsInImages(s, t, u, d) == t = [s EXCEPT !.images[u] = d]
SetsInWords(s, t, u, d)  == t = [s EXCEPT !.words[u] = d]

StateOnly(s, t, u) ==
    /\ t \in StoreType /\ t.images = s.images /\ t.words = s.words
    /\ \A x \in Url : x # u => t.state[x] = s.state[x]
ImagesOnly(s, t, u) ==
    /\ t \in StoreType /\ t.state = s.state /\ t.words = s.words
    /\ \A x \in Url : x # u => t.images[x] = s.images[x]
WordsOnly(s, t, u) ==
    /\ t \in StoreType /\ t.state = s.state /\ t.images = s.images
    /\ \A x \in Url : x # u => t.words[x] = s.words[x]

\* A store with other state of one URL.
LEMMA PutState ==
    ASSUME NEW s \in StoreType, NEW u \in Url, NEW d \in Doc, NEW t,
           SetsInState(s, t, u, d)
    PROVE  StateOnly(s, t, u) /\ t.state[u] = d
<1> DEFINE I == [Url -> [Image -> Doc]]
           W == [Url -> [Posting -> Doc]]
           S == [Url -> Doc]
           x == [s.state EXCEPT ![u] = d]
<1>1. s \in [state : S, images : I, words : W]
  BY DEF StoreType
<1>2. s.state \in S
  <2> HIDE DEF S, I, W
  <2> QED
    BY <1>1
<1>3. x \in S /\ x[u] = d /\ \A y \in Url : y # u => x[y] = s.state[y]
  BY <1>2
<1>4. t = [s EXCEPT !.state = x]
  BY <1>1 DEF SetsInState
<1> HIDE DEF x
<1>5. t \in [state : S, images : I, words : W]
  <2> HIDE DEF S, I, W
  <2> QED
    BY <1>1, <1>3, <1>4
<1>6. t.state = x /\ t.images = s.images /\ t.words = s.words
  BY <1>1, <1>4
<1> QED
  BY <1>3, <1>5, <1>6 DEF StateOnly, StoreType

\* A store with other images of one URL.
LEMMA PutImages ==
    ASSUME NEW s \in StoreType, NEW u \in Url, NEW d \in [Image -> Doc], NEW t,
           SetsInImages(s, t, u, d)
    PROVE  ImagesOnly(s, t, u) /\ t.images[u] = d
<1> DEFINE I == [Url -> [Image -> Doc]]
           W == [Url -> [Posting -> Doc]]
           S == [Url -> Doc]
           x == [s.images EXCEPT ![u] = d]
<1>1. s \in [state : S, images : I, words : W]
  BY DEF StoreType
<1>2. s.images \in I
  <2> HIDE DEF S, I, W
  <2> QED
    BY <1>1
<1>3. x \in I /\ x[u] = d /\ \A y \in Url : y # u => x[y] = s.images[y]
  BY <1>2
<1>4. t = [s EXCEPT !.images = x]
  BY <1>1 DEF SetsInImages
<1> HIDE DEF x
<1>5. t \in [state : S, images : I, words : W]
  <2> HIDE DEF S, I, W
  <2> QED
    BY <1>1, <1>3, <1>4
<1>6. t.images = x /\ t.state = s.state /\ t.words = s.words
  BY <1>1, <1>4
<1> QED
  BY <1>3, <1>5, <1>6 DEF ImagesOnly, StoreType

\* A store with other words of one URL.
LEMMA PutWords ==
    ASSUME NEW s \in StoreType, NEW u \in Url, NEW d \in [Posting -> Doc], NEW t,
           SetsInWords(s, t, u, d)
    PROVE  WordsOnly(s, t, u) /\ t.words[u] = d
<1> DEFINE I == [Url -> [Image -> Doc]]
           W == [Url -> [Posting -> Doc]]
           S == [Url -> Doc]
           x == [s.words EXCEPT ![u] = d]
<1>1. s \in [state : S, images : I, words : W]
  BY DEF StoreType
<1>2. s.words \in W
  <2> HIDE DEF S, I, W
  <2> QED
    BY <1>1
<1>3. x \in W /\ x[u] = d /\ \A y \in Url : y # u => x[y] = s.words[y]
  BY <1>2
<1>4. t = [s EXCEPT !.words = x]
  BY <1>1 DEF SetsInWords
<1> HIDE DEF x
<1>5. t \in [state : S, images : I, words : W]
  <2> HIDE DEF S, I, W
  <2> QED
    BY <1>1, <1>3, <1>4
<1>6. t.words = x /\ t.state = s.state /\ t.images = s.images
  BY <1>1, <1>4
<1> QED
  BY <1>3, <1>5, <1>6 DEF WordsOnly, StoreType

\* The documents of a store about one URL.
LEMMA StoreParts ==
    ASSUME NEW s \in StoreType, NEW u \in Url
    PROVE  /\ s.state[u] \in Doc /\ s.images[u] \in [Image -> Doc]
           /\ s.words[u] \in [Posting -> Doc]
<1> DEFINE I == [Image -> Doc]
           W == [Posting -> Doc]
<1>1. s \in [state : [Url -> Doc], images : [Url -> I], words : [Url -> W]]
  BY DEF StoreType
<1> HIDE DEF I, W
<1>2. s.state[u] \in Doc /\ s.images[u] \in I /\ s.words[u] \in W
  BY <1>1
<1> QED
  BY <1>2 DEF I, W

\* The fields of a call.
LEMMA OpFields ==
    ASSUME TypeOK, NEW op \in OpType
    PROVE  /\ UrlOf(op.pub) \in Url /\ ImagesOf(op.pub) \in Seq(Image)
           /\ op.pub \in Nat /\ op.pub # 0 /\ op.epoch \in Nat /\ op.batch \in Seq(Item)
           /\ op.call \in {"state", "prune", "images", "clear", "words"}
           /\ DocOf(op) \in Doc
<1>1. arrived \in Nat
  BY PubFields, ManifestAssumption
<1>2. op.pub \in 1..arrived /\ op.epoch \in Nat /\ op.batch \in Seq(Item) /\ op.call \in CallNames
  BY DEF OpType
<1> QED
  BY <1>1, <1>2, PubFields DEF DocOf, Doc, CallNames

\* replace_one of the page's own record.
LEMMA StateCall ==
    ASSUME TypeOK, NEW s \in StoreType, NEW op \in OpType, op.call = "state",
           NEW t, t = Apply(s, op), NEW u, u = UrlOf(op.pub)
    PROVE  /\ StateOnly(s, t, u)
           /\ t.state[u] = IF Fenced(s.state[u], op.epoch) THEN DocOf(op) ELSE s.state[u]
<1> DEFINE d == IF Fenced(s.state[u], op.epoch) THEN DocOf(op) ELSE s.state[u]
<1>1. u \in Url /\ DocOf(op) \in Doc
  BY OpFields
<1>2. s.state[u] \in Doc
  BY <1>1, StoreParts
<1>3. SetsInState(s, t, u, d)
  BY DEF Apply, ReplacePageState, SetsInState
<1>4. d \in Doc
  BY <1>1, <1>2
<1> HIDE DEF d
<1>5. StateOnly(s, t, u) /\ t.state[u] = d
  BY <1>1, <1>3, <1>4, PutState
<1> QED
  BY <1>5 DEF d

\* delete_many of the associations that the publication does not have.
LEMMA NoImagesCall ==
    ASSUME TypeOK, NEW s \in StoreType, NEW op \in OpType, op.call = "prune",
           NEW t, t = Apply(s, op), NEW u, u = UrlOf(op.pub)
    PROVE  /\ ImagesOnly(s, t, u)
           /\ \A i \in Image :
                 t.images[u][i] = IF Contains(ImagesOf(op.pub), i) THEN s.images[u][i]
                                  ELSE DeleteDoc(s.images[u][i], op.epoch)
<1> DEFINE g == s.images[u]
           f == [i \in Image |-> IF Contains(ImagesOf(op.pub), i) THEN g[i]
                                 ELSE DeleteDoc(g[i], op.epoch)]
<1>1. u \in Url /\ op.epoch \in Nat
  BY OpFields
<1>2. g \in [Image -> Doc]
  BY <1>1, StoreParts
<1>3. SetsInImages(s, t, u, f)
  BY DEF Apply, DeleteStaleImages, SetsInImages
<1> HIDE DEF g
<1>4. f \in [Image -> Doc]
  BY <1>1, <1>2, DeleteFacts
<1>5. \A i \in Image : f[i] = IF Contains(ImagesOf(op.pub), i) THEN g[i]
                              ELSE DeleteDoc(g[i], op.epoch)
  OBVIOUS
<1> HIDE DEF f
<1>6. ImagesOnly(s, t, u) /\ t.images[u] = f
  BY <1>1, <1>3, <1>4, PutImages
<1> QED
  BY <1>5, <1>6 DEF g

\* One batch of associations.
LEMMA ImagesCall ==
    ASSUME TypeOK, NEW s \in StoreType, NEW op \in OpType, op.call = "images",
           NEW t, t = Apply(s, op), NEW u, u = UrlOf(op.pub)
    PROVE  ImagesOnly(s, t, u) /\ Batched(t.images[u], s.images[u], op, Image)
<1> DEFINE g == s.images[u]
           f == Ordered(g, op)
<1>1. u \in Url /\ op.batch \in Seq(Item) /\ DocOf(op) \in Doc
  BY OpFields
<1>2. g \in [Image -> Doc]
  BY <1>1, StoreParts
<1>3. SetsInImages(s, t, u, f)
  BY DEF Apply, UpsertImages, SetsInImages
<1> HIDE DEF g
<1>4. f \in [Image -> Doc] /\ Batched(f, g, op, Image)
  BY <1>1, <1>2, OrderedFacts
<1> HIDE DEF f
<1>5. ImagesOnly(s, t, u) /\ t.images[u] = f
  BY <1>1, <1>3, <1>4, PutImages
<1> QED
  BY <1>4, <1>5 DEF g

\* delete_many of all postings of the page.
LEMMA NoWordsCall ==
    ASSUME TypeOK, NEW s \in StoreType, NEW op \in OpType, op.call = "clear",
           NEW t, t = Apply(s, op), NEW u, u = UrlOf(op.pub)
    PROVE  /\ WordsOnly(s, t, u)
           /\ \A i \in Posting : t.words[u][i] = DeleteDoc(s.words[u][i], op.epoch)
<1> DEFINE g == s.words[u]
           f == [i \in Posting |-> DeleteDoc(g[i], op.epoch)]
<1>1. u \in Url /\ op.epoch \in Nat
  BY OpFields
<1>2. g \in [Posting -> Doc]
  BY <1>1, StoreParts
<1>3. SetsInWords(s, t, u, f)
  BY DEF Apply, DeletePageWords, SetsInWords, Posting
<1> HIDE DEF g
<1>4. f \in [Posting -> Doc]
  BY <1>1, <1>2, DeleteFacts
<1>5. \A i \in Posting : f[i] = DeleteDoc(g[i], op.epoch)
  OBVIOUS
<1> HIDE DEF f
<1>6. WordsOnly(s, t, u) /\ t.words[u] = f
  BY <1>1, <1>3, <1>4, PutWords
<1> QED
  BY <1>5, <1>6 DEF g

\* One batch of postings.
LEMMA WordsCall ==
    ASSUME TypeOK, NEW s \in StoreType, NEW op \in OpType, op.call = "words",
           NEW t, t = Apply(s, op), NEW u, u = UrlOf(op.pub)
    PROVE  WordsOnly(s, t, u) /\ Batched(t.words[u], s.words[u], op, Posting)
<1> DEFINE g == s.words[u]
           f == Ordered(g, op)
<1>1. u \in Url /\ op.batch \in Seq(Item) /\ DocOf(op) \in Doc
  BY OpFields
<1>2. g \in [Posting -> Doc]
  BY <1>1, StoreParts
<1>3. SetsInWords(s, t, u, f)
  BY DEF Apply, UpsertImageWords, SetsInWords
<1> HIDE DEF g
<1>4. f \in [Posting -> Doc] /\ Batched(f, g, op, Posting)
  BY <1>1, <1>2, OrderedFacts
<1> HIDE DEF f
<1>5. WordsOnly(s, t, u) /\ t.words[u] = f
  BY <1>1, <1>3, <1>4, PutWords
<1> QED
  BY <1>4, <1>5 DEF g

\* What a call leaves of a document: the same, or its own or none in place of
\* one that its epoch reaches.
Fate(d, x, op) == x = d \/ (Fenced(d, op.epoch) /\ x \in {NoDoc, DocOf(op)})

\* What a call of the page at u leaves: documents of other pages are not
\* touched, and the record is not deleted.
CallDoes(s, t, u, op) ==
    /\ t \in StoreType
    /\ \A x \in Url : x # u => /\ t.state[x] = s.state[x]
                               /\ t.images[x] = s.images[x]
                               /\ t.words[x] = s.words[x]
    /\ \/ t.state[u] = s.state[u]
       \/ Fenced(s.state[u], op.epoch) /\ t.state[u] = DocOf(op)
    /\ \A i \in Image : Fate(s.images[u][i], t.images[u][i], op)
    /\ \A d \in Posting : Fate(s.words[u][d], t.words[u][d], op)

\* Every call has such an effect.
LEMMA CallFacts ==
    ASSUME TypeOK, NEW s \in StoreType, NEW op \in OpType, NEW t, t = Apply(s, op),
           NEW u, u = UrlOf(op.pub)
    PROVE  CallDoes(s, t, u, op)
<1>1. /\ u \in Url /\ op.epoch \in Nat
      /\ op.call \in {"state", "prune", "images", "clear", "words"}
  BY OpFields
<1>2. /\ \A i \in Image : s.images[u][i] \in Doc
      /\ \A d \in Posting : s.words[u][d] \in Doc
  <2>1. s.images[u] \in [Image -> Doc] /\ s.words[u] \in [Posting -> Doc]
    BY <1>1, StoreParts
  <2> QED
    BY <2>1
<1>3. \A d \in Doc : Fate(d, DeleteDoc(d, op.epoch), op) /\ Fate(d, d, op)
  BY <1>1, DeleteFacts DEF Fate
<1>4. CASE op.call = "state"
  <2>1. /\ StateOnly(s, t, u)
        /\ t.state[u] = IF Fenced(s.state[u], op.epoch) THEN DocOf(op) ELSE s.state[u]
    BY <1>4, StateCall
  <2> QED
    BY <1>2, <1>3, <2>1 DEF StateOnly, CallDoes
<1>5. CASE op.call = "prune"
  <2>1. /\ ImagesOnly(s, t, u)
        /\ \A i \in Image :
              t.images[u][i] = IF Contains(ImagesOf(op.pub), i) THEN s.images[u][i]
                               ELSE DeleteDoc(s.images[u][i], op.epoch)
    BY <1>5, NoImagesCall
  <2>2. \A i \in Image : Fate(s.images[u][i], t.images[u][i], op)
    BY <1>2, <1>3, <2>1
  <2> QED
    BY <1>2, <1>3, <2>1, <2>2 DEF ImagesOnly, CallDoes
<1>6. CASE op.call = "images"
  <2>1. ImagesOnly(s, t, u) /\ Batched(t.images[u], s.images[u], op, Image)
    BY <1>6, ImagesCall
  <2>2. \A i \in Image : Fate(s.images[u][i], t.images[u][i], op)
    BY <2>1 DEF Batched, Fate
  <2> QED
    BY <1>2, <1>3, <2>1, <2>2 DEF ImagesOnly, CallDoes
<1>7. CASE op.call = "clear"
  <2>1. WordsOnly(s, t, u) /\ \A i \in Posting : t.words[u][i] = DeleteDoc(s.words[u][i], op.epoch)
    BY <1>7, NoWordsCall
  <2>2. \A i \in Posting : Fate(s.words[u][i], t.words[u][i], op)
    BY <1>2, <1>3, <2>1
  <2> QED
    BY <1>2, <1>3, <2>1, <2>2 DEF WordsOnly, CallDoes
<1>8. CASE op.call = "words"
  <2>1. WordsOnly(s, t, u) /\ Batched(t.words[u], s.words[u], op, Posting)
    BY <1>8, WordsCall
  <2>2. \A i \in Posting : Fate(s.words[u][i], t.words[u][i], op)
    BY <2>1 DEF Batched, Fate
  <2> QED
    BY <1>2, <1>3, <2>1, <2>2 DEF WordsOnly, CallDoes
<1> QED
  BY <1>1, <1>4, <1>5, <1>6, <1>7, <1>8

\* A call has images, or postings, of the publication.
Within(c, v, k) ==
    /\ c.call = "images" => ToSet(c.batch) \subseteq ToSet(ImagesOf(v))
    /\ c.call = "words" => ToSet(c.batch) \subseteq Keys(v, k)

\* Images and postings of a publication are documents of the collections.
LEMMA KeyFacts ==
    ASSUME TypeOK, NEW v \in 1..arrived, NEW k \in Source
    PROVE  /\ ToSet(ImagesOf(v)) \subseteq Image /\ Keys(v, k) \subseteq Posting
           /\ \A i \in Image : Contains(ImagesOf(v), i) <=> i \in ToSet(ImagesOf(v))
<1>1. ImagesOf(v) \in Seq(Image)
  BY PubFields
<1>2. ToSet(ImagesOf(v)) \subseteq Image
  BY <1>1 DEF ToSet
<1>3. {0, k} \subseteq Source
  BY ManifestAssumption DEF Source
<1> QED
  BY <1>1, <1>2, <1>3, InSequence DEF Keys, Posting

\* What is deleted was none of this attempt's.
LEMMA NoDocLeft == \A e : Leftover(NoDoc, e)
BY DEF Leftover, NoDoc

\* A call of a publication keeps the traces of the calls before it: only the
\* deletion of the postings would undo one, and no posting is written before it.
LEMMA TraceKept ==
    ASSUME TypeOK, NEW s \in StoreType, NEW op \in OpType, NEW t, t = Apply(s, op),
           NEW k \in Source, NEW c \in Call, Trace(s, op.pub, k, op.epoch, c),
           Within(op, op.pub, k), Within(c, op.pub, k),
           ~(op.call = "clear" /\ c.call = "words")
    PROVE  Trace(t, op.pub, k, op.epoch, c)
<1> DEFINE v == op.pub
           e == op.epoch
           u == UrlOf(v)
           d == [pub |-> v, epoch |-> e]
           imgs == ToSet(ImagesOf(v))
           keys == Keys(v, k)
<1>1. /\ u \in Url /\ e \in Nat /\ v \in 1..arrived
      /\ op.call \in {"state", "prune", "images", "clear", "words"}
  BY OpFields DEF OpType
<1>2. DocOf(op) = d
  BY DEF DocOf
<1>3. /\ \A i \in Image : s.images[u][i] \in Doc
      /\ \A i \in Posting : s.words[u][i] \in Doc
  <2>1. s.images[u] \in [Image -> Doc] /\ s.words[u] \in [Posting -> Doc]
    BY <1>1, StoreParts
  <2> QED
    BY <2>1
<1>4. /\ imgs \subseteq Image /\ keys \subseteq Posting
      /\ \A i \in Image : Contains(ImagesOf(v), i) <=> i \in imgs
  BY <1>1, KeyFacts
<1>5. /\ c.call = "state" => s.state[u] = d
      /\ c.call = "prune" => \A i \in Image : i \in imgs \/ Leftover(s.images[u][i], e)
      /\ c.call = "images" => \A i \in ToSet(c.batch) : s.images[u][i] = d
      /\ c.call = "clear" =>
             \A i \in Posting : Leftover(s.words[u][i], e) \/ (i \in keys /\ s.words[u][i] = d)
      /\ c.call = "words" => \A i \in ToSet(c.batch) : s.words[u][i] = d
  BY DEF Trace
<1>6. /\ c.call = "images" => ToSet(c.batch) \subseteq imgs
      /\ c.call = "words" => ToSet(c.batch) \subseteq keys
      /\ op.call = "images" => ToSet(op.batch) \subseteq imgs
      /\ op.call = "words" => ToSet(op.batch) \subseteq keys
  BY DEF Within
<1>7. /\ \A x \in Doc : DeleteDoc(x, e) \in {x, NoDoc}
      /\ Leftover(NoDoc, e)
  BY <1>1, DeleteFacts, NoDocLeft
<1> SUFFICES
      /\ c.call = "state" => t.state[u] = d
      /\ c.call = "prune" => \A i \in Image : i \in imgs \/ Leftover(t.images[u][i], e)
      /\ c.call = "images" => \A i \in ToSet(c.batch) : t.images[u][i] = d
      /\ c.call = "clear" =>
             \A i \in Posting : Leftover(t.words[u][i], e) \/ (i \in keys /\ t.words[u][i] = d)
      /\ c.call = "words" => \A i \in ToSet(c.batch) : t.words[u][i] = d
  BY DEF Trace
<1> HIDE DEF imgs, keys
<1> DEFINE x == s.state[u]
           y == s.images[u]
           z == s.words[u]
<1>8. CASE op.call = "state"
  <2>1. /\ StateOnly(s, t, u)
        /\ t.state[u] = IF Fenced(x, e) THEN DocOf(op) ELSE x
    BY <1>8, StateCall
  <2>2. t.state[u] \in {x, d} /\ t.images[u] = y /\ t.words[u] = z
    BY <1>2, <2>1 DEF StateOnly
  <2> HIDE DEF d, u, v
  <2> QED
    BY <1>5, <2>2
<1>9. CASE op.call = "prune"
  <2>1. /\ ImagesOnly(s, t, u)
        /\ \A i \in Image :
              t.images[u][i] = IF Contains(ImagesOf(op.pub), i) THEN y[i] ELSE DeleteDoc(y[i], e)
    BY <1>9, NoImagesCall
  <2>2. t.state[u] = x /\ t.words[u] = z
    BY <2>1 DEF ImagesOnly
  <2>3. \A i \in imgs : t.images[u][i] = y[i]
    BY <1>4, <2>1
  <2>4. \A i \in Image : t.images[u][i] \in {y[i], NoDoc}
    BY <1>3, <1>7, <2>1
  <2> HIDE DEF d, u, v, e
  <2> QED
    BY <1>5, <1>6, <1>7, <2>2, <2>3, <2>4
<1>10. CASE op.call = "images"
  <2>1. ImagesOnly(s, t, u) /\ Batched(t.images[u], y, op, Image)
    BY <1>10, ImagesCall
  <2>2. t.state[u] = x /\ t.words[u] = z
    BY <2>1 DEF ImagesOnly
  <2>3. /\ \A i \in Image : t.images[u][i] \in {y[i], d}
        /\ \A i \in Image : i \notin imgs => t.images[u][i] = y[i]
    BY <1>2, <1>6, <1>10, <2>1 DEF Batched
  <2> HIDE DEF d, u, v, e
  <2> QED
    BY <1>4, <1>5, <1>6, <2>2, <2>3
<1>11. CASE op.call = "clear"
  <2>1. WordsOnly(s, t, u) /\ \A i \in Posting : t.words[u][i] = DeleteDoc(z[i], e)
    BY <1>11, NoWordsCall
  <2>2. t.state[u] = x /\ t.images[u] = y
    BY <2>1 DEF WordsOnly
  <2>3. \A i \in Posting : t.words[u][i] \in {z[i], NoDoc}
    BY <1>3, <1>7, <2>1
  <2> HIDE DEF d, u, v, e
  <2> QED
    BY <1>5, <1>7, <1>11, <2>2, <2>3
<1>12. CASE op.call = "words"
  <2>1. WordsOnly(s, t, u) /\ Batched(t.words[u], z, op, Posting)
    BY <1>12, WordsCall
  <2>2. t.state[u] = x /\ t.images[u] = y
    BY <2>1 DEF WordsOnly
  <2>3. /\ \A i \in Posting : t.words[u][i] \in {z[i], d}
        /\ \A i \in Posting : i \notin keys => t.words[u][i] = z[i]
    BY <1>2, <1>6, <1>12, <2>1 DEF Batched
  <2> HIDE DEF d, u, v, e
  <2> QED
    BY <1>4, <1>5, <1>6, <2>2, <2>3
<1> QED
  BY <1>1, <1>8, <1>9, <1>10, <1>11, <1>12

\* All documents about u are within reach of epoch e.
Reached(s, u, e) ==
    /\ Fenced(s.state[u], e)
    /\ \A i \in Image : Fenced(s.images[u][i], e)
    /\ \A d \in Posting : Fenced(s.words[u][d], e)

\* A call whose epoch reaches every document of the page leaves its trace.
LEMMA TraceMade ==
    ASSUME TypeOK, NEW s \in StoreType, NEW op \in OpType, NEW t, t = Apply(s, op),
           Reached(s, UrlOf(op.pub), op.epoch), NEW k \in Source, Within(op, op.pub, k),
           NEW c, c.call = op.call, c.batch = op.batch
    PROVE  Trace(t, op.pub, k, op.epoch, c)
<1> DEFINE v == op.pub
           u == UrlOf(v)
           d == [pub |-> op.pub, epoch |-> op.epoch]
<1>1. /\ u \in Url /\ op.epoch \in Nat /\ v \in 1..arrived
      /\ op.call \in {"state", "prune", "images", "clear", "words"}
  BY OpFields DEF OpType
<1>2. DocOf(op) = d /\ \A e : Leftover(NoDoc, e)
  BY NoDocLeft DEF DocOf
<1>3. /\ \A i \in Image : s.images[u][i] \in Doc
      /\ \A i \in Posting : s.words[u][i] \in Doc
  <2>1. s.images[u] \in [Image -> Doc] /\ s.words[u] \in [Posting -> Doc]
    BY <1>1, StoreParts
  <2> QED
    BY <2>1
<1>4. /\ ToSet(ImagesOf(v)) \subseteq Image /\ Keys(v, k) \subseteq Posting
      /\ \A i \in Image : Contains(ImagesOf(v), i) <=> i \in ToSet(ImagesOf(v))
  BY <1>1, KeyFacts
<1>5. CASE op.call = "state"
  <2>1. t.state[u] = IF Fenced(s.state[u], op.epoch) THEN DocOf(op) ELSE s.state[u]
    BY <1>5, StateCall
  <2>2. t.state[u] = d
    BY <1>2, <2>1 DEF Reached
  <2> QED
    BY <1>5, <2>2 DEF Trace
<1>6. CASE op.call = "prune"
  <2>1. \A i \in Image :
              t.images[u][i] = IF Contains(ImagesOf(op.pub), i) THEN s.images[u][i]
                               ELSE DeleteDoc(s.images[u][i], op.epoch)
    BY <1>6, NoImagesCall
  <2>2. \A i \in Image : DeleteDoc(s.images[u][i], op.epoch) = NoDoc
    BY <1>1, <1>3, DeleteFacts DEF Reached
  <2>3. \A i \in Image : i \in ToSet(ImagesOf(v)) \/ t.images[u][i] = NoDoc
    BY <1>4, <2>1, <2>2
  <2> QED
    BY <1>2, <1>6, <2>3 DEF Trace
<1>7. CASE op.call = "images"
  <2>1. Batched(t.images[u], s.images[u], op, Image)
    BY <1>7, ImagesCall
  <2>2. \A i \in ToSet(op.batch) : t.images[u][i] = d
    BY <1>2, <1>4, <1>7, <2>1 DEF Reached, Batched, Within
  <2> QED
    BY <1>7, <2>2 DEF Trace
<1>8. CASE op.call = "clear"
  <2>1. \A i \in Posting : t.words[u][i] = DeleteDoc(s.words[u][i], op.epoch)
    BY <1>8, NoWordsCall
  <2>2. \A i \in Posting : t.words[u][i] = NoDoc
    BY <1>1, <1>3, <2>1, DeleteFacts DEF Reached
  <2> QED
    BY <1>2, <1>8, <2>2 DEF Trace
<1>9. CASE op.call = "words"
  <2>1. Batched(t.words[u], s.words[u], op, Posting)
    BY <1>9, WordsCall
  <2>2. \A i \in ToSet(op.batch) : t.words[u][i] = d
    BY <1>2, <1>4, <1>9, <2>1 DEF Reached, Batched, Within
  <2> QED
    BY <1>9, <2>2 DEF Trace
<1> QED
  BY <1>1, <1>5, <1>6, <1>7, <1>8, <1>9

\* A write that lands under an epoch below an attempt's leaves the attempt's
\* documents, and what it adds counts as left over.
LEMMA LateFate ==
    ASSUME workload.late, NEW op, op.epoch \in Nat, NEW e \in Nat, op.epoch < e,
           NEW d \in Doc, NEW x, Fate(d, x, op)
    PROVE  /\ d.epoch = e => x = d
           /\ Leftover(d, e) => Leftover(x, e)
<1>1. d.epoch \in Nat
  BY DEF Doc
<1>2. Leftover(NoDoc, e) /\ Leftover(DocOf(op), e)
  BY NoDocLeft DEF Leftover, DocOf
<1> QED
  BY <1>1, <1>2 DEF Fate, Fenced

\* Such a write keeps all traces of the attempt.
LEMMA TraceLate ==
    ASSUME TypeOK, workload.late, NEW s \in StoreType, NEW op, op.epoch \in Nat,
           NEW v \in 1..arrived, NEW t, CallDoes(s, t, UrlOf(v), op),
           NEW k \in Source, NEW e \in Nat, op.epoch < e,
           NEW c \in Call, Within(c, v, k), Trace(s, v, k, e, c)
    PROVE  Trace(t, v, k, e, c)
<1> DEFINE u == UrlOf(v)
           d == [pub |-> v, epoch |-> e]
<1>1. u \in Url /\ d.epoch = e
  BY PubFields
<1>2. /\ s.state[u] \in Doc /\ \A i \in Image : s.images[u][i] \in Doc
      /\ \A i \in Posting : s.words[u][i] \in Doc
  <2>1. s.state[u] \in Doc /\ s.images[u] \in [Image -> Doc] /\ s.words[u] \in [Posting -> Doc]
    BY <1>1, StoreParts
  <2> QED
    BY <2>1
<1>3. /\ Fate(s.state[u], t.state[u], op)
      /\ \A i \in Image : Fate(s.images[u][i], t.images[u][i], op)
      /\ \A i \in Posting : Fate(s.words[u][i], t.words[u][i], op)
  BY DEF CallDoes, Fate
<1>4. ToSet(ImagesOf(v)) \subseteq Image /\ Keys(v, k) \subseteq Posting
  BY KeyFacts
<1>5. s.state[u] = d => t.state[u] = d
  BY <1>1, <1>2, <1>3, LateFate
<1>6. \A i \in Image :
         /\ s.images[u][i] = d => t.images[u][i] = d
         /\ Leftover(s.images[u][i], e) => Leftover(t.images[u][i], e)
  BY <1>1, <1>2, <1>3, LateFate
<1>7. \A i \in Posting :
         /\ s.words[u][i] = d => t.words[u][i] = d
         /\ Leftover(s.words[u][i], e) => Leftover(t.words[u][i], e)
  BY <1>1, <1>2, <1>3, LateFate
<1>8. /\ c.call = "images" => ToSet(c.batch) \subseteq Image
      /\ c.call = "words" => ToSet(c.batch) \subseteq Posting
  BY <1>4 DEF Within
<1>9. /\ c.call = "state" => s.state[u] = d
      /\ c.call = "prune" =>
             \A i \in Image : i \in ToSet(ImagesOf(v)) \/ Leftover(s.images[u][i], e)
      /\ c.call = "images" => \A i \in ToSet(c.batch) : s.images[u][i] = d
      /\ c.call = "clear" =>
             \A i \in Posting : \/ Leftover(s.words[u][i], e)
                                \/ i \in Keys(v, k) /\ s.words[u][i] = d
      /\ c.call = "words" => \A i \in ToSet(c.batch) : s.words[u][i] = d
  BY DEF Trace
<1> SUFFICES
      /\ c.call = "state" => t.state[u] = d
      /\ c.call = "prune" =>
             \A i \in Image : i \in ToSet(ImagesOf(v)) \/ Leftover(t.images[u][i], e)
      /\ c.call = "images" => \A i \in ToSet(c.batch) : t.images[u][i] = d
      /\ c.call = "clear" =>
             \A i \in Posting : \/ Leftover(t.words[u][i], e)
                                \/ i \in Keys(v, k) /\ t.words[u][i] = d
      /\ c.call = "words" => \A i \in ToSet(c.batch) : t.words[u][i] = d
  BY DEF Trace
<1> HIDE DEF u, d
<1>10. c.call = "state" => t.state[u] = d
  BY <1>5, <1>9
<1>11. ASSUME c.call = "prune", NEW i \in Image
       PROVE  i \in ToSet(ImagesOf(v)) \/ Leftover(t.images[u][i], e)
  BY <1>6, <1>9, <1>11
<1>12. ASSUME c.call = "images", NEW i \in ToSet(c.batch)
       PROVE  t.images[u][i] = d
  BY <1>6, <1>8, <1>9, <1>12
<1>13. ASSUME c.call = "clear", NEW i \in Posting
       PROVE  Leftover(t.words[u][i], e) \/ (i \in Keys(v, k) /\ t.words[u][i] = d)
  BY <1>7, <1>9, <1>13
<1>14. ASSUME c.call = "words", NEW i \in ToSet(c.batch)
       PROVE  t.words[u][i] = d
  BY <1>7, <1>8, <1>9, <1>14
<1> QED
  BY <1>10, <1>11, <1>12, <1>13, <1>14
-----------------------------------------------------------------------------
(* The plan of a publication and its traces. *)

\* Two sequences with the same elements are the same.
LEMMA SameSequence ==
    ASSUME NEW S, NEW a \in Seq(S), NEW b \in Seq(S), Len(a) = Len(b),
           \A i \in 1..Len(a) : a[i] = b[i]
    PROVE  a = b
OBVIOUS

\* The end of a sequence.
LEMMA SuffixFacts ==
    ASSUME NEW S, NEW s \in Seq(S), NEW a \in Nat \ {0}, a <= Len(s) + 1
    PROVE  LET t == SubSeq(s, a, Len(s))
               k == Len(s) - a + 1
           IN  t \in Seq(S) /\ Len(t) = k /\ \A i \in 1..k : t[i] = s[a + i - 1]
OBVIOUS

\* A sequence from a place on.
LEMMA FromThere ==
    ASSUME NEW S, NEW s \in Seq(S), NEW n \in Nat, n < Len(s), NEW t,
           t = SubSeq(s, n + 1, Len(s))
    PROVE  /\ t \in Seq(S) /\ t # <<>> /\ Head(t) = s[n + 1] /\ s[n + 1] \in S
           /\ Tail(t) \in Seq(S)
           /\ Tail(t) = SubSeq(s, (n + 1) + 1, Len(s))
           /\ Tail(t) = <<>> <=> n + 1 = Len(s)
<1> DEFINE l == Len(s)
           m == Len(t)
<1>1. l \in Nat /\ n < l /\ \A i \in 1..l : s[i] \in S
  OBVIOUS
<1>2. t \in Seq(S) /\ m = l - n /\ \A i \in 1..m : t[i] = s[n + i]
  BY <1>1
<1>3. /\ n + 1 \in 1..l /\ l - n \in Nat /\ 1 \in 1..(l - n)
      /\ l - (n + 1) \in Nat /\ l - (n + 1) = (l - n) - 1
      /\ \A i \in 1..(l - (n + 1)) : i + 1 \in 1..(l - n) /\ n + (i + 1) = (n + 1) + i
  <2> HIDE DEF l
  <2> QED
    BY <1>1
<1>10. s[n + 1] \in S /\ t[1] = s[n + 1] /\ m \in Nat \ {0}
  <2>1. s[n + 1] \in S
    BY <1>1, <1>3
  <2>2. 1 \in 1..m
    BY <1>2, <1>3
  <2>3. t[1] = s[n + 1]
    BY <1>2, <2>2
  <2>4. m \in Nat /\ m = l - n
    BY <1>2
  <2> HIDE DEF m, l
  <2>5. m # 0
    BY <2>2
  <2> QED
    BY <2>1, <2>3, <2>4, <2>5
<1>12. \A a \in Seq(S) : Len(a) # 0 <=> a # <<>>
  OBVIOUS
<1>11. t # <<>> /\ Head(t) = s[n + 1]
  <2>1. t # <<>>
    BY <1>2, <1>10, <1>12
  <2> QED
    BY <1>2, <1>10, <2>1
<1> DEFINE x == Tail(t)
           y == SubSeq(s, (n + 1) + 1, Len(s))
<1>4. x \in Seq(S) /\ Len(x) = m - 1 /\ \A i \in 1..(m - 1) : x[i] = t[i + 1]
  BY <1>2, <1>11
<1>5. y \in Seq(S) /\ Len(y) = l - (n + 1) /\ \A i \in 1..(l - (n + 1)) : y[i] = s[(n + 1) + i]
  <2> DEFINE a == (n + 1) + 1
             k == l - (n + 1)
  <2>1. a \in Nat \ {0} /\ a <= l + 1 /\ l - a + 1 = k /\ \A i \in 1..k : a + i - 1 = (n + 1) + i
    <3> HIDE DEF l
    <3> QED
      BY <1>1
  <2> HIDE DEF a, k
  <2>2. /\ SubSeq(s, a, Len(s)) \in Seq(S) /\ Len(SubSeq(s, a, Len(s))) = k
        /\ \A i \in 1..k : SubSeq(s, a, Len(s))[i] = s[a + i - 1]
    BY <2>1, SuffixFacts
  <2> QED
    BY <2>1, <2>2 DEF a, k
<1> HIDE DEF x, y, l, m
<1>6. Len(x) = Len(y) /\ \A i \in 1..Len(x) : x[i] = y[i]
  <2>1. Len(x) = l - (n + 1) /\ Len(y) = l - (n + 1)
    BY <1>2, <1>3, <1>4, <1>5
  <2>2. ASSUME NEW i \in 1..(l - (n + 1))
        PROVE  x[i] = y[i]
    <3>1. x[i] = t[i + 1] /\ t[i + 1] = s[n + (i + 1)] /\ y[i] = s[(n + 1) + i]
      BY <1>2, <1>3, <1>4, <1>5
    <3> QED
      BY <1>3, <3>1
  <2> QED
    BY <2>1, <2>2
<1>7. x = y
  BY <1>4, <1>5, <1>6, SameSequence
<1>9. x = <<>> <=> n + 1 = l
  <2>1. x = <<>> <=> Len(x) = 0
    BY <1>4, <1>12
  <2>2. Len(x) = 0 <=> n + 1 = l
    <3> DEFINE k == Len(x)
    <3>1. k = l - (n + 1)
      BY <1>2, <1>3, <1>4
    <3> HIDE DEF k
    <3>2. k = 0 <=> n + 1 = l
      BY <1>1, <3>1
    <3> QED
      BY <3>2 DEF k
  <2> QED
    BY <2>1, <2>2
<1> QED
  BY <1>2, <1>4, <1>7, <1>9, <1>10, <1>11 DEF x, y, l

\* Process p is before call n + 1 of its plan.
At(p, n) ==
    LET P == PlanOf(proc[p].claim, proc[p].keywords) IN
    /\ n \in Nat /\ n < Len(P) /\ n + 1 \in 1..Len(P)
    /\ P \in Seq(Call) /\ Len(P) \in Nat
    /\ Head(proc[p].todo) = P[n + 1]
    /\ Tail(proc[p].todo) \in Seq(Call)
    /\ Tail(proc[p].todo) = SubSeq(P, (n + 1) + 1, Len(P))
    /\ Tail(proc[p].todo) = <<>> <=> n + 1 = Len(P)
    /\ \A j \in 1..n :
          Trace(store, proc[p].claim, proc[p].keywords, proc[p].epoch, P[j])

\* The call a process makes next.
OpOf(p) == [call |-> Head(proc[p].todo).call, batch |-> Head(proc[p].todo).batch,
            pub |-> proc[p].claim, epoch |-> proc[p].epoch]

\* The fields of a process.
LEMMA Fields ==
    ASSUME TypeOK, NEW p \in Proc
    PROVE  /\ proc[p] \in ProcRecord
           /\ proc[p].pc \in PcNames /\ proc[p].epoch \in Nat /\ proc[p].claim \in Nat
           /\ proc[p].running \in BOOLEAN
           /\ proc[p].todo \in Seq(Call) /\ proc[p].keywords \in Source
           /\ proc[p].outcome \in Outcomes
BY DEF TypeOK, ProcRecord

\* What the plan of a publication consists of.
LEMMA PlanOfFacts ==
    ASSUME NEW v, ImagesOf(v) \in Seq(Image), NEW k \in Source, NEW P, P = PlanOf(v, k)
    PROVE  /\ P \in Seq(Call) /\ Len(P) \in Nat
           /\ \A j \in 1..Len(P) : Within(P[j], v, k)
           /\ \A j, m \in 1..Len(P) : P[j].call = "words" /\ P[m].call = "clear" => m < j
<1>1. P = ReplacePageImages(ImagesOf(v), k)
  BY DEF PlanOf
<1>2. Keys(v, k) = Crossed(ImagesOf(v), k)
  BY DEF Keys, Crossed
<1> QED
  BY <1>1, <1>2, PlanFacts DEF Within

\* A process that writes is before some call of its plan.
LEMMA WriteFacts ==
    ASSUME TypeOK, ProcInv, MadeInv, NEW p \in Proc, proc[p].pc = "write"
    PROVE  /\ \E n \in Nat : At(p, n)
           /\ OpOf(p) \in OpType
           /\ OpOf(p).call = Head(proc[p].todo).call /\ OpOf(p).batch = Head(proc[p].todo).batch
           /\ OpOf(p).pub = proc[p].claim /\ OpOf(p).epoch = proc[p].epoch
<1> DEFINE P == PlanOf(proc[p].claim, proc[p].keywords)
<1>1. proc[p].claim \in 1..arrived /\ proc[p].epoch \in Nat /\ proc[p].keywords \in Source
  <2>1. proc[p].claim \in 0..arrived /\ proc[p].claim # 0
    BY DEF ProcInv, Busy
  <2>2. arrived \in Nat
    BY PubFields, ManifestAssumption
  <2> QED
    BY <2>1, <2>2, Fields
<1>2. P \in Seq(Call) /\ Len(P) \in Nat
  <2>1. ImagesOf(proc[p].claim) \in Seq(Image)
    BY <1>1, PubFields
  <2> QED
    BY <1>1, <2>1, PlanFacts DEF PlanOf
<1>3. PICK n \in Nat : n < Len(P) /\ Progress(store, proc[p], n)
  BY DEF MadeInv, Making
<1>4. /\ proc[p].todo = SubSeq(P, n + 1, Len(P))
      /\ \A j \in 1..n : Trace(store, proc[p].claim, proc[p].keywords, proc[p].epoch, P[j])
  BY <1>3 DEF Progress
<1> HIDE DEF P
<1>5. /\ Head(proc[p].todo) = P[n + 1] /\ P[n + 1] \in Call
      /\ Tail(proc[p].todo) \in Seq(Call)
      /\ Tail(proc[p].todo) = SubSeq(P, (n + 1) + 1, Len(P))
      /\ Tail(proc[p].todo) = <<>> <=> n + 1 = Len(P)
  <2>1. P \in Seq(Call) /\ n \in Nat /\ n < Len(P) /\ proc[p].todo = SubSeq(P, n + 1, Len(P))
    BY <1>2, <1>3, <1>4
  <2> DEFINE t == proc[p].todo
  <2> HIDE DEF t
  <2>2. /\ Head(t) = P[n + 1] /\ P[n + 1] \in Call /\ Tail(t) \in Seq(Call)
        /\ Tail(t) = SubSeq(P, (n + 1) + 1, Len(P)) /\ (Tail(t) = <<>> <=> n + 1 = Len(P))
    BY ZenonT(60), <2>1, FromThere DEF t
  <2> QED
    BY <2>2 DEF t
<1>6. n + 1 \in 1..Len(P)
  BY <1>2, <1>3
<1>7. At(p, n)
  BY <1>2, <1>3, <1>4, <1>5, <1>6 DEF At, P
<1> DEFINE h == Head(proc[p].todo)
           o == OpOf(p)
<1>8. h.call \in CallNames /\ h.batch \in Seq(Item)
  BY <1>5 DEF Call
<1>9. o = [call |-> h.call, batch |-> h.batch, pub |-> proc[p].claim, epoch |-> proc[p].epoch]
  BY DEF OpOf
<1> HIDE DEF h, o
<1>10. /\ o.call = h.call /\ o.batch = h.batch /\ o.pub = proc[p].claim /\ o.epoch = proc[p].epoch
       /\ o \in OpType
  BY <1>1, <1>8, <1>9 DEF OpType
<1> QED
  BY <1>7, <1>10 DEF h, o

\* What a process that owns the queue leaves when it makes its next call.
LEMMA CallMade ==
    ASSUME TypeOK, StoreOK, ProcInv, MadeInv, NEW p \in Proc, proc[p].pc = "write", Owner(p),
           NEW t, t = Apply(store, OpOf(p)), NEW q,
           q.claim = proc[p].claim, q.epoch = proc[p].epoch, q.keywords = proc[p].keywords,
           q.todo = Tail(proc[p].todo),
           q.pc = IF Tail(proc[p].todo) = <<>> THEN "finish" ELSE "write"
    PROVE  Making(t, q)
<1> DEFINE v == proc[p].claim
           e == proc[p].epoch
           k == proc[p].keywords
           P == PlanOf(v, k)
           o == OpOf(p)
           u == UrlOf(v)
<1>1. PICK n \in Nat : At(p, n)
  BY WriteFacts
<1>2. /\ o \in OpType /\ o.call = P[n + 1].call /\ o.batch = P[n + 1].batch
      /\ o.pub = v /\ o.epoch = e
  BY <1>1, WriteFacts DEF At
<1>3. store \in StoreType
  BY DEF StoreOK
<1> HIDE DEF o
<1>4. /\ UrlOf(v) \in Url /\ ImagesOf(v) \in Seq(Image) /\ k \in Source
  BY <1>2, OpFields, Fields
<1>5. Reached(store, UrlOf(o.pub), o.epoch)
  <2>1. e = epoch
    BY DEF Owner, Queue!Holds, TypeOK
  <2>2. /\ store.state[u].epoch <= epoch
        /\ \A i \in Image : store.images[u][i].epoch <= epoch
        /\ \A d \in Posting : store.words[u][d].epoch <= epoch
    BY <1>4 DEF StoreOK
  <2> QED
    BY <1>2, <2>1, <2>2 DEF Reached, Fenced
<1>6. /\ P \in Seq(Call) /\ Len(P) \in Nat
      /\ \A j \in 1..Len(P) : Within(P[j], v, k)
      /\ \A j, m \in 1..Len(P) : P[j].call = "words" /\ P[m].call = "clear" => m < j
  <2> HIDE DEF k
  <2> QED
    BY <1>4, PlanOfFacts
<1>7. /\ n < Len(P) /\ n + 1 \in 1..Len(P)
      /\ Tail(proc[p].todo) = SubSeq(P, (n + 1) + 1, Len(P))
      /\ Tail(proc[p].todo) = <<>> <=> n + 1 = Len(P)
      /\ \A j \in 1..n : Trace(store, v, k, e, P[j])
  BY <1>1 DEF At
<1> HIDE DEF P, k
<1>8. Within(o, v, k)
  BY <1>2, <1>6, <1>7 DEF Within
<1>9. Trace(t, v, k, e, P[n + 1])
  <2>1. t = Apply(store, o)
    BY DEF o
  <2> QED
    BY <1>2, <1>3, <1>4, <1>5, <1>8, <2>1, TraceMade
<1>10. ASSUME NEW j \in 1..n
       PROVE  Trace(t, v, k, e, P[j])
  <2>1. j \in 1..Len(P) /\ ~(n + 1 < j)
    BY <1>6, <1>7
  <2>2. P[j] \in Call /\ Within(P[j], v, k) /\ Trace(store, v, k, e, P[j])
    BY <1>6, <1>7, <2>1
  <2>3. ~(o.call = "clear" /\ P[j].call = "words")
    BY <1>2, <1>6, <1>7, <2>1
  <2>4. t = Apply(store, o)
    BY DEF o
  <2> QED
    BY <1>2, <1>3, <1>4, <1>8, <2>2, <2>3, <2>4, TraceKept
<1>11. \A j \in 1..(n + 1) : Trace(t, v, k, e, P[j])
  <2>1. \A j \in 1..(n + 1) : j \in 1..n \/ j = n + 1
    OBVIOUS
  <2> QED
    BY <1>9, <1>10, <2>1
<1>12. CASE Tail(proc[p].todo) = <<>>
  <2>1. q.pc = "finish" /\ n + 1 = Len(P)
    BY <1>7, <1>12
  <2> QED
    BY <1>11, <2>1 DEF Making, P, k
<1>13. CASE Tail(proc[p].todo) # <<>>
  <2>1. q.pc = "write" /\ n + 1 < Len(P) /\ n + 1 \in Nat
    BY <1>6, <1>7, <1>13
  <2>2. Progress(t, q, n + 1)
    BY <1>7, <1>11 DEF Progress, P, k
  <2> QED
    BY <2>1, <2>2 DEF Making, P, k
<1> QED
  BY <1>12, <1>13

\* What keeps the traces of all calls that process r may have made keeps its
\* place in the plan.
LEMMA MadeKept ==
    ASSUME TypeOK, NEW s, NEW t, NEW r, Making(s, r),
           r.pc \in {"write", "finish"} => r.claim \in 1..arrived /\ r.keywords \in Source,
           \A c \in Call : /\ r.pc \in {"write", "finish"} /\ Within(c, r.claim, r.keywords)
                          /\ Trace(s, r.claim, r.keywords, r.epoch, c)
                          => Trace(t, r.claim, r.keywords, r.epoch, c)
    PROVE  Making(t, r)
<1> DEFINE P == PlanOf(r.claim, r.keywords)
<1> SUFFICES ASSUME r.pc \in {"write", "finish"}
             PROVE  Making(t, r)
  BY DEF Making
<1>1. P \in Seq(Call) /\ \A j \in 1..Len(P) : Within(P[j], r.claim, r.keywords)
  <2>1. ImagesOf(r.claim) \in Seq(Image)
    BY PubFields
  <2> QED
    BY <2>1, PlanOfFacts
<1>2. \A j \in 1..Len(P) : Trace(s, r.claim, r.keywords, r.epoch, P[j])
                          => Trace(t, r.claim, r.keywords, r.epoch, P[j])
  <2> HIDE DEF P
  <2>1. \A j \in 1..Len(P) : P[j] \in Call
    BY <1>1
  <2> QED
    BY <1>1, <2>1
<1>3. ASSUME NEW n \in Nat, n < Len(P), Progress(s, r, n)
      PROVE  Progress(t, r, n)
  <2>1. \A j \in 1..n : j \in 1..Len(P)
    BY <1>1, <1>3
  <2> QED
    BY <1>2, <1>3, <2>1 DEF Progress
<1> QED
  BY <1>2, <1>3 DEF Making

\* Nothing about the page of v has changed.
SameAbout(s, t, v) ==
    LET u == UrlOf(v) IN
    t.state[u] = s.state[u] /\ t.images[u] = s.images[u] /\ t.words[u] = s.words[u]

\* What is written about other pages leaves the traces.
LEMMA MadeElsewhere ==
    ASSUME NEW s, NEW t, NEW r, Making(s, r), SameAbout(s, t, r.claim)
    PROVE  Making(t, r)
<1>1. \A e, k, c : Trace(s, r.claim, k, e, c) => Trace(t, r.claim, k, e, c)
  BY DEF SameAbout, Trace
<1> QED
  BY <1>1 DEF Making, Progress

\* Making, after a step that leaves the workload.
LEMMA MadeAfter ==
    ASSUME workload' = workload, NEW p \in Proc, Making(store', proc'[p])
    PROVE  Making(store, proc[p])'
BY DEF Making, Progress, Trace, PlanOf, Leftover, Keys, UrlOf, ImagesOf
-----------------------------------------------------------------------------
(* The processes.  Process p becomes record q. *)

Becomes(p, q) == q \in ProcRecord /\ proc' = [proc EXCEPT ![p] = q]

\* The new epoch: none, the one it had, or one just given.
EpochFits(p, q) ==
    \/ q.epoch = 0 /\ q.pc \in Places0
    \/ q.epoch = proc[p].epoch /\ q.pc \notin Places0 /\ proc[p].pc \notin Places0
    \/ q.epoch = epoch + 1 /\ epoch' = q.epoch /\ q.pc \notin Places0 /\ q.claim = 0

\* The new claim: none, the one it had, or one taken from the queue.
ClaimFits(p, q) ==
    /\ \/ q.claim = 0
       \/ q.claim = proc[p].claim /\ q.epoch = proc[p].epoch
       \/ /\ Queue!ClaimScript(proc[p].epoch) /\ processing = <<>> /\ proc[p].pc = "loop"
          /\ q.claim = Last(queue) /\ q.epoch = proc[p].epoch
    /\ q.pc \in Places0 => q.claim = 0
    /\ q.pc \in Busy \cup {"unlock", "release"} => q.claim # 0
    /\ OwnClaims(owner', epoch', processing', q.epoch, q.pc, q.claim, q.outcome)

\* Canonical locks that were neither free nor the process's stay.
LocksKept(p) ==
    /\ canonical' \in [Url -> LockDoc]
    /\ \A u \in Url : canonical'[u] = canonical[u] \/ canonical[u] \in {Free, Mine(p)}

LocksFit(p, q) ==
    /\ LocksKept(p)
    /\ q.pc \in Locked => canonical'[UrlOf(q.claim)] =
                              [service |-> "image", pub |-> q.claim, epoch |-> q.epoch]

\* The store after a step of p.
Stores(p) ==
    \/ store' = store
    \/ proc[p].pc = "write" /\ store' = Apply(store, OpOf(p))

\* A write that p gives up ends its attempt, and may land late.
LateFits(p, q) ==
    \/ late' = late
    \/ /\ proc[p].pc = "write" /\ workload.late /\ store' = store
       /\ q.pc = "unlock" /\ q.outcome = "failed"
       /\ q.claim = proc[p].claim /\ q.epoch = proc[p].epoch
       /\ late' = late \cup {OpOf(p)}

\* An attempt that has failed stays so, and only the owner begins one.
AttemptFits(p, q) ==
    /\ Failing(proc[p]) /\ q.epoch # 0 => Failing(q) /\ q.epoch = proc[p].epoch
    /\ q.pc \in Working => /\ q.claim = proc[p].claim /\ q.epoch = proc[p].epoch
                           /\ proc[p].pc \in Working \/ Owner(p)

\* What a write has left so far, from keywords that are current.
PlanFits(q) ==
    q.pc \in {"write", "finish"} =>
        /\ q.keywords \in Versions(UrlOf(q.claim))
        /\ workload.late \/ q.keywords = metadata[UrlOf(q.claim)]
        /\ Making(store', q)

\* The part of the invariant that processes share.
Sound(p, q) ==
    /\ Becomes(p, q)
    /\ QueueEffect(p)
    /\ UNCHANGED <<arrived, workload, metadata, lateMetadata>>
    /\ EpochFits(p, q) /\ ClaimFits(p, q) /\ LocksFit(p, q)
    /\ Stores(p) /\ LateFits(p, q) /\ AttemptFits(p, q) /\ PlanFits(q)

\* How a step of process p changes the lock and the claims.
OwnerMoves(p) ==
    \/ UNCHANGED <<owner, epoch, processing>>
    \/ owner' = epoch + 1 /\ epoch' = epoch + 1 /\ processing' = processing
    \/ Owner(p) /\ owner' \in {owner, 0} /\ epoch' = epoch

\* The fields of all processes after a step of one.
LEMMA BecomesFields ==
    ASSUME TypeOK, NEW p \in Proc, NEW q, Becomes(p, q)
    PROVE  /\ \A x \in Proc \ {p} : proc'[x] = proc[x]
           /\ proc'[p] = q /\ q \in ProcRecord /\ proc' \in [Proc -> ProcRecord]
           /\ q.epoch \in Nat /\ q.claim \in Nat
<1>1. proc \in [Proc -> ProcRecord] /\ q \in ProcRecord /\ proc' = [proc EXCEPT ![p] = q]
  BY DEF TypeOK, Becomes
<1>2. q.epoch \in Nat /\ q.claim \in Nat
  BY <1>1 DEF ProcRecord
<1> QED
  BY <1>1, <1>2

\* The claim of a process in the middle of an attempt is a publication.
LEMMA LockedClaim ==
    ASSUME TypeOK, ProcInv, NEW p \in Proc, proc[p].pc \in Locked
    PROVE  /\ proc[p].claim \in 1..arrived /\ ClaimUrl(p) \in Url
           /\ proc[p].epoch # 0 /\ proc[p].pc \notin Places0
<1>1. proc[p].pc \in Busy \cup {"unlock", "release"} /\ proc[p].pc \notin Places0
  BY DEF Locked, Working, Busy, Places0
<1>2. proc[p].claim \in 0..arrived /\ proc[p].claim # 0 /\ proc[p].epoch # 0
  BY <1>1 DEF ProcInv
<1>3. arrived \in Nat
  BY PubFields, ManifestAssumption
<1>4. proc[p].claim \in 1..arrived
  BY <1>2, <1>3
<1> QED
  BY <1>1, <1>2, <1>4, PubFields DEF ClaimUrl

\* Two processes hold locks of two URLs.
LEMMA OneHolder ==
    ASSUME TypeOK, ProcInv, LockInv, NEW p \in Proc, NEW x \in Proc, x # p,
           proc[p].pc \in Locked, proc[x].pc \in Locked
    PROVE  ClaimUrl(x) # ClaimUrl(p)
<1>1. canonical[ClaimUrl(p)] = Mine(p) /\ canonical[ClaimUrl(x)] = Mine(x)
  BY DEF LockInv
<1>2. proc[x].epoch # proc[p].epoch
  BY LockedClaim DEF ProcInv
<1>3. Mine(p) # Mine(x)
  BY <1>2 DEF Mine
<1> QED
  BY <1>1, <1>3

\* What a step of one process leaves true of all of them.
LEMMA StepKeeps ==
    ASSUME TypeOK, LineInv, ProcInv, ClaimInv, LockInv, NEW p \in Proc, NEW q,
           Sound(p, q), OwnerMoves(p)
    PROVE  ProcInv' /\ ClaimInv' /\ LockInv'
<1>1. /\ \A x \in Proc \ {p} : proc'[x] = proc[x]
      /\ proc'[p] = q /\ q.epoch \in Nat /\ q.claim \in Nat
  BY BecomesFields DEF Sound
<1>2. /\ epoch \in Nat /\ owner \in {0, epoch} /\ arrived \in Nat
      /\ \A x \in Proc : proc[x].epoch \in Nat
  BY Fields, PubFields, ManifestAssumption DEF TypeOK
<1>3. epoch' \in {epoch, epoch + 1}
  BY DEF OwnerMoves
<1>4. /\ \A x \in Proc : proc[x].epoch <= epoch
      /\ \A x \in Proc : proc[x].epoch = 0 <=> proc[x].pc \in Places0
      /\ \A x, y \in Proc : x # y /\ proc[x].epoch = proc[y].epoch => proc[x].epoch = 0
  BY DEF ProcInv
<1>5. /\ EpochFits(p, q) /\ ClaimFits(p, q) /\ LocksFit(p, q)
      /\ arrived' = arrived /\ workload' = workload
  BY DEF Sound
<1>6. ProcInv'
  <2>1. \A x \in Proc : proc'[x].epoch <= epoch'
    BY <1>1, <1>2, <1>3, <1>4, <1>5 DEF EpochFits
  <2>2. \A x \in Proc : proc'[x].epoch = 0 <=> proc'[x].pc \in Places0
    BY <1>1, <1>2, <1>4, <1>5 DEF EpochFits
  <2>3. \A x, y \in Proc : x # y /\ proc'[x].epoch = proc'[y].epoch => proc'[x].epoch = 0
    BY <1>1, <1>2, <1>4, <1>5 DEF EpochFits
  <2>4. q.claim \in 0..arrived
    <3>1. CASE q.claim = 0
      BY <1>2, <3>1
    <3>2. CASE q.claim = proc[p].claim
      BY <3>2 DEF ProcInv
    <3>3. CASE /\ Queue!ClaimScript(proc[p].epoch) /\ processing = <<>>
               /\ q.claim = Last(queue)
      <4>1. Last(queue) \in 1..arrived
        BY <3>3, ClaimMoves
      <4> QED
        BY <1>2, <3>3, <4>1
    <3> QED
      BY <1>5, <3>1, <3>2, <3>3 DEF ClaimFits
  <2>5. \A x \in Proc : proc'[x].claim \in 0..arrived
    BY <1>1, <2>4 DEF ProcInv
  <2>6. \A x \in Proc : proc'[x].pc \in Places0 => proc'[x].claim = 0
    BY <1>1, <1>5 DEF ProcInv, ClaimFits
  <2>7. \A x \in Proc : proc'[x].pc \in Busy \cup {"unlock", "release"} => proc'[x].claim # 0
    BY <1>1, <1>5 DEF ProcInv, ClaimFits
  <2> QED
    BY <1>5, <2>1, <2>2, <2>3, <2>5, <2>6, <2>7 DEF ProcInv
<1>7. ClaimInv'
  <2>0. OwnClaims(owner', epoch', processing', q.epoch, q.pc, q.claim, q.outcome)
    BY <1>5 DEF ClaimFits
  <2> SUFFICES ASSUME NEW x \in Proc \ {p}
               PROVE  OwnClaims(owner', epoch', processing', proc[x].epoch, proc[x].pc,
                                proc[x].claim, proc[x].outcome)
    BY <1>1, <2>0 DEF ClaimInv
  <2>2. OwnClaims(owner, epoch, processing, proc[x].epoch, proc[x].pc, proc[x].claim,
                  proc[x].outcome)
    BY DEF ClaimInv
  <2>3. CASE proc[x].epoch # 0 /\ owner' = proc[x].epoch /\ epoch' = proc[x].epoch
    <3>1. epoch' = epoch
      BY <1>2, <1>3, <1>4, <2>3
    <3>2. ~(Owner(p) /\ owner = proc[x].epoch)
      BY <1>4, <2>3 DEF Owner, Queue!Holds
    <3>3. processing' = processing /\ owner' = owner
      BY <1>2, <2>3, <3>1, <3>2 DEF OwnerMoves
    <3> QED
      BY <2>2, <3>1, <3>3 DEF OwnClaims
  <2> QED
    BY <2>3 DEF OwnClaims
<1>8. LockInv'
  <2>1. ASSUME NEW x \in Proc \ {p}, proc[x].pc \in Locked
        PROVE  canonical'[UrlOf(proc[x].claim)] = Mine(x)
    <3>1. canonical[UrlOf(proc[x].claim)] = Mine(x)
      BY <2>1 DEF LockInv, ClaimUrl
    <3>2. UrlOf(proc[x].claim) \in Url /\ proc[x].epoch # 0
      BY <2>1, LockedClaim DEF ClaimUrl
    <3>3. proc[x].epoch # proc[p].epoch
      BY <1>4, <3>2
    <3>4. Mine(x) # Free /\ Mine(x) # Mine(p)
      BY <3>3 DEF Mine, Free
    <3> QED
      BY <1>5, <3>1, <3>2, <3>4 DEF LocksFit, LocksKept
  <2>2. \A x \in Proc \ {p} : proc[x].pc \in Locked => (canonical[ClaimUrl(x)] = Mine(x))'
    BY <1>1, <1>5, <2>1 DEF ClaimUrl, UrlOf, Mine
  <2>3. q.pc \in Locked => (canonical[ClaimUrl(p)] = Mine(p))'
    BY <1>1, <1>5 DEF ClaimUrl, UrlOf, Mine, LocksFit
  <2> QED
    BY <1>1, <2>2, <2>3 DEF LockInv
<1> QED
  BY <1>6, <1>7, <1>8

\* The call a step makes, as CallDoes has it.
LEMMA StoresFacts ==
    ASSUME TypeOK, StoreOK, ProcInv, MadeInv, NEW p \in Proc, Stores(p)
    PROVE  \/ store' = store
           \/ /\ proc[p].pc = "write" /\ proc[p].pc \in Locked
              /\ proc[p].claim \in 1..arrived /\ ClaimUrl(p) \in Url
              /\ proc[p].epoch \in Nat /\ proc[p].epoch # 0
              /\ store' = Apply(store, OpOf(p))
              /\ OpOf(p) \in OpType
              /\ OpOf(p).pub = proc[p].claim /\ OpOf(p).epoch = proc[p].epoch
              /\ CallDoes(store, store', ClaimUrl(p), OpOf(p))
<1> SUFFICES ASSUME proc[p].pc = "write", store' = Apply(store, OpOf(p))
             PROVE  /\ proc[p].pc \in Locked
                    /\ proc[p].claim \in 1..arrived /\ ClaimUrl(p) \in Url
                    /\ proc[p].epoch \in Nat /\ proc[p].epoch # 0
                    /\ OpOf(p) \in OpType
                    /\ OpOf(p).pub = proc[p].claim /\ OpOf(p).epoch = proc[p].epoch
                    /\ CallDoes(store, store', ClaimUrl(p), OpOf(p))
  BY DEF Stores
<1>1. proc[p].pc \in Locked
  BY DEF Locked, Working
<1>2. /\ proc[p].claim \in 1..arrived /\ ClaimUrl(p) \in Url
      /\ proc[p].epoch # 0 /\ proc[p].epoch \in Nat
  BY <1>1, LockedClaim, Fields
<1>3. /\ OpOf(p) \in OpType /\ OpOf(p).pub = proc[p].claim /\ OpOf(p).epoch = proc[p].epoch
  BY WriteFacts
<1>4. store \in StoreType /\ ClaimUrl(p) = UrlOf(OpOf(p).pub)
  BY <1>3 DEF StoreOK, ClaimUrl
<1>5. CallDoes(store, store', ClaimUrl(p), OpOf(p))
  BY <1>3, <1>4, CallFacts
<1> QED
  BY <1>1, <1>2, <1>3, <1>5

\* The stamps of the documents are numbers.
LEMMA StoreNumbers ==
    ASSUME StoreOK
    PROVE  \A u \in Url : /\ store.state[u].epoch \in Nat
                          /\ \A i \in Image : store.images[u][i].epoch \in Nat
                          /\ \A d \in Posting : store.words[u][d].epoch \in Nat
<1> SUFFICES ASSUME NEW u \in Url
             PROVE  /\ store.state[u].epoch \in Nat
                    /\ \A i \in Image : store.images[u][i].epoch \in Nat
                    /\ \A d \in Posting : store.words[u][d].epoch \in Nat
  OBVIOUS
<1>1. /\ store.state[u] \in Doc /\ store.images[u] \in [Image -> Doc]
      /\ store.words[u] \in [Posting -> Doc]
  BY StoreParts DEF StoreOK
<1>2. /\ \A i \in Image : store.images[u][i] \in Doc
      /\ \A d \in Posting : store.words[u][d] \in Doc
  BY <1>1
<1> QED
  BY <1>1, <1>2 DEF Doc

\* A call whose epoch has been given keeps the stamps of the documents in range.
LEMMA CallInRange ==
    ASSUME TypeOK, StoreOK, NEW op \in OpType, op.epoch <= epoch, store' = Apply(store, op),
           arrived' = arrived, epoch' \in {epoch, epoch + 1}
    PROVE  StoreOK'
<1> DEFINE w == UrlOf(op.pub)
           e == op.epoch
           v == op.pub
<1>1. /\ store \in StoreType
      /\ \A u \in Url :
            /\ store.state[u].pub <= arrived
            /\ store.state[u].epoch <= epoch
            /\ \A i \in Image : store.images[u][i].epoch <= epoch
            /\ \A d \in Posting : store.words[u][d].epoch <= epoch
  BY DEF StoreOK
<1>2. epoch \in Nat /\ epoch' \in Nat /\ epoch <= epoch' /\ e <= epoch'
  BY OpFields DEF TypeOK
<1>3. /\ w \in Url /\ e \in Nat /\ v <= arrived /\ CallDoes(store, store', w, op)
  <2>1. CallDoes(store, store', w, op)
    BY <1>1, CallFacts
  <2>2. v \in 1..arrived /\ arrived \in Nat
    BY PubFields, ManifestAssumption DEF OpType
  <2> QED
    BY <2>1, <2>2, OpFields
<1>4. DocOf(op).epoch = e /\ DocOf(op).pub = v /\ NoDoc.epoch = 0
  BY DEF DocOf, NoDoc
<1>5. \A d, x : Fate(d, x, op) => x = d \/ x.epoch \in {0, e}
  BY <1>4 DEF Fate
<1>6. /\ store'.state[w].pub <= arrived /\ store'.state[w].epoch <= epoch'
  <2>1. store'.state[w] = store.state[w] \/ store'.state[w] = DocOf(op)
    BY <1>3 DEF CallDoes
  <2> QED
    BY <1>1, <1>2, <1>3, <1>4, <2>1, StoreNumbers
<1> HIDE DEF w, e, v
<1>7. \A i \in Image : store'.images[w][i].epoch <= epoch'
  <2> SUFFICES ASSUME NEW i \in Image PROVE store'.images[w][i].epoch <= epoch'
    OBVIOUS
  <2>1. \/ store'.images[w][i] = store.images[w][i]
        \/ store'.images[w][i].epoch \in {0, e}
    BY <1>3, <1>5 DEF CallDoes
  <2>2. store.images[w][i].epoch <= epoch /\ store.images[w][i].epoch \in Nat
    BY <1>1, <1>3, StoreNumbers
  <2> QED
    BY <1>2, <1>3, <2>1, <2>2
<1>8. \A d \in Posting : store'.words[w][d].epoch <= epoch'
  <2> SUFFICES ASSUME NEW d \in Posting PROVE store'.words[w][d].epoch <= epoch'
    OBVIOUS
  <2>1. \/ store'.words[w][d] = store.words[w][d]
        \/ store'.words[w][d].epoch \in {0, e}
    BY <1>3, <1>5 DEF CallDoes
  <2>2. store.words[w][d].epoch <= epoch /\ store.words[w][d].epoch \in Nat
    BY <1>1, <1>3, StoreNumbers
  <2> QED
    BY <1>2, <1>3, <2>1, <2>2
<1>9. ASSUME NEW u \in Url, u # w
      PROVE  /\ store'.state[u].pub <= arrived /\ store'.state[u].epoch <= epoch'
             /\ \A i \in Image : store'.images[u][i].epoch <= epoch'
             /\ \A d \in Posting : store'.words[u][d].epoch <= epoch'
  <2>1. /\ store'.state[u] = store.state[u] /\ store'.images[u] = store.images[u]
        /\ store'.words[u] = store.words[u]
    BY <1>3, <1>9 DEF CallDoes
  <2> QED
    BY <1>1, <1>2, <2>1, StoreNumbers
<1>10. store' \in StoreType
  BY <1>3 DEF CallDoes
<1> QED
  BY <1>6, <1>7, <1>8, <1>9, <1>10 DEF StoreOK

\* The stamps of the documents stay in range.
LEMMA StoreKeeps ==
    ASSUME TypeOK, StoreOK, ProcInv, MadeInv, NEW p \in Proc, Stores(p),
           arrived' = arrived, epoch' \in {epoch, epoch + 1}
    PROVE  StoreOK'
<1>1. CASE store' = store
  <2>1. epoch \in Nat /\ epoch' \in Nat /\ epoch <= epoch'
    BY DEF TypeOK
  <2> QED
    BY <1>1, <2>1, StoreNumbers DEF StoreOK
<1>2. CASE store' # store
  <2>1. OpOf(p) \in OpType /\ OpOf(p).epoch <= epoch /\ store' = Apply(store, OpOf(p))
    BY <1>2, StoresFacts DEF ProcInv
  <2> QED
    BY <2>1, CallInRange
<1> QED
  BY <1>1, <1>2

\* A publication that is still none of those that wait, or the first.
StillBefore(v) ==
    /\ \A i \in 1..Len(queue') : v <= queue'[i]
    /\ \A i \in 1..Len(processing') : v <= processing'[i]

\* The parts of StampInv after a step.
StampsAfter ==
    /\ \A u \in Url : StillBefore(store'.state[u].pub)
    /\ \A x \in Proc : StillBefore(proc'[x].claim)
    /\ \A x \in Proc : proc'[x].claim # 0 =>
          /\ \A y \in Proc : proc'[x].epoch > proc'[y].epoch => proc'[x].claim >= proc'[y].claim
          /\ \A u \in Url :
                proc'[x].epoch >= store'.state[u].epoch => proc'[x].claim >= store'.state[u].pub

\* Publications that come before all that waits are numbers.
LEMMA StampNumbers ==
    ASSUME TypeOK, StoreOK, ProcInv
    PROVE  /\ \A u \in Url : store.state[u].pub \in Nat /\ store.state[u].epoch \in Nat
           /\ \A x \in Proc : proc[x].claim \in Nat /\ proc[x].epoch \in Nat
<1>1. \A u \in Url : store.state[u] \in Doc
  BY StoreParts DEF StoreOK
<1> QED
  BY <1>1, Fields DEF Doc

\* The stamps after a step of one process.
LEMMA StampKeeps ==
    ASSUME TypeOK, StoreOK, LineInv, ProcInv, MadeInv, StampInv, NEW p \in Proc, NEW q,
           Sound(p, q)
    PROVE  StampInv'
<1> DEFINE e == proc[p].epoch
           v == proc[p].claim
           w == ClaimUrl(p)
<1>1. /\ \A x \in Proc \ {p} : proc'[x] = proc[x]
      /\ proc'[p] = q /\ q.epoch \in Nat /\ q.claim \in Nat
  BY BecomesFields DEF Sound
<1>2. /\ \A u \in Url : store.state[u].pub \in Nat /\ store.state[u].epoch \in Nat
      /\ \A x \in Proc : proc[x].claim \in Nat /\ proc[x].epoch \in Nat
      /\ epoch \in Nat
  BY StampNumbers DEF TypeOK
<1>3. \A x : Before(x) => StillBefore(x)
  <2>1. QueueEffect(p) /\ arrived' = arrived
    BY DEF Sound
  <2> QED
    BY <2>1, EffectKeeps DEF Before, StillBefore
<1>4. /\ \A u \in Url : Before(store.state[u].pub)
      /\ \A x \in Proc : Before(proc[x].claim)
      /\ \A x \in Proc : proc[x].claim # 0 =>
          /\ \A y \in Proc : proc[x].epoch > proc[y].epoch => proc[x].claim >= proc[y].claim
          /\ \A u \in Url :
                proc[x].epoch >= store.state[u].epoch => proc[x].claim >= store.state[u].pub
  BY DEF StampInv
<1>5. /\ \A x \in Proc : proc[x].epoch <= epoch
      /\ \A x, y \in Proc : x # y /\ proc[x].epoch = proc[y].epoch => proc[x].epoch = 0
  BY DEF ProcInv
<1>6. \/ q.claim = 0
      \/ q.claim = v /\ q.epoch = e
      \/ /\ e = epoch /\ q.epoch = e /\ StillBefore(q.claim)
         /\ \A x : Before(x) => x <= q.claim
  <2>1. CASE /\ Queue!ClaimScript(e) /\ processing = <<>> /\ q.claim = Last(queue) /\ q.epoch = e
    <3>1. arrived' = arrived
      BY DEF Sound
    <3>2. e = epoch
      <4>1. Queue!Holds(e)
        BY <2>1 DEF Queue!ClaimScript
      <4> QED
        BY <4>1 DEF Queue!Holds
    <3>3. \A x : Before(x) => x <= Last(queue)
      BY <2>1, <3>1, ClaimKeeps
    <3>4. \A x : x = Last(queue) => StillBefore(x)
      <4>1. \A x : x = Last(queue) => Before(x)'
        BY <2>1, <3>1, ClaimKeeps
      <4> QED
        BY <4>1 DEF Before, StillBefore
    <3> QED
      BY <2>1, <3>2, <3>3, <3>4
  <2> QED
    BY <2>1 DEF Sound, ClaimFits
<1>7. StillBefore(0)
  <2>1. Lined'
    BY EffectKeeps DEF Sound
  <2>2. /\ queue' \in Seq(1..arrived) /\ processing' \in Seq(1..arrived) /\ arrived \in Nat
    BY <2>1, PubFields, ManifestAssumption DEF Lined, Sound
  <2>3. /\ \A i \in 1..Len(queue') : queue'[i] \in 1..arrived
        /\ \A i \in 1..Len(processing') : processing'[i] \in 1..arrived
    BY <2>2
  <2> QED
    BY <2>2, <2>3 DEF StillBefore
<1>8. \/ store' = store
      \/ /\ w \in Url /\ e # 0 /\ v # 0
         /\ \A u \in Url : u # w => store'.state[u] = store.state[u]
         /\ \/ store'.state[w] = store.state[w]
            \/ store'.state[w].pub = v /\ store'.state[w].epoch = e
  <2>1. CASE store' = store
    BY <2>1
  <2>2. CASE store' # store
    <3>1. /\ v \in 1..arrived /\ w \in Url /\ e # 0 /\ CallDoes(store, store', w, OpOf(p))
          /\ OpOf(p).pub = v /\ OpOf(p).epoch = e
      BY <2>2, StoresFacts DEF Sound
    <3>2. v # 0
      <4>1. arrived \in Nat
        BY PubFields, ManifestAssumption
      <4> QED
        BY <3>1, <4>1
    <3>3. \/ store'.state[w] = store.state[w]
          \/ store'.state[w] = [pub |-> v, epoch |-> e]
      BY <3>1 DEF CallDoes, DocOf
    <3>4. \A u \in Url : u # w => store'.state[u] = store.state[u]
      BY <3>1 DEF CallDoes
    <3> HIDE DEF v, e, w
    <3> QED
      BY <3>1, <3>2, <3>3, <3>4
  <2> QED
    BY <2>1, <2>2
<1>9. \A u \in Url : \/ store'.state[u] = store.state[u]
                     \/ e # 0 /\ v # 0 /\ store'.state[u].pub = v /\ store'.state[u].epoch = e
  BY <1>8
<1> HIDE DEF w
<1>10. \A u \in Url : StillBefore(store'.state[u].pub)
  <2> SUFFICES ASSUME NEW u \in Url PROVE StillBefore(store'.state[u].pub)
    OBVIOUS
  <2>1. StillBefore(store.state[u].pub) /\ StillBefore(v)
    BY <1>3, <1>4
  <2> QED
    BY <1>9, <2>1
<1>11. \A x \in Proc : StillBefore(proc'[x].claim)
  <2>1. \A x \in Proc : StillBefore(proc[x].claim)
    BY <1>3, <1>4
  <2>2. StillBefore(q.claim)
    BY <1>6, <1>7, <2>1
  <2> QED
    BY <1>1, <2>1, <2>2
<1>12. ASSUME NEW x \in Proc, NEW y \in Proc, proc'[x].claim # 0, proc'[x].epoch > proc'[y].epoch
       PROVE  proc'[x].claim >= proc'[y].claim
  <2>1. CASE x # p /\ y # p
    BY <1>1, <1>4, <1>12, <2>1
  <2>2. CASE x = p /\ y # p
    <3>1. proc'[y] = proc[y] /\ proc'[x] = q /\ Before(proc[y].claim) /\ proc[y].claim \in Nat
      BY <1>1, <1>2, <1>4, <2>2
    <3>2. v # 0 /\ e > proc[y].epoch => v >= proc[y].claim
      BY <1>4, <2>2
    <3> HIDE DEF v, e
    <3> QED
      BY <1>1, <1>6, <1>12, <3>1, <3>2
  <2>3. CASE x # p /\ y = p
    <3>1. proc'[x] = proc[x] /\ proc'[y] = q /\ proc[x].claim \in Nat /\ proc[x].epoch <= epoch
          /\ proc[x].epoch \in Nat
      BY <1>1, <1>2, <1>5, <2>3
    <3>2. proc[x].epoch > e => proc[x].claim >= v
      BY <1>4, <1>12, <2>3, <3>1
    <3> HIDE DEF v, e
    <3> QED
      BY <1>1, <1>2, <1>6, <1>12, <3>1, <3>2
  <2>4. x # y
    <3>1. proc'[x].epoch \in Nat
      BY <1>1, <1>2
    <3> QED
      BY <1>12, <3>1
  <2> QED
    BY <2>1, <2>2, <2>3, <2>4
<1>13. ASSUME NEW x \in Proc, NEW u \in Url, proc'[x].claim # 0,
              proc'[x].epoch >= store'.state[u].epoch
       PROVE  proc'[x].claim >= store'.state[u].pub
  <2>1. /\ store.state[u].pub \in Nat /\ store.state[u].epoch \in Nat
        /\ v \in Nat /\ e \in Nat /\ Before(store.state[u].pub) /\ Before(v)
    BY <1>2, <1>4
  <2>2. CASE x # p
    <3>1. /\ proc'[x] = proc[x] /\ proc[x].claim \in Nat /\ proc[x].epoch \in Nat
          /\ proc[x].claim # 0
      BY <1>1, <1>2, <1>13, <2>2
    <3>2. CASE store'.state[u] = store.state[u]
      BY <1>4, <1>13, <3>1, <3>2
    <3>3. CASE e # 0 /\ store'.state[u].pub = v /\ store'.state[u].epoch = e
      <4>1. proc[x].epoch # e
        BY <1>5, <2>2, <3>3
      <4>2. proc[x].epoch > e
        BY <1>13, <2>1, <3>1, <3>3, <4>1
      <4> QED
        BY <1>4, <3>1, <3>3, <4>2
    <3> QED
      BY <1>9, <3>2, <3>3
  <2>3. CASE x = p
    <3>1. proc'[x] = q
      BY <1>1, <2>3
    <3>2. v # 0 /\ e >= store.state[u].epoch => v >= store.state[u].pub
      BY <1>4
    <3>3. \/ store'.state[u] = store.state[u]
          \/ store'.state[u].pub = v /\ store'.state[u].epoch = e
      BY <1>9
    <3> HIDE DEF v, e
    <3> QED
      BY <1>1, <1>6, <1>13, <2>1, <3>1, <3>2, <3>3
  <2> QED
    BY <2>2, <2>3
<1>14. StampsAfter
  BY <1>10, <1>11, <1>12, <1>13 DEF StampsAfter
<1> QED
  BY <1>14 DEF StampsAfter, StampInv, StillBefore, Before

\* The writes that may land late after a step of one process.
LEMMA LateKeeps ==
    ASSUME TypeOK, StoreOK, LineInv, ProcInv, LockInv, MadeInv, StampInv, LateInv, LateStamps,
           NEW p \in Proc, NEW q, Sound(p, q), epoch' \in {epoch, epoch + 1}
    PROVE  LateInv' /\ LateStamps'
<1> DEFINE e == proc[p].epoch
           v == proc[p].claim
           n == OpOf(p)
<1>1. /\ \A x \in Proc \ {p} : proc'[x] = proc[x]
      /\ proc'[p] = q /\ q.epoch \in Nat /\ q.claim \in Nat
  BY BecomesFields DEF Sound
<1>2. /\ \A u \in Url : store.state[u].pub \in Nat /\ store.state[u].epoch \in Nat
      /\ \A x \in Proc : proc[x].claim \in Nat /\ proc[x].epoch \in Nat
      /\ epoch \in Nat
  BY StampNumbers DEF TypeOK
<1>3. \A x : Before(x) => Before(x)'
  BY EffectKeeps DEF Sound
<1>4. /\ arrived' = arrived /\ workload' = workload
      /\ EpochFits(p, q) /\ ClaimFits(p, q) /\ LateFits(p, q) /\ AttemptFits(p, q) /\ Stores(p)
  BY DEF Sound
<1>5. /\ \A x \in Proc : proc[x].epoch <= epoch
      /\ \A x \in Proc : x # p /\ proc[x].epoch = e => e = 0
  BY DEF ProcInv
<1>6. /\ \A x \in Proc : Before(proc[x].claim)
      /\ \A x \in Proc : proc[x].claim # 0 =>
            \A y \in Proc : proc[x].epoch > proc[y].epoch => proc[x].claim >= proc[y].claim
      /\ v # 0 => \A u \in Url : e >= store.state[u].epoch => v >= store.state[u].pub
  BY DEF StampInv
<1>7. \A op \in late : /\ op \in OpType /\ op.epoch \in Nat /\ op.pub \in Nat
                       /\ op.epoch # 0 /\ op.epoch <= epoch
  BY OpFields DEF LateInv
<1>8. \/ late' = late
      \/ /\ late' = late \cup {n} /\ workload.late /\ store' = store
         /\ n \in OpType /\ n.pub = v /\ n.epoch = e /\ e # 0 /\ v # 0
         /\ q.claim = v /\ q.epoch = e /\ q.pc = "unlock" /\ q.outcome = "failed"
         /\ proc[p].pc \in Locked /\ ClaimUrl(p) = UrlOf(n.pub)
  <2> SUFFICES ASSUME late' # late
               PROVE  /\ late' = late \cup {n} /\ workload.late /\ store' = store
                      /\ n \in OpType /\ n.pub = v /\ n.epoch = e /\ e # 0 /\ v # 0
                      /\ q.claim = v /\ q.epoch = e /\ q.pc = "unlock" /\ q.outcome = "failed"
                      /\ proc[p].pc \in Locked /\ ClaimUrl(p) = UrlOf(n.pub)
    OBVIOUS
  <2>1. /\ proc[p].pc = "write" /\ late' = late \cup {n} /\ workload.late /\ store' = store
        /\ q.claim = v /\ q.epoch = e /\ q.pc = "unlock" /\ q.outcome = "failed"
    BY <1>4 DEF LateFits
  <2>2. n \in OpType /\ n.pub = v /\ n.epoch = e
    BY <2>1, WriteFacts
  <2>3. proc[p].pc \in Locked
    BY <2>1 DEF Locked, Working
  <2>4. e # 0 /\ v \in 1..arrived /\ arrived \in Nat
    BY <2>3, LockedClaim, PubFields, ManifestAssumption
  <2>5. v # 0
    BY <2>4
  <2>6. ClaimUrl(p) = UrlOf(n.pub)
    BY <2>2 DEF ClaimUrl
  <2> QED
    BY <2>1, <2>2, <2>3, <2>4, <2>5, <2>6
<1> HIDE DEF n
<1>9. ASSUME NEW op \in late'
      PROVE  op \in late \/ (op = n /\ late' # late)
  BY <1>8, <1>9
<1>10. \A op \in late' : op.epoch \in Nat /\ op.pub \in Nat /\ op.epoch # 0 /\ op.epoch <= epoch
  BY <1>2, <1>5, <1>7, <1>8, <1>9
<1>11. ASSUME NEW op \in late'
       PROVE  /\ workload.late /\ op \in OpType
              /\ \A x \in Proc : proc'[x].epoch = op.epoch => Failing(proc'[x])
              /\ \A x \in Proc : proc'[x].pc \in Working /\ UrlOf(proc'[x].claim) = UrlOf(op.pub)
                                   => proc'[x].epoch > op.epoch
  <2>1. CASE op \in late
    <3>1. /\ workload.late /\ op \in OpType /\ op.epoch \in Nat /\ op.epoch # 0 /\ op.epoch <= epoch
          /\ \A x \in Proc : proc[x].epoch = op.epoch => Failing(proc[x])
          /\ \A x \in Proc : proc[x].pc \in Working /\ UrlOf(proc[x].claim) = UrlOf(op.pub)
                               => proc[x].epoch > op.epoch
      BY <1>7, <2>1 DEF LateInv, ClaimUrl
    <3>2. q.epoch = op.epoch => Failing(q)
      <4> SUFFICES ASSUME q.epoch = op.epoch PROVE Failing(q)
        OBVIOUS
      <4>1. e = op.epoch
        BY <1>2, <1>4, <3>1 DEF EpochFits
      <4> QED
        BY <1>4, <3>1, <4>1 DEF AttemptFits
    <3>3. q.pc \in Working /\ UrlOf(q.claim) = UrlOf(op.pub) => q.epoch > op.epoch
      <4> SUFFICES ASSUME q.pc \in Working, UrlOf(q.claim) = UrlOf(op.pub)
                   PROVE  q.epoch > op.epoch
        OBVIOUS
      <4>1. q.claim = v /\ q.epoch = e /\ (proc[p].pc \in Working \/ Owner(p))
        BY <1>4 DEF AttemptFits
      <4>2. CASE proc[p].pc \in Working
        BY <3>1, <4>1, <4>2
      <4>3. CASE Owner(p)
        <5>1. e = epoch
          BY <4>3 DEF Owner, Queue!Holds
        <5>2. ~Failing(q)
          BY DEF Failing, Working
        <5>3. e # op.epoch
          BY <3>2, <4>1, <5>2
        <5> QED
          BY <1>2, <3>1, <4>1, <5>1, <5>3
      <4> QED
        BY <4>1, <4>2, <4>3
    <3> QED
      BY <1>1, <3>1, <3>2, <3>3
  <2>2. CASE op = n /\ late' # late
    <3>1. /\ workload.late /\ n \in OpType /\ n.epoch = e /\ e # 0 /\ q.epoch = e
          /\ q.pc = "unlock" /\ q.outcome = "failed" /\ proc[p].pc \in Locked
          /\ ClaimUrl(p) = UrlOf(n.pub)
      BY <1>8, <2>2
    <3>2. Failing(q) /\ q.pc \notin Working
      BY <3>1 DEF Failing, Working
    <3>3. ASSUME NEW x \in Proc, x # p
          PROVE  /\ proc[x].epoch # e
                 /\ ~(proc[x].pc \in Working /\ UrlOf(proc[x].claim) = UrlOf(n.pub))
      <4>1. proc[x].epoch # e
        BY <1>5, <3>1, <3>3
      <4>2. proc[x].pc \in Working => ClaimUrl(x) # ClaimUrl(p)
        BY <3>1, <3>3, OneHolder DEF Locked
      <4> QED
        BY <3>1, <4>1, <4>2 DEF ClaimUrl
    <3> QED
      BY <1>1, <2>2, <3>1, <3>2, <3>3
  <2> QED
    BY <1>9, <2>1, <2>2
<1>12. LateInv'
  <2>1. OpType' = OpType
    BY <1>4 DEF OpType
  <2>2. epoch' \in Nat /\ epoch <= epoch'
    BY <1>2
  <2>3. \A op \in late' : op.epoch <= epoch'
    BY <1>2, <1>10, <2>2
  <2> QED
    BY <1>4, <1>10, <1>11, <2>1, <2>3 DEF LateInv, ClaimUrl, UrlOf, Failing
<1>13. ASSUME NEW op \in late'
       PROVE  Before(op.pub)'
  BY <1>3, <1>6, <1>8, <1>9 DEF LateStamps
<1>14. ASSUME NEW op \in late', NEW u \in Url, op.epoch >= store'.state[u].epoch
       PROVE  op.pub >= store'.state[u].pub
  <2>1. CASE store' = store
    BY <1>6, <1>8, <1>9, <1>14, <2>1 DEF LateStamps
  <2>2. CASE store' # store
    <3>1. op \in late
      BY <1>8, <1>9, <2>2
    <3>2. v \in 1..arrived /\ arrived \in Nat
      BY <1>4, <2>2, StoresFacts, PubFields, ManifestAssumption
    <3>3. store'.state[u] = store.state[u] \/ store'.state[u] = [pub |-> v, epoch |-> e]
      <4>1. /\ CallDoes(store, store', ClaimUrl(p), OpOf(p))
            /\ OpOf(p).pub = v /\ OpOf(p).epoch = e
        BY <1>4, <2>2, StoresFacts
      <4> QED
        BY <4>1 DEF CallDoes, DocOf
    <3>4. v # 0
      BY <3>2
    <3>5. op.epoch >= e => op.pub >= v
      BY <3>1, <3>4 DEF LateStamps
    <3>6. op.epoch >= store.state[u].epoch => op.pub >= store.state[u].pub
      BY <3>1 DEF LateStamps
    <3> HIDE DEF v, e
    <3> QED
      BY <1>14, <3>3, <3>5, <3>6
  <2> QED
    BY <2>1, <2>2
<1>15. ASSUME NEW op \in late', NEW x \in Proc, proc'[x].claim # 0
       PROVE  /\ proc'[x].epoch >= op.epoch => proc'[x].claim >= op.pub
              /\ op.epoch >= proc'[x].epoch => op.pub >= proc'[x].claim
  <2>1. CASE x # p
    <3>1. proc'[x] = proc[x] /\ proc[x].claim # 0
      BY <1>1, <1>15, <2>1
    <3>2. CASE op \in late
      BY <3>1, <3>2 DEF LateStamps
    <3>3. CASE op = n /\ late' # late
      <4>1. /\ op.pub = v /\ op.epoch = e /\ e # 0 /\ v # 0 /\ proc[x].epoch # e
        BY <1>5, <1>8, <2>1, <3>3
      <4>2. /\ proc[x].epoch > e => proc[x].claim >= v
            /\ e > proc[x].epoch => v >= proc[x].claim
        BY <1>6, <3>1, <4>1
      <4>3. e \in Nat /\ proc[x].epoch \in Nat
        BY <1>2
      <4> HIDE DEF v, e
      <4> QED
        BY <3>1, <4>1, <4>2, <4>3
    <3> QED
      BY <1>9, <3>2, <3>3
  <2>2. CASE x = p
    <3>1. proc'[x] = q /\ q.claim # 0
      BY <1>1, <1>15, <2>2
    <3>2. CASE q.claim = v /\ q.epoch = e
      <4>1. CASE op \in late
        BY <3>1, <3>2, <4>1 DEF LateStamps
      <4>2. CASE op = n /\ late' # late
        <5>1. op.pub = v
          BY <1>8, <4>2
        <5> QED
          BY <1>2, <3>1, <3>2, <5>1
      <4> QED
        BY <1>9, <4>1, <4>2
    <3>3. CASE /\ Queue!ClaimScript(e) /\ processing = <<>> /\ proc[p].pc = "loop"
               /\ q.claim = Last(queue) /\ q.epoch = e /\ ~(q.claim = v /\ q.epoch = e)
      <4>1. op \in late
        BY <1>8, <1>9, <3>3
      <4>2. Before(op.pub) /\ op.pub <= Last(queue)
        <5>1. Before(op.pub)
          BY <4>1 DEF LateStamps
        <5> QED
          BY <1>4, <3>3, <5>1, ClaimKeeps
      <4>3. e = epoch
        <5>1. Queue!Holds(e)
          BY <3>3 DEF Queue!ClaimScript
        <5> QED
          BY <5>1 DEF Queue!Holds
      <4>4. e # op.epoch
        <5>1. ~Failing(proc[p])
          BY <3>3 DEF Failing
        <5> QED
          BY <4>1, <5>1 DEF LateInv
      <4>5. ~(op.epoch >= q.epoch)
        BY <1>2, <1>10, <3>3, <4>3, <4>4
      <4>6. q.claim >= op.pub
        BY <1>1, <1>10, <3>3, <4>2
      <4> QED
        BY <3>1, <4>5, <4>6
    <3> QED
      BY <1>4, <3>1, <3>2, <3>3 DEF ClaimFits
  <2> QED
    BY <2>1, <2>2
<1>16. ASSUME NEW op \in late', NEW o \in late', op.epoch >= o.epoch
       PROVE  op.pub >= o.pub
  <2>1. CASE op \in late /\ o \in late
    BY <1>16, <2>1 DEF LateStamps
  <2>2. CASE op = n /\ o \in late /\ late' # late
    <3>1. n.pub = v /\ n.epoch = e /\ v # 0
      BY <1>8, <2>2
    <3>2. e >= o.epoch => v >= o.pub
      BY <2>2, <3>1 DEF LateStamps
    <3> QED
      BY <1>16, <2>2, <3>1, <3>2
  <2>3. CASE op \in late /\ o = n /\ late' # late
    <3>1. n.pub = v /\ n.epoch = e /\ v # 0
      BY <1>8, <2>3
    <3>2. op.epoch >= e => op.pub >= v
      BY <2>3, <3>1 DEF LateStamps
    <3> QED
      BY <1>16, <2>3, <3>1, <3>2
  <2>4. CASE op = n /\ o = n
    BY <1>10, <2>4
  <2> QED
    BY <1>9, <2>1, <2>2, <2>3, <2>4
<1>17. LateStamps'
  BY <1>13, <1>14, <1>15, <1>16 DEF LateStamps
<1> QED
  BY <1>12, <1>17

\* Every other process is where it was in its plan.
LEMMA MadeKeeps ==
    ASSUME TypeOK, StoreOK, ProcInv, LockInv, MetadataInv, KeywordsCurrent, MadeInv,
           NEW p \in Proc, NEW q, Sound(p, q)
    PROVE  MadeInv' /\ MetadataInv' /\ KeywordsCurrent'
<1>1. /\ \A x \in Proc \ {p} : proc'[x] = proc[x]
      /\ proc'[p] = q
  BY BecomesFields DEF Sound
<1>2. /\ Stores(p) /\ PlanFits(q) /\ workload' = workload
      /\ metadata' = metadata /\ lateMetadata' = lateMetadata
  BY DEF Sound
<1>3. ASSUME NEW x \in Proc \ {p}
      PROVE  Making(store', proc[x])
  <2>0. Making(store, proc[x])
    BY DEF MadeInv
  <2>1. CASE store' = store
    BY <2>0, <2>1
  <2>2. CASE proc[x].pc \notin {"write", "finish"}
    BY <2>2 DEF Making
  <2>3. CASE store' # store /\ proc[x].pc \in {"write", "finish"}
    <3>1. proc[p].pc \in Locked /\ CallDoes(store, store', ClaimUrl(p), OpOf(p))
      BY <1>2, <2>3, StoresFacts
    <3>2. proc[x].pc \in Locked
      BY <2>3 DEF Locked, Working
    <3>3. ClaimUrl(x) # ClaimUrl(p) /\ ClaimUrl(x) \in Url
      BY <3>1, <3>2, OneHolder, LockedClaim
    <3>4. SameAbout(store, store', proc[x].claim)
      BY <3>1, <3>3 DEF CallDoes, SameAbout, ClaimUrl
    <3> QED
      BY <2>0, <3>4, MadeElsewhere
  <2> QED
    BY <2>1, <2>2, <2>3
<1>4. Making(store', q)
  <2>1. CASE q.pc \in {"write", "finish"}
    BY <1>2, <2>1 DEF PlanFits
  <2>2. CASE q.pc \notin {"write", "finish"}
    BY <2>2 DEF Making
  <2> QED
    BY <2>1, <2>2
<1>5. \A x \in Proc : Making(store', proc'[x])
  <2> SUFFICES ASSUME NEW x \in Proc PROVE Making(store', proc'[x])
    OBVIOUS
  <2>1. CASE x = p
    BY <1>1, <1>4, <2>1
  <2>2. CASE x # p
    <3>1. Making(store', proc[x]) /\ proc'[x] = proc[x]
      BY <1>1, <1>3, <2>2
    <3> QED
      BY <3>1
  <2> QED
    BY <2>1, <2>2
<1>6. MadeInv'
  <2>1. \A x \in Proc : Making(store, proc[x])'
    BY <1>2, <1>5, MadeAfter
  <2> QED
    BY <2>1 DEF MadeInv
<1>7. ASSUME NEW x \in Proc, proc'[x].pc \in {"write", "finish"}
      PROVE  /\ workload.late \/ proc'[x].keywords = metadata[UrlOf(proc'[x].claim)]
             /\ proc'[x].keywords \in Versions(UrlOf(proc'[x].claim))
  <2>1. CASE x = p
    BY <1>1, <1>2, <1>7, <2>1 DEF PlanFits
  <2>2. CASE x # p
    BY <1>1, <1>7, <2>2 DEF KeywordsCurrent, MetadataInv, ClaimUrl
  <2> QED
    BY <2>1, <2>2
<1>8. KeywordsCurrent'
  BY <1>2, <1>7 DEF KeywordsCurrent, ClaimUrl, UrlOf
<1>9. MetadataInv'
  <2>1. \A u \in Url : Versions(u)' = Versions(u)
    BY <1>2 DEF Versions, UrlOf
  <2>2. \A x \in Proc : proc'[x].pc \in {"write", "finish"} =>
                           proc'[x].keywords \in Versions(ClaimUrl(x))'
    BY <1>2, <1>7 DEF Versions, ClaimUrl, UrlOf
  <2>3. /\ \A u \in Url : metadata[u] \in Versions(u)
        /\ \A m \in lateMetadata : workload.late /\ m[1] \in Url /\ m[2] \in Versions(m[1])
    BY DEF MetadataInv
  <2>4. \A m \in lateMetadata : m[2] \in Versions(m[1])'
    BY <1>2, <2>3 DEF Versions, UrlOf
  <2>5. \A u \in Url : metadata'[u] \in Versions(u)'
    BY <1>2, <2>1, <2>3
  <2> QED
    BY <1>2, <2>2, <2>3, <2>4, <2>5 DEF MetadataInv
<1> QED
  BY <1>6, <1>8, <1>9

\* Such a step keeps the invariant.
LEMMA SoundKeeps ==
    ASSUME Inv, NEW p \in Proc, NEW q, Sound(p, q)
    PROVE  Inv'
<1>1. /\ TypeOK /\ StoreOK /\ LineInv /\ ProcInv /\ ClaimInv /\ LockInv
      /\ StampInv /\ LateInv /\ LateStamps /\ MetadataInv /\ KeywordsCurrent /\ MadeInv
  BY DEF Inv
<1>2. /\ Becomes(p, q) /\ QueueEffect(p) /\ Stores(p) /\ canonical' \in [Url -> LockDoc]
      /\ arrived' = arrived /\ workload' = workload /\ metadata' = metadata
  BY DEF Sound, LocksFit, LocksKept
<1>3. Lined' /\ OwnerMoves(p)
  BY <1>1, <1>2, EffectKeeps DEF OwnerMoves
<1>4. ProcInv' /\ ClaimInv' /\ LockInv'
  BY <1>1, <1>3, StepKeeps
<1>5. StoreOK' /\ LateInv' /\ LateStamps'
  <2>1. epoch' \in {epoch, epoch + 1}
    BY <1>3 DEF OwnerMoves
  <2> QED
    BY <1>1, <1>2, <2>1, StoreKeeps, LateKeeps
<1>6. StampInv'
  BY <1>1, StampKeeps
<1>7. MadeInv' /\ MetadataInv' /\ KeywordsCurrent'
  BY <1>1, MadeKeeps
<1>8. TypeOK' /\ LineInv'
  <2>1. proc' \in [Proc -> ProcRecord]
    BY <1>1, <1>2, BecomesFields
  <2>2. /\ workload' \in Workloads /\ arrived' \in 0..Len(workload'.pubs)
        /\ metadata' \in [Url -> Source]
    BY <1>1, <1>2 DEF TypeOK
  <2> QED
    BY <1>2, <1>3, <2>1, <2>2 DEF TypeOK, Lined
<1> QED
  BY <1>4, <1>5, <1>6, <1>7, <1>8 DEF Inv
-----------------------------------------------------------------------------
(* The steps of a process, one by one. *)

\* What the invariant says of one process.
LEMMA AboutProcess ==
    ASSUME Inv, NEW p \in Proc
    PROVE  /\ proc[p] \in ProcRecord /\ proc[p].pc \in PcNames
           /\ proc[p].epoch \in Nat /\ proc[p].claim \in Nat /\ epoch \in Nat
           /\ proc[p].epoch = 0 <=> proc[p].pc \in Places0
           /\ OwnClaims(owner, epoch, processing, proc[p].epoch, proc[p].pc,
                        proc[p].claim, proc[p].outcome)
           /\ proc[p].pc \in Places0 => proc[p].claim = 0
           /\ proc[p].pc \in Busy \cup {"unlock", "release"} => proc[p].claim # 0
           /\ proc[p].pc \in Locked => /\ canonical[ClaimUrl(p)] = Mine(p)
                                       /\ ClaimUrl(p) \in Url
                                       /\ proc[p].claim \in 1..arrived
<1>1. TypeOK /\ ProcInv /\ ClaimInv /\ LockInv
  BY DEF Inv
<1>2. epoch \in Nat
  BY <1>1 DEF TypeOK
<1>3. proc[p].pc \in Locked => ClaimUrl(p) \in Url /\ proc[p].claim \in 1..arrived
  BY <1>1, LockedClaim
<1> QED
  BY <1>1, <1>2, <1>3, Fields DEF ProcInv, ClaimInv, LockInv

\* Nothing but the queue, the locks and the store may change.
Aside == UNCHANGED <<arrived, workload, metadata, lateMetadata>>

\* What a jump leaves alone.
Alike(q, r) == /\ q.epoch = r.epoch /\ q.claim = r.claim /\ q.todo = r.todo
               /\ q.keywords = r.keywords /\ q.outcome = r.outcome

\* A jump changes the place only.
LEMMA GotoBecomes ==
    ASSUME TypeOK, NEW p \in Proc, NEW l \in PcNames, Goto(p, l)
    PROVE  \E q : Becomes(p, q) /\ q.pc = l /\ Alike(q, proc[p])
<1> DEFINE r == proc[p]
           q == [r EXCEPT !.pc = l]
<1>1. r \in ProcRecord /\ proc' = [proc EXCEPT ![p] = q]
  BY Fields DEF Goto
<1> HIDE DEF r
<1>2. q \in ProcRecord
  BY <1>1 DEF ProcRecord
<1>3. q.pc = l /\ Alike(q, r)
  BY <1>1 DEF ProcRecord, Alike
<1> HIDE DEF q
<1>4. Becomes(p, q)
  BY <1>1, <1>2 DEF Becomes
<1> QED
  BY <1>3, <1>4 DEF r

\* The end of an attempt.
LEMMA FinishedBecomes ==
    ASSUME TypeOK, NEW p \in Proc, NEW res \in Outcomes, Finished(p, res)
    PROVE  \E q : /\ Becomes(p, q) /\ q.pc = "unlock" /\ q.outcome = res
                  /\ q.epoch = proc[p].epoch /\ q.claim = proc[p].claim
<1> DEFINE r == proc[p]
           q == [r EXCEPT !.pc = "unlock", !.outcome = res, !.todo = <<>>]
<1>1. r \in ProcRecord /\ proc' = [proc EXCEPT ![p] = q]
  BY Fields DEF Finished
<1>2. "unlock" \in PcNames /\ <<>> \in Seq(Call)
  BY DEF PcNames
<1> HIDE DEF r
<1>3. q \in ProcRecord
  BY <1>1, <1>2 DEF ProcRecord
<1>4. q.pc = "unlock" /\ q.outcome = res /\ q.epoch = r.epoch /\ q.claim = r.claim
  BY <1>1 DEF ProcRecord
<1> HIDE DEF q
<1>5. Becomes(p, q)
  BY <1>1, <1>3 DEF Becomes
<1> QED
  BY <1>4, <1>5 DEF r

\* Words of no metadata have a source.
LEMMA ZeroSource == 0 \in Source
BY ManifestAssumption DEF Source

\* Locks that do not change are kept.
LEMMA SameLocks ==
    ASSUME TypeOK, NEW p \in Proc, canonical' = canonical
    PROVE  LocksKept(p)
BY DEF TypeOK, LocksKept

\* The end of a process keeps the invariant, whatever it does to the owner lock.
LEMMA StopKeeps ==
    ASSUME Inv, NEW p \in Proc, proc' = [proc EXCEPT ![p] = Stopped], Aside,
           UNCHANGED <<canonical, store, late>>,
           Unmoved \/ Queue!AcquireLock \/ Queue!DropLock(proc[p].epoch)
    PROVE  Inv'
<1>1. Stopped \in ProcRecord /\ Stopped.pc = "down" /\ Stopped.epoch = 0 /\ Stopped.claim = 0
  <2>1. "down" \in PcNames /\ "none" \in Outcomes /\ <<>> \in Seq(Call)
    BY DEF PcNames, Places0, Outcomes
  <2> QED
    BY <2>1, ZeroSource DEF Stopped, ProcRecord
<1>2. "down" \in Places0 /\ "down" \notin Busy \cup {"unlock", "release"} /\ "down" \notin Locked
      /\ "down" \notin {"write", "finish"} /\ "down" \notin Working
  BY DEF Places0, Busy, Locked, Working
<1>3. Becomes(p, Stopped) /\ QueueEffect(p) /\ LocksKept(p) /\ Stores(p)
  BY <1>1, SameLocks DEF Becomes, QueueEffect, Stores, Inv
<1>4. /\ EpochFits(p, Stopped) /\ ClaimFits(p, Stopped) /\ LocksFit(p, Stopped)
      /\ LateFits(p, Stopped) /\ AttemptFits(p, Stopped) /\ PlanFits(Stopped)
  BY <1>1, <1>2, <1>3
     DEF EpochFits, ClaimFits, LocksFit, LateFits, AttemptFits, PlanFits, OwnClaims
<1>5. Sound(p, Stopped)
  BY <1>3, <1>4 DEF Sound, Aside
<1> QED
  BY <1>5, SoundKeeps

\* A process that only jumps, to a place where no claim is promised.
LEMMA JumpKeeps ==
    ASSUME Inv, NEW p \in Proc, proc[p].pc \notin Places0,
           NEW l \in {"exit", "release", "recover", "loop"}, Goto(p, l),
           l = "release" => proc[p].pc \in Busy,
           l = "loop" => processing' = <<>>,
           l \in {"recover", "loop"} => ~Failing(proc[p]),
           QueueEffect(p), LocksKept(p), UNCHANGED <<store, late>>, Aside
    PROVE  Inv'
<1>1. /\ l \in PcNames /\ l \notin Places0 \cup Busy \cup Locked \cup Working /\ l # "unlock"
      /\ l \notin {"write", "finish"}
  BY DEF PcNames, Places0, Busy, Locked, Working
<1>2. PICK q : Becomes(p, q) /\ q.pc = l /\ Alike(q, proc[p])
  BY <1>1, GotoBecomes DEF Inv
<1>3. q.epoch = proc[p].epoch /\ q.claim = proc[p].claim
  BY <1>2 DEF Alike
<1>4. l = "release" => proc[p].claim # 0
  BY AboutProcess
<1>5. /\ EpochFits(p, q) /\ ClaimFits(p, q) /\ LocksFit(p, q) /\ PlanFits(q) /\ Stores(p)
      /\ LateFits(p, q) /\ AttemptFits(p, q)
  BY <1>1, <1>2, <1>3, <1>4
     DEF EpochFits, ClaimFits, LocksFit, PlanFits, OwnClaims, Stores, LateFits, AttemptFits,
         Failing
<1>6. Sound(p, q)
  BY <1>2, <1>5 DEF Sound, Aside
<1> QED
  BY <1>6, SoundKeeps

\* An attempt that ends keeps the lock of its URL until the release.
LEMMA FinishedKeeps ==
    ASSUME Inv, NEW p \in Proc, proc[p].pc \in Working,
           NEW res \in Outcomes, Finished(p, res), QueueEffect(p),
           res # "failed" => processing' = <<>>,
           canonical' = canonical, Stores(p), Aside,
           \/ late' = late
           \/ /\ proc[p].pc = "write" /\ workload.late /\ store' = store /\ res = "failed"
              /\ late' = late \cup {OpOf(p)}
    PROVE  Inv'
<1>1. /\ proc[p].pc \in Locked /\ proc[p].pc \in Busy /\ proc[p].pc \notin Places0
      /\ proc[p].pc \notin {"release", "exit", "unlock"}
  BY DEF Locked, Working, Busy, Places0
<1>2. PICK q : /\ Becomes(p, q) /\ q.pc = "unlock" /\ q.outcome = res
               /\ q.epoch = proc[p].epoch /\ q.claim = proc[p].claim
  BY FinishedBecomes DEF Inv
<1>3. canonical'[UrlOf(q.claim)] = [service |-> "image", pub |-> q.claim, epoch |-> q.epoch]
  BY <1>1, <1>2, AboutProcess DEF ClaimUrl, Mine
<1>4. LocksFit(p, q)
  BY <1>3, SameLocks DEF LocksFit, Inv
<1>5. proc[p].claim # 0
  BY <1>1, AboutProcess
<1>6. "unlock" \notin Places0 \cup Busy \cup Working
  BY DEF Places0, Busy, Working
<1>7. EpochFits(p, q) /\ ClaimFits(p, q) /\ PlanFits(q) /\ LateFits(p, q) /\ AttemptFits(p, q)
  BY <1>1, <1>2, <1>5, <1>6
     DEF EpochFits, ClaimFits, PlanFits, OwnClaims, LateFits, AttemptFits, Failing
<1>8. Sound(p, q)
  BY <1>2, <1>4, <1>7 DEF Sound, Aside
<1> QED
  BY <1>8, SoundKeeps

\* A process that goes on with its attempt, with the lock of its URL.
LEMMA OnKeeps ==
    ASSUME Inv, NEW p \in Proc, proc[p].pc \in Busy,
           NEW l \in {"load", "keywords"}, Goto(p, l), Unmoved, LocksKept(p),
           canonical'[ClaimUrl(p)] = Mine(p), UNCHANGED <<store, late>>, Aside,
           proc[p].pc \in Working \/ Owner(p)
    PROVE  Inv'
<1>1. /\ proc[p].pc \notin Places0 /\ l \in PcNames /\ l \notin Places0 /\ l \in Busy
      /\ l \notin {"write", "finish", "loop", "unlock"}
      /\ proc[p].pc \notin {"loop", "unlock", "release", "exit"}
  BY DEF Busy, Places0, PcNames
<1>2. PICK q : Becomes(p, q) /\ q.pc = l /\ Alike(q, proc[p])
  BY <1>1, GotoBecomes DEF Inv
<1>3. q.epoch = proc[p].epoch /\ q.claim = proc[p].claim
  BY <1>2 DEF Alike
<1>4. OwnClaims(owner', epoch', processing', q.epoch, q.pc, q.claim, q.outcome)
  <2>1. OwnClaims(owner, epoch, processing, proc[p].epoch, proc[p].pc, proc[p].claim,
                  proc[p].outcome)
    BY AboutProcess
  <2>2. UNCHANGED <<owner, epoch, processing>>
    BY DEF Unmoved, queueVars
  <2> QED
    BY <1>1, <1>2, <1>3, <2>1, <2>2 DEF OwnClaims
<1>5. proc[p].claim # 0
  BY AboutProcess
<1>6. LocksFit(p, q)
  BY <1>3 DEF LocksFit, ClaimUrl, Mine
<1>7. /\ EpochFits(p, q) /\ ClaimFits(p, q) /\ PlanFits(q) /\ Stores(p) /\ QueueEffect(p)
      /\ LateFits(p, q) /\ AttemptFits(p, q)
  BY <1>1, <1>2, <1>3, <1>4, <1>5
     DEF EpochFits, ClaimFits, PlanFits, Stores, QueueEffect, LateFits, AttemptFits, Failing
<1>8. Sound(p, q)
  BY <1>2, <1>6, <1>7 DEF Sound, Aside
<1> QED
  BY <1>8, SoundKeeps

\* The supervisor starts, stops or loses a process.
LEMMA SupervisorKeeps ==
    ASSUME Inv, NEW p \in Proc, Start(p) \/ Terminate(p) \/ Crash(p)
    PROVE  Inv'
<1> DEFINE r == proc[p]
<1>0. /\ r \in ProcRecord /\ r.epoch \in Nat
      /\ r.epoch = 0 <=> r.pc \in Places0
      /\ r.pc \in Places0 => r.claim = 0
      /\ r.pc \in Busy \cup {"unlock", "release"} => r.claim # 0
  BY AboutProcess
<1>1. Unmoved /\ Aside /\ UNCHANGED <<canonical, store, late>>
  BY DEF Start, Terminate, Crash, Unmoved, pageVars, mongoVars, Aside
<1>2. QueueEffect(p) /\ LocksKept(p) /\ Stores(p)
  BY <1>1, SameLocks DEF QueueEffect, Stores, Inv
<1>3. CASE Start(p)
  <2>1. Goto(p, "acquire") /\ "acquire" \in PcNames /\ r.epoch = 0 /\ r.claim = 0
    <3>1. r.pc \in Places0
      BY <1>3 DEF Start, Places0
    <3>2. Goto(p, "acquire") /\ "acquire" \in PcNames
      BY <1>3 DEF Start, PcNames, Places0
    <3> HIDE DEF r
    <3> QED
      BY <1>0, <3>1, <3>2
  <2>2. PICK q : Becomes(p, q) /\ q.pc = "acquire" /\ Alike(q, proc[p])
    BY <2>1, GotoBecomes DEF Inv
  <2>3. q.epoch = 0 /\ q.claim = 0
    BY <2>1, <2>2 DEF Alike
  <2>4. /\ "acquire" \in Places0 /\ "acquire" \notin Busy \cup {"unlock", "release"}
        /\ "acquire" \notin Locked \cup Working /\ "acquire" \notin {"write", "finish"}
    BY DEF Places0, Busy, Locked, Working
  <2>5. /\ EpochFits(p, q) /\ ClaimFits(p, q) /\ LocksFit(p, q) /\ PlanFits(q)
        /\ LateFits(p, q) /\ AttemptFits(p, q)
    BY <1>1, <1>2, <2>2, <2>3, <2>4
       DEF EpochFits, ClaimFits, LocksFit, PlanFits, OwnClaims, LateFits, AttemptFits
  <2>6. Sound(p, q)
    BY <1>1, <1>2, <2>2, <2>5 DEF Sound, Aside
  <2> QED
    BY <2>6, SoundKeeps
<1>4. CASE Terminate(p)
  <2> DEFINE q == [r EXCEPT !.running = FALSE]
  <2>1. proc' = [proc EXCEPT ![p] = q]
    BY <1>4 DEF Terminate
  <2> HIDE DEF r
  <2>2. q \in ProcRecord
    BY <1>0 DEF ProcRecord
  <2>3. q.pc = r.pc /\ Alike(q, r)
    BY <1>0 DEF ProcRecord, Alike
  <2> HIDE DEF q
  <2>4. /\ q.epoch = r.epoch /\ q.claim = r.claim /\ q.outcome = r.outcome
        /\ q.todo = r.todo /\ q.keywords = r.keywords
    BY <2>3 DEF Alike
  <2>5. OwnClaims(owner', epoch', processing', q.epoch, q.pc, q.claim, q.outcome)
    <3>1. OwnClaims(owner, epoch, processing, r.epoch, r.pc, r.claim, r.outcome)
      BY AboutProcess DEF r
    <3>2. UNCHANGED <<owner, epoch, processing>>
      BY <1>1 DEF Unmoved, queueVars
    <3> QED
      BY <2>3, <2>4, <3>1, <3>2
  <2>6. LocksFit(p, q)
    <3>1. r.pc \in Locked => canonical[UrlOf(r.claim)] =
                                 [service |-> "image", pub |-> r.claim, epoch |-> r.epoch]
      BY AboutProcess DEF ClaimUrl, Mine, r
    <3> QED
      BY <1>1, <1>2, <2>3, <2>4, <3>1 DEF LocksFit
  <2>7. PlanFits(q)
    <3>1. /\ Making(store, r)
          /\ r.pc \in {"write", "finish"} =>
                /\ workload.late \/ r.keywords = metadata[UrlOf(r.claim)]
                /\ r.keywords \in Versions(UrlOf(r.claim))
      BY DEF Inv, MadeInv, MetadataInv, KeywordsCurrent, ClaimUrl, r
    <3>2. Making(store', q)
      BY <1>1, <2>3, <2>4, <3>1 DEF Making, Progress
    <3> QED
      BY <2>3, <2>4, <3>1, <3>2 DEF PlanFits
  <2>8. EpochFits(p, q) /\ ClaimFits(p, q) /\ LateFits(p, q) /\ AttemptFits(p, q)
    BY <1>0, <1>1, <2>3, <2>4, <2>5
       DEF EpochFits, ClaimFits, LateFits, AttemptFits, Failing, r
  <2>9. Sound(p, q)
    BY <1>1, <1>2, <2>1, <2>2, <2>6, <2>7, <2>8 DEF Sound, Becomes, Aside
  <2> QED
    BY <2>9, SoundKeeps
<1>5. CASE Crash(p)
  <2>1. proc' = [proc EXCEPT ![p] = Stopped]
    BY <1>5 DEF Crash
  <2> QED
    BY <1>1, <2>1, StopKeeps
<1> QED
  BY <1>3, <1>4, <1>5

\* The acquisition of the owner lock.
LEMMA AcquireKeeps ==
    ASSUME Inv, NEW p \in Proc, AcquireOwner(p)
    PROVE  Inv'
<1> DEFINE r == proc[p]
<1>0. /\ Aside /\ UNCHANGED <<canonical, store, late>> /\ r \in ProcRecord /\ epoch \in Nat
      /\ r.claim = 0 /\ r.pc = "acquire"
  BY AboutProcess DEF AcquireOwner, Rest, pageVars, mongoVars, Aside, Places0
<1>1. CASE Queue!AcquireLock /\ proc' = [proc EXCEPT ![p].pc = "recover", ![p].epoch = epoch + 1]
  <2> DEFINE q == [r EXCEPT !.pc = "recover", !.epoch = epoch + 1]
  <2>1. proc' = [proc EXCEPT ![p] = q]
    BY <1>1
  <2>2. "recover" \in PcNames /\ epoch + 1 \in Nat
    BY <1>0 DEF PcNames
  <2> HIDE DEF r
  <2>3. q \in ProcRecord
    BY <1>0, <2>2 DEF ProcRecord
  <2>4. q.pc = "recover" /\ q.epoch = epoch + 1 /\ q.claim = 0
    BY <1>0 DEF ProcRecord
  <2> HIDE DEF q
  <2>5. epoch' = epoch + 1
    BY <1>1 DEF Queue!AcquireLock
  <2>6. "recover" \notin Places0 \cup Busy \cup Locked \cup Working
        /\ "recover" \notin {"unlock", "release"}
        /\ "recover" \notin {"write", "finish"}
    BY DEF Places0, Busy, Locked, Working
  <2>7. QueueEffect(p) /\ LocksKept(p) /\ Stores(p)
    BY <1>0, <1>1, SameLocks DEF QueueEffect, Stores, Inv
  <2>8. /\ EpochFits(p, q) /\ ClaimFits(p, q) /\ LocksFit(p, q) /\ PlanFits(q)
        /\ LateFits(p, q) /\ AttemptFits(p, q)
    BY <1>0, <2>4, <2>5, <2>6, <2>7
       DEF EpochFits, ClaimFits, LocksFit, PlanFits, OwnClaims, LateFits, AttemptFits, Failing, r
  <2>9. Sound(p, q)
    BY <1>0, <2>1, <2>3, <2>7, <2>8 DEF Sound, Becomes, Aside
  <2> QED
    BY <2>9, SoundKeeps
<1>2. CASE proc' = [proc EXCEPT ![p] = Stopped] /\ (Unmoved \/ Queue!AcquireLock)
  BY <1>0, <1>2, StopKeeps
<1> QED
  BY <1>1, <1>2 DEF AcquireOwner

\* Recovery gives back the claim that is left.
LEMMA RecoverKeeps ==
    ASSUME Inv, NEW p \in Proc, RecoverClaims(p)
    PROVE  Inv'
<1>1. /\ Aside /\ UNCHANGED <<store, late>> /\ proc[p].pc = "recover" /\ proc[p].pc \notin Places0
      /\ ~Failing(proc[p])
  BY DEF RecoverClaims, Rest, pageVars, mongoVars, Aside, Places0, Failing
<1>2. LocksKept(p)
  BY SameLocks DEF RecoverClaims, mongoVars, Inv
<1>3. CASE /\ Queue!RecoverScript(proc[p].epoch)
           /\ Goto(p, IF Len(processing) < RecoverBatch THEN "loop" ELSE "recover")
  <2>1. Len(processing) <= 1 /\ TypeOK
    BY DEF Inv, LineInv
  <2>2. processing' = <<>>
    BY <1>3, <2>1, RecoverMoves
  <2>3. QueueEffect(p)
    BY <1>3 DEF QueueEffect
  <2>4. CASE Goto(p, "loop")
    BY <1>1, <1>2, <2>2, <2>3, <2>4, JumpKeeps
  <2>5. CASE Goto(p, "recover")
    BY <1>1, <1>2, <2>3, <2>5, JumpKeeps
  <2> QED
    BY <1>3, <2>4, <2>5
<1>4. CASE Goto(p, "exit") /\ (Unmoved \/ Queue!RecoverScript(proc[p].epoch))
  <2>1. QueueEffect(p)
    BY <1>4 DEF QueueEffect
  <2> QED
    BY <1>1, <1>2, <1>4, <2>1, JumpKeeps
<1> QED
  BY <1>3, <1>4 DEF RecoverClaims, Quit

\* The owner claims when no claim is left.
LEMMA ClaimKeepsInv ==
    ASSUME Inv, NEW p \in Proc, ClaimManifest(p)
    PROVE  Inv'
<1> DEFINE r == proc[p]
<1>1. /\ Aside /\ UNCHANGED <<canonical, store, late>> /\ r.pc = "loop" /\ r.pc \notin Places0
      /\ r \in ProcRecord
  BY AboutProcess DEF ClaimManifest, Rest, pageVars, mongoVars, Aside, Places0
<1>2. LocksKept(p) /\ TypeOK /\ LineInv
  BY <1>1, SameLocks DEF Inv
<1>3. Queue!ClaimScript(r.epoch) => processing = <<>>
  <2> SUFFICES ASSUME Queue!ClaimScript(r.epoch) PROVE processing = <<>>
    OBVIOUS
  <2>1. r.epoch # 0 /\ owner = r.epoch /\ epoch = r.epoch
    <3>1. Queue!Holds(r.epoch)
      BY DEF Queue!ClaimScript
    <3> QED
      BY <3>1 DEF Queue!Holds
  <2> QED
    BY <1>1, <2>1, AboutProcess DEF OwnClaims
<1>4. CASE /\ Queue!ClaimScript(r.epoch)
           /\ proc' = [proc EXCEPT ![p].pc = "claimed", ![p].claim = Last(queue)]
  <2> DEFINE c == Last(queue)
             q == [r EXCEPT !.pc = "claimed", !.claim = c]
  <2>1. proc' = [proc EXCEPT ![p] = q]
    BY <1>4
  <2>2. c \in 1..arrived /\ processing' = <<c>>
    BY <1>2, <1>3, <1>4, ClaimMoves
  <2>3. "claimed" \in PcNames /\ c \in Nat /\ c # 0
    <3>1. arrived \in Nat
      BY <1>2, PubFields, ManifestAssumption
    <3> QED
      BY <2>2, <3>1 DEF PcNames, Busy
  <2>4. QueueEffect(p) /\ Stores(p)
    BY <1>1, <1>3, <1>4 DEF QueueEffect, Stores
  <2>5. Queue!ClaimScript(r.epoch) /\ processing = <<>> /\ c = Last(queue)
    BY <1>3, <1>4
  <2> HIDE DEF c, r
  <2>6. q \in ProcRecord
    BY <1>1, <2>3 DEF ProcRecord
  <2>7. q.pc = "claimed" /\ q.epoch = r.epoch /\ q.claim = c
    BY <1>1 DEF ProcRecord
  <2> HIDE DEF q
  <2>8. /\ "claimed" \in Busy /\ "claimed" \notin Places0 \cup Locked \cup Working
        /\ "claimed" \notin {"write", "finish", "loop", "unlock"}
    BY DEF Places0, Busy, Locked, Working
  <2>9. ClaimFits(p, q)
    BY <1>1, <2>2, <2>3, <2>5, <2>7, <2>8 DEF ClaimFits, OwnClaims, r
  <2>10. EpochFits(p, q) /\ LocksFit(p, q) /\ PlanFits(q) /\ LateFits(p, q) /\ AttemptFits(p, q)
    BY <1>1, <1>2, <2>7, <2>8
       DEF EpochFits, LocksFit, PlanFits, LateFits, AttemptFits, Failing, r
  <2>11. Sound(p, q)
    BY <1>1, <2>1, <2>4, <2>6, <2>9, <2>10 DEF Sound, Becomes, Aside
  <2> QED
    BY <2>11, SoundKeeps
<1>5. CASE Goto(p, "exit") /\ (Unmoved \/ Queue!ClaimScript(proc[p].epoch))
  <2>1. QueueEffect(p)
    BY <1>3, <1>5 DEF QueueEffect
  <2> QED
    BY <1>1, <1>2, <1>5, <2>1, JumpKeeps
<1> QED
  BY <1>4, <1>5 DEF ClaimManifest, Quit

\* A stopped process leaves its claim.
LEMMA LeaveKeeps ==
    ASSUME Inv, NEW p \in Proc, LeaveClaim(p)
    PROVE  Inv'
<1>1. /\ Aside /\ UNCHANGED <<store, late>> /\ canonical' = canonical /\ Unmoved
      /\ Goto(p, "exit") /\ proc[p].pc \notin Places0
  BY DEF LeaveClaim, Rest, pageVars, mongoVars, Aside, Places0, Quit
<1>2. LocksKept(p) /\ QueueEffect(p)
  BY <1>1, SameLocks DEF Inv, QueueEffect
<1> QED
  BY <1>1, <1>2, JumpKeeps

\* A key that names no publication goes to the dead letters, or back.
LEMMA QuarantineInvalidKeeps ==
    ASSUME Inv, NEW p \in Proc, QuarantineInvalid(p)
    PROVE  Inv'
<1> DEFINE r == proc[p]
           Quarantine == Queue!QuarantineScript(r.epoch, r.claim)
<1>1. /\ Aside /\ UNCHANGED <<canonical, store, late>> /\ r.pc = "claimed" /\ r.pc \in Busy
      /\ r.pc \notin Places0 /\ r \in ProcRecord
  BY AboutProcess DEF QuarantineInvalid, Rest, pageVars, mongoVars, Aside, Places0, Busy
<1>2. LocksKept(p) /\ TypeOK /\ LineInv
  BY <1>1, SameLocks DEF Inv
<1>3. CASE Quarantine /\ proc' = [proc EXCEPT ![p].pc = "loop", ![p].claim = 0]
  <2> DEFINE q == [r EXCEPT !.pc = "loop", !.claim = 0]
  <2>1. proc' = [proc EXCEPT ![p] = q]
    BY <1>3
  <2>2. processing' = <<>>
    <3>1. arrived' = arrived
      BY <1>1 DEF Aside
    <3> QED
      BY <1>2, <1>3, <3>1, EndKeeps
  <2>3. QueueEffect(p) /\ Stores(p)
    BY <1>1, <1>3 DEF QueueEffect, Stores
  <2> HIDE DEF r
  <2>4. q \in ProcRecord /\ q.pc = "loop" /\ q.epoch = r.epoch /\ q.claim = 0
    BY <1>1 DEF ProcRecord, PcNames
  <2> HIDE DEF q
  <2>5. /\ "loop" \notin Places0 \cup Locked \cup Busy \cup Working
        /\ "loop" \notin {"write", "finish", "unlock", "release"}
    BY DEF Places0, Busy, Locked, Working
  <2>6. /\ EpochFits(p, q) /\ ClaimFits(p, q) /\ LocksFit(p, q) /\ PlanFits(q)
        /\ LateFits(p, q) /\ AttemptFits(p, q)
    BY <1>1, <1>2, <2>2, <2>4, <2>5
       DEF EpochFits, ClaimFits, LocksFit, PlanFits, OwnClaims, LateFits, AttemptFits, Failing, r
  <2>7. Sound(p, q)
    BY <1>1, <2>1, <2>3, <2>4, <2>6 DEF Sound, Becomes, Aside
  <2> QED
    BY <2>7, SoundKeeps
<1>4. CASE Goto(p, "release") /\ (Unmoved \/ Quarantine)
  <2>1. QueueEffect(p)
    BY <1>4 DEF QueueEffect
  <2> QED
    BY <1>1, <1>2, <1>4, <2>1, JumpKeeps
<1> QED
  BY <1>3, <1>4 DEF QuarantineInvalid

\* The canonical lock is taken only when it is free.
LEMMA AcquireCanonicalKeeps ==
    ASSUME Inv, NEW p \in Proc, AcquireCanonical(p)
    PROVE  Inv'
<1> DEFINE u == ClaimUrl(p)
           Insert == canonical[u] = Free /\ canonical' = [canonical EXCEPT ![u] = Mine(p)]
<1>1. /\ Aside /\ UNCHANGED <<store, late>> /\ proc[p].pc = "claimed" /\ proc[p].pc \in Busy
      /\ proc[p].pc \notin Places0 /\ Unmoved
  BY DEF AcquireCanonical, Rest, pageVars, mongoVars, Aside, Places0, Busy
<1>2. TypeOK /\ ProcInv
  BY DEF Inv
<1>3. u \in Url /\ Mine(p) \in LockDoc
  <2>1. proc[p].claim \in 0..arrived /\ proc[p].claim # 0
    BY <1>1, <1>2 DEF ProcInv
  <2>2. arrived \in Nat
    BY <1>2, PubFields, ManifestAssumption
  <2>3. proc[p].claim \in 1..arrived
    BY <2>1, <2>2
  <2>4. proc[p].claim \in Nat /\ proc[p].epoch \in Nat
    BY AboutProcess
  <2> QED
    BY <1>2, <2>3, <2>4, PubFields DEF ClaimUrl, Mine, LockDoc
<1>4. Insert => LocksKept(p) /\ canonical'[u] = Mine(p)
  BY <1>2, <1>3 DEF TypeOK, LocksKept
<1>5. canonical' = canonical => LocksKept(p)
  BY <1>2, SameLocks
<1>6. QueueEffect(p)
  BY <1>1 DEF QueueEffect
<1>7. CASE Owner(p) /\ Insert /\ Goto(p, "load")
  BY <1>1, <1>4, <1>7, OnKeeps
<1>8. CASE Goto(p, "release") /\ (canonical' = canonical \/ Insert)
  BY <1>1, <1>4, <1>5, <1>6, <1>8, JumpKeeps
<1> QED
  BY <1>7, <1>8 DEF AcquireCanonical

\* Corrupt work is quarantined; good work is read.
LEMMA LoadKeeps ==
    ASSUME Inv, NEW p \in Proc, LoadWork(p)
    PROVE  Inv'
<1> DEFINE v == proc[p].claim
           Quarantine == Queue!QuarantineScript(proc[p].epoch, v)
<1>1. /\ Aside /\ UNCHANGED <<canonical, store, late>> /\ proc[p].pc = "load" /\ proc[p].pc \in Busy
      /\ proc[p].pc \in Locked /\ proc[p].pc \in Working
  BY DEF LoadWork, Rest, pageVars, mongoVars, Aside, Locked, Working, Busy
<1>2. LocksKept(p) /\ Stores(p) /\ TypeOK /\ LineInv
  BY <1>1, SameLocks DEF Inv, Stores
<1>3. Unmoved \/ Quarantine => QueueEffect(p)
  BY DEF QueueEffect
<1>4. Quarantine => processing' = <<>>
  <2>1. arrived' = arrived
    BY <1>1 DEF Aside
  <2> QED
    BY <1>2, <2>1, EndKeeps
<1>5. CASE Quarantine /\ Finished(p, "dead")
  <2>1. "dead" \in Outcomes
    BY DEF Outcomes
  <2> QED
    BY <1>1, <1>2, <1>3, <1>4, <1>5, <2>1, FinishedKeeps
<1>6. CASE (Unmoved \/ Quarantine) /\ Finished(p, "failed")
  <2>1. "failed" \in Outcomes
    BY DEF Outcomes
  <2> QED
    BY <1>1, <1>2, <1>3, <1>6, <2>1, FinishedKeeps
<1>7. CASE Goto(p, "keywords") /\ Unmoved
  <2>1. canonical'[ClaimUrl(p)] = Mine(p)
    BY <1>1, AboutProcess
  <2> QED
    BY <1>1, <1>2, <1>7, <2>1, OnKeeps
<1> QED
  BY <1>5, <1>6, <1>7 DEF LoadWork

\* A sequence from its first element on.
LEMMA WholeSequence ==
    ASSUME NEW S, NEW s \in Seq(S)
    PROVE  s = SubSeq(s, 0 + 1, Len(s))
<1> DEFINE t == SubSeq(s, 1, Len(s))
           l == Len(s)
<1>1. l \in Nat
  OBVIOUS
<1>2. t \in Seq(S) /\ Len(t) = l /\ \A i \in 1..l : t[i] = s[i]
  BY <1>1
<1>3. t = s
  BY <1>2
<1> QED
  BY <1>3

\* The keywords are read under the lock, and the plan begins.
LEMMA KeywordsKeeps ==
    ASSUME Inv, NEW p \in Proc, GetKeywords(p)
    PROVE  Inv'
<1> DEFINE r == proc[p]
           v == proc[p].claim
<1>1. /\ Aside /\ UNCHANGED <<canonical, store, late>> /\ r.pc = "keywords" /\ r.pc \in Busy
      /\ r.pc \in Locked /\ r.pc \in Working /\ Unmoved
      /\ r.pc \notin Places0
  BY DEF GetKeywords, Rest, pageVars, mongoVars, Aside, Locked, Working, Busy, Places0
<1>2. LocksKept(p) /\ Stores(p) /\ TypeOK /\ QueueEffect(p)
  BY <1>1, SameLocks DEF Inv, Stores, QueueEffect
<1>3. CASE Finished(p, "failed")
  <2>1. "failed" \in Outcomes
    BY DEF Outcomes
  <2> QED
    BY <1>1, <1>2, <1>3, <2>1, FinishedKeeps
<1>4. CASE proc' = [proc EXCEPT ![p].pc = "write",
                                ![p].keywords = metadata[ClaimUrl(p)],
                                ![p].todo = ReplacePageImages(ImagesOf(proc[p].claim),
                                                             metadata[ClaimUrl(p)])]
  <2> DEFINE k == metadata[ClaimUrl(p)]
             P == PlanOf(v, k)
             q == [r EXCEPT !.pc = "write", !.keywords = k, !.todo = P]
  <2>1. proc' = [proc EXCEPT ![p] = q]
    BY <1>4 DEF PlanOf
  <2>2. /\ v \in 1..arrived /\ ClaimUrl(p) \in Url /\ v # 0
        /\ canonical[ClaimUrl(p)] = Mine(p) /\ r \in ProcRecord
    BY <1>1, AboutProcess
  <2>4. k \in Source /\ k = metadata[UrlOf(v)] /\ k \in Versions(UrlOf(v))
    BY <1>2, <2>2 DEF Inv, MetadataInv, TypeOK, ClaimUrl
  <2>3. P \in Seq(Call) /\ Len(P) \in Nat \ {0}
    <3>1. ImagesOf(v) \in Seq(Image)
      BY <1>2, <2>2, PubFields
    <3> HIDE DEF k
    <3> QED
      BY <2>4, <3>1, PlanFacts DEF PlanOf
  <2>5. "write" \in PcNames /\ "write" \in Busy /\ "write" \notin Places0
        /\ "write" \notin {"loop", "unlock"} /\ r.pc \notin {"unlock", "release", "exit"}
    BY <1>1 DEF PcNames, Busy, Places0
  <2>6. Aside
    BY <1>1
  <2> HIDE DEF P, k
  <2>7. /\ q \in ProcRecord /\ q.pc = "write" /\ q.epoch = r.epoch /\ q.claim = v
        /\ q.outcome = r.outcome /\ q.keywords = k /\ q.todo = P
    <3> HIDE DEF r
    <3>1. /\ q \in ProcRecord /\ q.pc = "write" /\ q.epoch = r.epoch /\ q.claim = r.claim
          /\ q.outcome = r.outcome /\ q.keywords = k /\ q.todo = P
      BY <2>2, <2>3, <2>4, <2>5 DEF ProcRecord
    <3> HIDE DEF q
    <3> QED
      BY <3>1 DEF r
  <2> HIDE DEF q
  <2>8. Making(store', q)
    <3>1. P = SubSeq(P, 0 + 1, Len(P)) /\ 0 < Len(P) /\ 0 \in Nat
      BY <2>3, WholeSequence
    <3>2. \A i \in 1..0 : Trace(store', q.claim, q.keywords, q.epoch, P[i])
      OBVIOUS
    <3>3. Progress(store', q, 0)
      BY <2>7, <3>1, <3>2 DEF Progress, P
    <3>4. q.pc # "finish" /\ P = PlanOf(q.claim, q.keywords)
      BY <2>7 DEF P
    <3> QED
      BY <3>1, <3>3, <3>4 DEF Making
  <2>9. PlanFits(q)
    BY <2>4, <2>7, <2>8 DEF PlanFits
  <2>10. OwnClaims(owner', epoch', processing', q.epoch, q.pc, q.claim, q.outcome)
    <3>1. OwnClaims(owner, epoch, processing, r.epoch, r.pc, v, r.outcome)
      BY AboutProcess
    <3>2. UNCHANGED <<owner, epoch, processing>>
      BY <1>1 DEF Unmoved, queueVars
    <3> QED
      BY <1>1, <2>5, <2>7, <3>1, <3>2 DEF OwnClaims
  <2>11. EpochFits(p, q) /\ ClaimFits(p, q) /\ LateFits(p, q) /\ AttemptFits(p, q)
    BY <1>1, <2>2, <2>5, <2>7, <2>10
       DEF EpochFits, ClaimFits, LateFits, AttemptFits, Failing
  <2>12. LocksFit(p, q)
    BY <1>1, <1>2, <2>2, <2>7 DEF LocksFit, ClaimUrl, Mine
  <2>13. Sound(p, q)
    BY <1>1, <1>2, <2>1, <2>7, <2>9, <2>11, <2>12 DEF Sound, Becomes, Aside
  <2> QED
    BY <2>13, SoundKeeps
<1> QED
  BY <1>3, <1>4 DEF GetKeywords

\* A write is one call of the plan; it goes on only while it owns the queue.
LEMMA WriteKeeps ==
    ASSUME Inv, NEW p \in Proc, Write(p)
    PROVE  Inv'
<1> DEFINE r == proc[p]
           new == Apply(store, OpOf(p))
           rest == Tail(r.todo)
           l == IF rest = <<>> THEN "finish" ELSE "write"
<1>1. /\ Aside /\ canonical' = canonical /\ r.pc = "write" /\ r.pc \in Busy
      /\ r.pc \in Locked /\ r.pc \in Working /\ Unmoved
      /\ r.pc \notin Places0
  BY DEF Write, Rest, pageVars, Aside, Locked, Working, Busy, Places0
<1>2. /\ LocksKept(p) /\ QueueEffect(p)
      /\ TypeOK /\ StoreOK /\ ProcInv /\ MadeInv /\ MetadataInv /\ KeywordsCurrent
  BY <1>1, SameLocks DEF Inv, QueueEffect
<1> DEFINE Gives == /\ workload.late /\ late' = late \cup {OpOf(p)} /\ store' = store
<1>3. \/ Finished(p, "failed") /\ store' \in {store, new} /\ late' = late
      \/ Finished(p, "failed") /\ Gives
      \/ /\ store' = new /\ late' = late /\ Owner(p)
         /\ proc' = [proc EXCEPT ![p].pc = l, ![p].todo = rest]
  BY DEF Write, OpOf, PublicationIsCurrent, OwnerCheck
<1>4. CASE Finished(p, "failed") /\ ((store' \in {store, new} /\ late' = late) \/ Gives)
  <2>1. "failed" \in Outcomes /\ Stores(p)
    BY <1>1, <1>4 DEF Outcomes, Stores
  <2> QED
    BY <1>1, <1>2, <1>4, <2>1, FinishedKeeps
<1>5. CASE store' = new /\ late' = late /\ Owner(p) /\ proc' = [proc EXCEPT ![p].pc = l, ![p].todo = rest]
  <2> DEFINE q == [r EXCEPT !.pc = l, !.todo = rest]
  <2>1. proc' = [proc EXCEPT ![p] = q] /\ store' = Apply(store, OpOf(p))
    BY <1>5
  <2>2. Stores(p)
    BY <1>1, <2>1 DEF Stores
  <2>3. rest \in Seq(Call) /\ rest = Tail(proc[p].todo)
    <3>1. \E n \in Nat : At(p, n)
      BY <1>1, <1>2, WriteFacts
    <3> QED
      BY <3>1 DEF At
  <2>4. /\ r.claim # 0 /\ canonical[UrlOf(r.claim)] = Mine(p) /\ r \in ProcRecord
    BY <1>1, AboutProcess DEF ClaimUrl
  <2>5. /\ l \in PcNames /\ l \in Busy /\ l \notin Places0 \cup {"loop", "unlock"}
        /\ l \in {"write", "finish"} /\ l = IF rest = <<>> THEN "finish" ELSE "write"
        /\ r.pc \notin {"unlock", "release", "exit"}
    BY <1>1 DEF PcNames, Busy, Places0
  <2>6. /\ workload.late \/ r.keywords = metadata[UrlOf(r.claim)]
        /\ r.keywords \in Versions(UrlOf(r.claim))
    BY <1>1, <1>2 DEF KeywordsCurrent, MetadataInv, ClaimUrl
  <2> HIDE DEF rest, l
  <2>7. /\ q \in ProcRecord /\ q.pc = l /\ q.todo = rest
        /\ q.epoch = r.epoch /\ q.claim = r.claim /\ q.keywords = r.keywords
        /\ q.outcome = r.outcome
    <3> HIDE DEF r
    <3> QED
      BY <2>3, <2>4, <2>5 DEF ProcRecord
  <2> HIDE DEF q
  <2>8. Making(store', q)
    <3>1. q.pc = IF Tail(proc[p].todo) = <<>> THEN "finish" ELSE "write"
      BY <2>3, <2>5, <2>7
    <3>2. /\ q.claim = proc[p].claim /\ q.epoch = proc[p].epoch /\ q.todo = Tail(proc[p].todo)
          /\ q.keywords = proc[p].keywords
      BY <2>3, <2>7
    <3> QED
      BY <1>1, <1>2, <1>5, <2>1, <3>1, <3>2, CallMade
  <2>9. PlanFits(q)
    BY <2>6, <2>7, <2>8 DEF PlanFits
  <2>10. OwnClaims(owner', epoch', processing', q.epoch, q.pc, q.claim, q.outcome)
    <3>1. OwnClaims(owner, epoch, processing, r.epoch, r.pc, r.claim, r.outcome)
      BY AboutProcess
    <3>2. UNCHANGED <<owner, epoch, processing>>
      BY <1>1 DEF Unmoved, queueVars
    <3> QED
      BY <1>1, <2>5, <2>7, <3>1, <3>2 DEF OwnClaims
  <2>11. EpochFits(p, q) /\ ClaimFits(p, q) /\ LateFits(p, q) /\ AttemptFits(p, q)
    BY <1>1, <1>5, <2>4, <2>5, <2>7, <2>10
       DEF EpochFits, ClaimFits, LateFits, AttemptFits, Failing
  <2>12. LocksFit(p, q)
    BY <1>1, <1>2, <2>4, <2>7 DEF LocksFit, Mine
  <2>13. Sound(p, q)
    BY <1>1, <1>2, <2>1, <2>2, <2>7, <2>9, <2>11, <2>12 DEF Sound, Becomes, Aside
  <2> QED
    BY <2>13, SoundKeeps
<1> QED
  BY <1>3, <1>4, <1>5

\* The acknowledgement.
LEMMA AckKeeps ==
    ASSUME Inv, NEW p \in Proc, AckWork(p)
    PROVE  Inv'
<1> DEFINE Finish == Queue!FinishScript(proc[p].epoch, proc[p].claim)
<1>1. /\ Aside /\ UNCHANGED <<canonical, store, late>> /\ proc[p].pc = "finish"
      /\ proc[p].pc \in Working
  BY DEF AckWork, pageVars, mongoVars, Aside, Working
<1>2. Stores(p) /\ TypeOK /\ LineInv
  BY <1>1 DEF Inv, Stores
<1>3. Unmoved \/ Finish => QueueEffect(p)
  BY <1>1 DEF QueueEffect
<1>4. Finish => processing' = <<>>
  <2>1. arrived' = arrived
    BY <1>1 DEF Aside
  <2> QED
    BY <1>2, <2>1, EndKeeps
<1>5. CASE Finish /\ Finished(p, "done")
  <2>1. "done" \in Outcomes
    BY DEF Outcomes
  <2> QED
    BY <1>1, <1>2, <1>3, <1>4, <1>5, <2>1, FinishedKeeps
<1>6. CASE (Unmoved \/ Finish) /\ Finished(p, "failed")
  <2>1. "failed" \in Outcomes
    BY DEF Outcomes
  <2> QED
    BY <1>1, <1>2, <1>3, <1>6, <2>1, FinishedKeeps
<1> QED
  BY <1>5, <1>6 DEF AckWork

\* The lock is given back, or left to the operator when the call fails.
LEMMA UnlockKeeps ==
    ASSUME Inv, NEW p \in Proc, UnlockCanonical(p)
    PROVE  Inv'
<1> DEFINE r == proc[p]
           u == ClaimUrl(p)
           bad == r.outcome = "failed"
           l == IF bad THEN "release" ELSE "loop"
           c == IF bad THEN r.claim ELSE 0
           q == [r EXCEPT !.pc = l, !.claim = c, !.keywords = 0, !.outcome = "none"]
<1>1. /\ Aside /\ UNCHANGED <<store, late>> /\ r.pc = "unlock" /\ r.pc \in Locked
      /\ r.pc \notin Places0 /\ Unmoved
      /\ proc' = [proc EXCEPT ![p] = q]
      /\ \/ canonical' = [canonical EXCEPT ![u] = IF @ = Mine(p) THEN Free ELSE @]
         \/ canonical' = canonical
  BY DEF UnlockCanonical, Rest, pageVars, mongoVars, Aside, Locked, Working, Places0
<1>2. /\ u \in Url /\ canonical[u] = Mine(p) /\ r \in ProcRecord /\ r.claim # 0 /\ r.claim \in Nat
      /\ OwnClaims(owner, epoch, processing, r.epoch, r.pc, r.claim, r.outcome)
  BY <1>1, AboutProcess
<1>3. LocksKept(p)
  <2>1. canonical \in [Url -> LockDoc] /\ Free \in LockDoc
    BY DEF Inv, TypeOK, Free, LockDoc
  <2> QED
    BY <1>1, <1>2, <2>1 DEF LocksKept
<1>4. /\ l \in PcNames /\ l \notin Places0 \cup Busy \cup Locked \cup Working
      /\ l \in {"release", "loop"}
      /\ l \notin {"write", "finish", "unlock"}
  BY DEF PcNames, Places0, Busy, Locked, Working
<1>5. /\ c \in Nat /\ c \in {0, r.claim}
      /\ l = IF bad THEN "release" ELSE "loop"
      /\ "none" \in Outcomes
  BY <1>2 DEF Outcomes
<1>6. l = "release" => c # 0
  BY <1>2
<1> HIDE DEF l, c
<1>7. /\ q \in ProcRecord /\ q.pc = l /\ q.claim = c /\ q.epoch = r.epoch
  <2>1. r \in ProcRecord /\ l \in PcNames /\ c \in Nat /\ "none" \in Outcomes
    BY <1>2, <1>4, <1>5
  <2> HIDE DEF r
  <2> QED
    BY <2>1, ZeroSource DEF ProcRecord
<1> HIDE DEF q
<1>8. UNCHANGED <<owner, epoch, processing>>
  BY <1>1 DEF Unmoved, queueVars
<1>9. OwnClaims(owner', epoch', processing', q.epoch, q.pc, q.claim, q.outcome)
  BY <1>1, <1>2, <1>4, <1>5, <1>7, <1>8 DEF OwnClaims
<1>10. ClaimFits(p, q)
  BY <1>4, <1>5, <1>6, <1>7, <1>9 DEF ClaimFits
<1>11. /\ EpochFits(p, q) /\ LocksFit(p, q) /\ PlanFits(q) /\ Stores(p) /\ QueueEffect(p)
       /\ LateFits(p, q) /\ AttemptFits(p, q)
  BY <1>1, <1>3, <1>4, <1>5, <1>7
     DEF EpochFits, LocksFit, PlanFits, Stores, QueueEffect, LateFits, AttemptFits, Failing
<1>12. Sound(p, q)
  BY <1>1, <1>7, <1>10, <1>11 DEF Sound, Becomes, Aside
<1> QED
  BY <1>12, SoundKeeps

\* The claim goes back behind the queue, or stays for the recovery.
LEMMA ReleaseKeeps ==
    ASSUME Inv, NEW p \in Proc, ReleaseClaim(p)
    PROVE  Inv'
<1>1. /\ Aside /\ UNCHANGED <<canonical, store, late>> /\ Goto(p, "exit") /\ proc[p].pc \notin Places0
  BY DEF ReleaseClaim, Rest, pageVars, mongoVars, Aside, Quit, Places0
<1>2. QueueEffect(p)
  BY DEF ReleaseClaim, QueueEffect
<1>3. LocksKept(p)
  BY <1>1, SameLocks DEF Inv
<1> QED
  BY <1>1, <1>2, <1>3, JumpKeeps

\* The owner lock goes with its process.
LEMMA ReleaseOwnerKeeps ==
    ASSUME Inv, NEW p \in Proc, ReleaseOwner(p)
    PROVE  Inv'
<1>1. /\ Aside /\ UNCHANGED <<canonical, store, late>> /\ proc' = [proc EXCEPT ![p] = Stopped]
      /\ Unmoved \/ Queue!DropLock(proc[p].epoch)
  BY DEF ReleaseOwner, Rest, pageVars, mongoVars, Aside
<1> QED
  BY <1>1, StopKeeps

\* Every step of a process keeps the invariant.
LEMMA ProcessKeeps ==
    ASSUME Inv, NEW p \in Proc, RunIndexer(p)
    PROVE  Inv'
BY AcquireKeeps, RecoverKeeps, ClaimKeepsInv, LeaveKeeps, QuarantineInvalidKeeps,
   AcquireCanonicalKeeps, LoadKeeps, KeywordsKeeps, WriteKeeps, AckKeeps, UnlockKeeps,
   ReleaseKeeps, ReleaseOwnerKeeps DEF RunIndexer, ProcessClaim
-----------------------------------------------------------------------------
(* The surroundings. *)

\* What speaks of the store and the processes only stays as they are.
LEMMA MadeStays ==
    ASSUME MadeInv, UNCHANGED <<workload, store, proc>>
    PROVE  MadeInv'
<1>1. \A p \in Proc : Making(store', proc'[p])
  BY DEF MadeInv
<1>2. \A p \in Proc : Making(store, proc[p])'
  BY <1>1, MadeAfter
<1> QED
  BY <1>2 DEF MadeInv

\* What speaks of the metadata and the processes only stays as it is.
LEMMA MetadataStays ==
    ASSUME MetadataInv, UNCHANGED <<workload, proc>>,
           \A u \in Url : metadata'[u] \in Versions(u),
           \A m \in lateMetadata' : workload.late /\ m[1] \in Url /\ m[2] \in Versions(m[1])
    PROVE  MetadataInv'
<1>1. \A p \in Proc : proc[p].pc \in {"write", "finish"} =>
                         proc[p].keywords \in Versions(ClaimUrl(p))
  BY DEF MetadataInv
<1>2. \A p \in Proc : proc'[p].pc \in {"write", "finish"} =>
                         proc'[p].keywords \in Versions(ClaimUrl(p))'
  BY <1>1 DEF Versions, ClaimUrl, UrlOf
<1>3. \A u \in Url : metadata'[u] \in Versions(u)'
  BY DEF Versions, UrlOf
<1>4. \A m \in lateMetadata' : m[2] \in Versions(m[1])'
  BY DEF Versions, UrlOf
<1> QED
  BY <1>2, <1>3, <1>4 DEF MetadataInv

\* What speaks of the late writes stays as it is.
LEMMA LateStays ==
    ASSUME LateInv, LateStamps,
           UNCHANGED <<workload, arrived, epoch, queue, processing, store, late, proc>>
    PROVE  LateInv' /\ LateStamps'
BY DEF LateInv, LateStamps, OpType, Before, Failing, ClaimUrl, UrlOf

\* A longer queue of numbers is one of a larger range too.
LEMMA Longer ==
    ASSUME NEW n \in Nat, NEW s \in Seq(1..n)
    PROVE  s \in Seq(1..(n + 1))
<1>1. 1..n \subseteq 1..(n + 1)
  OBVIOUS
<1> QED
  BY <1>1

\* A manifest joins the line at its end.
LEMMA ArriveKeeps ==
    ASSUME Inv, Arrive
    PROVE  Inv'
<1> DEFINE n == arrived + 1
           q == <<n>> \o queue
<1>0. /\ TypeOK /\ StoreOK /\ LineInv /\ ProcInv /\ ClaimInv /\ LockInv
      /\ StampInv /\ LateInv /\ LateStamps /\ MetadataInv /\ KeywordsCurrent /\ MadeInv
  BY DEF Inv
<1>1. /\ arrived \in Nat /\ arrived' = n /\ n \in Nat /\ n \in 1..n
      /\ n \in 0..Len(workload.pubs)
  <2>1. Len(workload.pubs) \in Nat
    BY <1>0, ManifestAssumption DEF TypeOK
  <2> QED
    BY <1>0, <2>1, ListSets DEF Arrive, TypeOK
<1>2. /\ queue' = q /\ UNCHANGED <<owner, epoch, processing, dead, done>>
      /\ UNCHANGED <<workload, canonical, metadata, lateMetadata, store, late, proc>>
  BY DEF Arrive, Queue!Push, pageVars, mongoVars
<1>3. /\ queue \in Seq(1..n) /\ processing \in Seq(1..n) /\ dead \in Seq(1..n)
      /\ done \subseteq 1..n
  BY <1>0, <1>1, ListSets, Longer
<1> DEFINE l == Len(queue)
<1>4. /\ q \in Seq(1..n) /\ l \in Nat /\ Len(q) = l + 1 /\ q[1] = n
      /\ \A i \in 1..l : q[i + 1] = queue[i]
  <2> HIDE DEF n
  <2> QED
    BY <1>1, <1>3
<1>5. TypeOK'
  BY <1>0, <1>1, <1>2, <1>3, <1>4 DEF TypeOK
<1>6. /\ \A i \in 1..l : queue[i] \in 1..arrived
      /\ \A i \in 1..Len(processing) : processing[i] \in 1..arrived
      /\ \A i, j \in 1..l : i < j => queue[i] > queue[j]
      /\ \A i \in 1..l : \A j \in 1..Len(processing) : queue[i] > processing[j]
      /\ Len(processing) <= 1
  BY <1>0, ListNumbers DEF LineInv
<1> HIDE DEF q, l
<1>7. \A i \in 1..Len(q) : i = 1 \/ (i - 1 \in 1..l /\ q[i] = queue[i - 1])
  <2> SUFFICES ASSUME NEW i \in 1..Len(q), i # 1
               PROVE  i - 1 \in 1..l /\ q[i] = queue[i - 1]
    OBVIOUS
  <2>1. i - 1 \in 1..l /\ (i - 1) + 1 = i
    BY <1>4
  <2> QED
    BY <1>4, <2>1
<1>8. LineInv'
  <2>1. \A i, j \in 1..Len(q) : i < j => q[i] > q[j]
    <3> SUFFICES ASSUME NEW i \in 1..Len(q), NEW j \in 1..Len(q), i < j
                 PROVE  q[i] > q[j]
      OBVIOUS
    <3>1. j - 1 \in 1..l /\ q[j] = queue[j - 1]
      BY <1>4, <1>7
    <3>2. CASE i = 1
      BY <1>1, <1>4, <1>6, <3>1, <3>2
    <3>3. CASE i # 1
      <4>1. i - 1 \in 1..l /\ q[i] = queue[i - 1] /\ i - 1 < j - 1
        BY <1>4, <1>7, <3>3
      <4> QED
        BY <1>6, <3>1, <4>1
    <3> QED
      BY <3>2, <3>3
  <2>2. \A i \in 1..Len(q) : \A j \in 1..Len(processing) : q[i] > processing[j]
    BY <1>1, <1>4, <1>6, <1>7
  <2> QED
    BY <1>2, <1>6, <2>1, <2>2 DEF LineInv
<1>9. \A x \in 0..arrived : Before(x) => StillBefore(x)
  <2> SUFFICES ASSUME NEW x \in 0..arrived, Before(x)
               PROVE  /\ \A i \in 1..Len(q) : x <= q[i]
                      /\ \A i \in 1..Len(processing) : x <= processing[i]
    BY <1>2 DEF StillBefore
  <2>1. \A i \in 1..l : x <= queue[i]
    BY DEF Before, l
  <2>2. \A i \in 1..Len(q) : x <= q[i]
    <3>1. x <= n
      BY <1>1
    <3> QED
      BY <1>4, <1>7, <2>1, <3>1
  <2> QED
    BY <2>2 DEF Before
<1>10. StampInv'
  <2>1. \A u \in Url : store.state[u].pub \in 0..arrived
    BY <1>0, <1>1, StampNumbers DEF StoreOK
  <2>2. \A p \in Proc : proc[p].claim \in 0..arrived
    BY <1>0 DEF ProcInv
  <2>3. /\ \A u \in Url : StillBefore(store.state[u].pub)
        /\ \A p \in Proc : StillBefore(proc[p].claim)
    BY <1>0, <1>9, <2>1, <2>2 DEF StampInv
  <2>4. \A p \in Proc : proc[p].claim # 0 =>
          /\ \A x \in Proc : proc[p].epoch > proc[x].epoch => proc[p].claim >= proc[x].claim
          /\ \A u \in Url :
                proc[p].epoch >= store.state[u].epoch => proc[p].claim >= store.state[u].pub
    BY <1>0 DEF StampInv
  <2>5. StampsAfter
    BY <1>2, <2>3, <2>4 DEF StampsAfter
  <2> QED
    BY <2>5 DEF StampsAfter, StampInv, StillBefore, Before
<1>11. ProcInv'
  <2>1. \A p \in Proc : proc[p].claim \in 0..n
    BY <1>0, <1>1 DEF ProcInv
  <2> QED
    BY <1>0, <1>1, <1>2, <2>1 DEF ProcInv
<1>12. StoreOK'
  <2>1. \A u \in Url : store.state[u].pub <= n
    BY <1>0, <1>1, StampNumbers DEF StoreOK
  <2> QED
    BY <1>0, <1>1, <1>2, <2>1 DEF StoreOK
<1>13. ClaimInv' /\ LockInv' /\ KeywordsCurrent'
  BY <1>0, <1>2 DEF ClaimInv, LockInv, OwnClaims, KeywordsCurrent, ClaimUrl, UrlOf, Mine
<1>14. MadeInv' /\ MetadataInv'
  <2>1. /\ \A u \in Url : metadata'[u] \in Versions(u)
        /\ \A m \in lateMetadata' : workload.late /\ m[1] \in Url /\ m[2] \in Versions(m[1])
    BY <1>0, <1>2 DEF MetadataInv
  <2> QED
    BY <1>0, <1>2, <2>1, MadeStays, MetadataStays
<1>15. LateInv'
  <2>1. \A op \in OpType : op \in OpType'
    <3>1. 1..arrived \subseteq 1..arrived'
      BY <1>1
    <3> QED
      BY <3>1 DEF OpType
  <2> QED
    BY <1>0, <1>2, <2>1 DEF LateInv, Failing, ClaimUrl, UrlOf
<1>16. LateStamps'
  <2>1. \A op \in late : op.pub \in 0..arrived /\ Before(op.pub)
    <3>1. \A op \in late : op.pub \in 1..arrived
      BY <1>0 DEF LateInv, OpType
    <3>2. 1..arrived \subseteq 0..arrived
      BY <1>1
    <3> QED
      BY <1>0, <3>1, <3>2 DEF LateStamps
  <2>2. \A op \in late : Before(op.pub)'
    BY <1>9, <2>1 DEF StillBefore, Before
  <2> QED
    BY <1>0, <1>2, <2>2 DEF LateStamps
<1> QED
  BY <1>5, <1>8, <1>10, <1>11, <1>12, <1>13, <1>14, <1>15, <1>16 DEF Inv

\* The lock expires: nobody is the owner then.
LEMMA ExpiryKeeps ==
    ASSUME Inv, LockExpires
    PROVE  Inv'
<1>0. /\ TypeOK /\ StoreOK /\ LineInv /\ ProcInv /\ ClaimInv /\ LockInv
      /\ StampInv /\ LateInv /\ LateStamps /\ MetadataInv /\ KeywordsCurrent /\ MadeInv
  BY DEF Inv
<1>1. /\ owner' = 0
      /\ UNCHANGED <<epoch, queue, processing, dead, done, workload, arrived, canonical,
                     metadata, lateMetadata, store, late, proc>>
  BY DEF LockExpires, Queue!LockExpires, Queue!listVars, pageVars, mongoVars
<1>2. TypeOK' /\ StoreOK' /\ LineInv' /\ ProcInv'
  BY <1>0, <1>1 DEF TypeOK, StoreOK, LineInv, ProcInv
<1>3. LockInv' /\ StampInv' /\ KeywordsCurrent'
  BY <1>0, <1>1 DEF LockInv, StampInv, Before, KeywordsCurrent, ClaimUrl, UrlOf, Mine
<1>4. ClaimInv'
  BY <1>1 DEF ClaimInv, OwnClaims
<1>5. MadeInv' /\ MetadataInv' /\ LateInv' /\ LateStamps'
  <2>1. /\ \A u \in Url : metadata'[u] \in Versions(u)
        /\ \A m \in lateMetadata' : workload.late /\ m[1] \in Url /\ m[2] \in Versions(m[1])
    BY <1>0, <1>1 DEF MetadataInv
  <2> QED
    BY <1>0, <1>1, <2>1, MadeStays, MetadataStays, LateStays
<1> QED
  BY <1>2, <1>3, <1>4, <1>5 DEF Inv

\* The locks of URLs that no attempt holds may change, and their metadata; the
\* metadata of the others changes only when writes land late.
LEMMA OutsideKeeps ==
    ASSUME Inv, UNCHANGED <<workload, queueVars, arrived, store, late, proc>>,
           canonical' \in [Url -> LockDoc], metadata' \in [Url -> Source],
           \A u \in Url : metadata'[u] \in Versions(u),
           \A m \in lateMetadata' : workload.late /\ m[1] \in Url /\ m[2] \in Versions(m[1]),
           \A p \in Proc : proc[p].pc \in Locked =>
               /\ canonical'[ClaimUrl(p)] = canonical[ClaimUrl(p)]
               /\ workload.late \/ metadata'[ClaimUrl(p)] = metadata[ClaimUrl(p)]
    PROVE  Inv'
<1>0. /\ TypeOK /\ StoreOK /\ LineInv /\ ProcInv /\ ClaimInv /\ LockInv
      /\ StampInv /\ LateInv /\ LateStamps /\ MetadataInv /\ KeywordsCurrent /\ MadeInv
  BY DEF Inv
<1>1. UNCHANGED <<owner, epoch, queue, processing, dead, done, workload, arrived, store, late, proc>>
  BY DEF queueVars
<1>2. TypeOK' /\ StoreOK' /\ LineInv' /\ ProcInv'
  BY <1>0, <1>1 DEF TypeOK, StoreOK, LineInv, ProcInv
<1>3. StampInv' /\ ClaimInv'
  BY <1>0, <1>1 DEF StampInv, Before, ClaimInv, OwnClaims
<1>4. LockInv'
  <2>1. \A p \in Proc : proc[p].pc \in Locked => canonical'[ClaimUrl(p)] = Mine(p)
    BY <1>0 DEF LockInv
  <2> QED
    BY <1>1, <2>1 DEF LockInv, ClaimUrl, UrlOf, Mine
<1>5. KeywordsCurrent'
  <2>1. \A p \in Proc : proc[p].pc \in {"write", "finish"} =>
            workload.late \/ proc[p].keywords = metadata'[ClaimUrl(p)]
    BY <1>0 DEF KeywordsCurrent, Locked, Working
  <2> QED
    BY <1>1, <2>1 DEF KeywordsCurrent, ClaimUrl, UrlOf
<1>6. MadeInv' /\ MetadataInv' /\ LateInv' /\ LateStamps'
  BY <1>0, <1>1, MadeStays, MetadataStays, LateStays
<1> QED
  BY <1>2, <1>3, <1>4, <1>5, <1>6 DEF Inv

\* Whoever works on u as the page indexer or clears its lock is not an attempt
\* of this service, whose lock it would be.
LEMMA NotHeld ==
    ASSUME LockInv, NEW u \in Url, NEW p \in Proc, proc[p].pc \in Locked,
           \/ canonical[u] = Free \/ canonical[u].service = "page"
           \/ ~Alive(canonical[u].epoch)
    PROVE  ClaimUrl(p) # u
<1>1. canonical[ClaimUrl(p)] = Mine(p)
  BY DEF LockInv
<1>2. Mine(p).service = "image" /\ Mine(p) # Free
  BY DEF Mine, Free
<1>3. Alive(Mine(p).epoch)
  BY DEF Alive, Mine, Locked, Working
<1> QED
  BY <1>1, <1>2, <1>3

\* The versions of a URL are numbers of publications.
LEMMA VersionsFacts ==
    ASSUME TypeOK, NEW u
    PROVE  Versions(u) \subseteq Source
<1>1. Len(workload.pubs) \in Nat /\ Len(workload.pubs) <= NPub /\ NPub \in Nat
  BY ManifestAssumption DEF TypeOK
<1> QED
  BY <1>1 DEF Versions, Source

\* The page indexer works on URLs whose lock is free or its own, and an
\* operator clears the locks of processes that are gone.
LEMMA SurroundingsKeep ==
    ASSUME Inv, NEW u \in Url,
           PageLocks(u) \/ MetadataMoves(u) \/ PageUnlocks(u) \/ OperatorClears(u)
    PROVE  Inv'
<1>0. TypeOK /\ ProcInv /\ LockInv /\ MetadataInv
  BY DEF Inv
<1>1. /\ UNCHANGED <<workload, queueVars, arrived, store, late, proc>>
      /\ canonical \in [Url -> LockDoc] /\ metadata \in [Url -> Source]
  BY <1>0 DEF PageLocks, MetadataMoves, PageUnlocks, OperatorClears, mongoVars, TypeOK
<1>2. \A p \in Proc : proc[p].pc \in Locked => ClaimUrl(p) # u
  BY <1>0, NotHeld DEF PageLocks, MetadataMoves, PageUnlocks, OperatorClears
<1>3. \A p \in Proc : proc[p].pc \in Locked => ClaimUrl(p) \in Url
  BY <1>0, LockedClaim
<1>4. /\ \A x \in Url : metadata[x] \in Versions(x)
      /\ \A m \in lateMetadata : workload.late /\ m[1] \in Url /\ m[2] \in Versions(m[1])
  BY <1>0 DEF MetadataInv
<1>5. CASE PageLocks(u) \/ PageUnlocks(u) \/ OperatorClears(u)
  <2> DEFINE page == [service |-> "page", pub |-> 0, epoch |-> 0]
  <2>1. page \in LockDoc /\ Free \in LockDoc
    BY DEF LockDoc, Free
  <2>2. /\ metadata' = metadata /\ lateMetadata' = lateMetadata
        /\ \E d \in LockDoc : canonical' = [canonical EXCEPT ![u] = d]
    BY <1>5, <2>1 DEF PageLocks, PageUnlocks, OperatorClears, pageVars
  <2>3. PICK d \in LockDoc : canonical' = [canonical EXCEPT ![u] = d]
    BY <2>2
  <2>4. /\ canonical' \in [Url -> LockDoc]
        /\ \A x \in Url : x # u => canonical'[x] = canonical[x]
    BY <1>1, <2>3
  <2> QED
    BY <1>1, <1>2, <1>3, <1>4, <2>2, <2>4, OutsideKeeps
<1>6. CASE MetadataMoves(u)
  <2>1. PICK v \in Versions(u) :
            \/ metadata' = [metadata EXCEPT ![u] = v] /\ lateMetadata' = lateMetadata
            \/ /\ workload.late /\ metadata' = metadata
               /\ lateMetadata' = lateMetadata \cup {<<u, v>>}
    BY <1>6 DEF MetadataMoves
  <2>2. v \in Source
    BY <1>0, VersionsFacts
  <2>3. /\ metadata' \in [Url -> Source]
        /\ \A x \in Url : x # u => metadata'[x] = metadata[x]
        /\ \A x \in Url : metadata'[x] \in Versions(x)
    BY <1>1, <1>4, <2>1, <2>2
  <2>4. canonical' = canonical
    BY <1>6 DEF MetadataMoves, mongoVars
  <2>5. \A m \in lateMetadata' : workload.late /\ m[1] \in Url /\ m[2] \in Versions(m[1])
    BY <1>4, <2>1
  <2> QED
    BY <1>1, <1>2, <1>3, <2>3, <2>4, <2>5, OutsideKeeps
<1> QED
  BY <1>5, <1>6

\* A metadata write that the page indexer has given up may land on any URL.
LEMMA MetadataLandsKeeps ==
    ASSUME Inv, NEW m \in lateMetadata, MetadataLands(m)
    PROVE  Inv'
<1>0. TypeOK /\ ProcInv /\ MetadataInv
  BY DEF Inv
<1>1. /\ UNCHANGED <<workload, queueVars, arrived, canonical, store, late, proc>>
      /\ canonical \in [Url -> LockDoc] /\ metadata \in [Url -> Source]
      /\ metadata' = [metadata EXCEPT ![m[1]] = m[2]] /\ lateMetadata' \subseteq lateMetadata
  BY <1>0 DEF MetadataLands, mongoVars, TypeOK
<1>2. /\ \A x \in Url : metadata[x] \in Versions(x)
      /\ \A n \in lateMetadata : workload.late /\ n[1] \in Url /\ n[2] \in Versions(n[1])
  BY <1>0 DEF MetadataInv
<1>3. m[2] \in Source
  BY <1>0, <1>2, VersionsFacts
<1>4. metadata' \in [Url -> Source] /\ \A x \in Url : metadata'[x] \in Versions(x)
  BY <1>1, <1>2, <1>3
<1> QED
  BY <1>1, <1>2, <1>4, OutsideKeeps

\* A write whose caller has given up lands.
LEMMA WriteLandsKeeps ==
    ASSUME Inv, NEW op \in late, WriteLands(op)
    PROVE  Inv'
<1> DEFINE w == UrlOf(op.pub)
<1>0. /\ TypeOK /\ StoreOK /\ LineInv /\ ProcInv /\ ClaimInv /\ LockInv
      /\ StampInv /\ LateInv /\ LateStamps /\ MetadataInv /\ KeywordsCurrent /\ MadeInv
  BY DEF Inv
<1>1. /\ UNCHANGED <<owner, epoch, queue, processing, dead, done, workload, arrived, canonical,
                     metadata, lateMetadata, proc>>
      /\ store' = Apply(store, op) /\ late' \subseteq late
  BY DEF WriteLands, queueVars, pageVars
<1>2. /\ workload.late /\ op \in OpType /\ op.epoch \in Nat /\ op.epoch <= epoch
      /\ op.pub \in 1..arrived /\ epoch \in Nat /\ store \in StoreType
      /\ \A p \in Proc : proc[p].pc \in Working /\ ClaimUrl(p) = w => proc[p].epoch > op.epoch
  BY <1>0 DEF LateInv, OpType, TypeOK, StoreOK
<1>3. CallDoes(store, store', w, op)
  BY <1>0, <1>1, <1>2, CallFacts
<1>4. TypeOK' /\ LineInv' /\ ProcInv'
  BY <1>0, <1>1 DEF TypeOK, LineInv, ProcInv
<1>5. ClaimInv' /\ LockInv' /\ KeywordsCurrent'
  BY <1>0, <1>1 DEF ClaimInv, LockInv, OwnClaims, KeywordsCurrent, ClaimUrl, UrlOf, Mine
<1>6. MetadataInv'
  <2>1. /\ \A u \in Url : metadata'[u] \in Versions(u)
        /\ \A m \in lateMetadata' : workload.late /\ m[1] \in Url /\ m[2] \in Versions(m[1])
    BY <1>0, <1>1 DEF MetadataInv
  <2> QED
    BY <1>0, <1>1, <2>1, MetadataStays
<1>7. StoreOK'
  BY <1>0, <1>1, <1>2, CallInRange
<1>8. \A u \in Url : \/ store'.state[u] = store.state[u]
                     \/ store'.state[u].pub = op.pub /\ store'.state[u].epoch = op.epoch
  BY <1>3 DEF CallDoes, DocOf
<1>9. StampInv'
  <2>1. \A u \in Url : Before(store'.state[u].pub)
    BY <1>0, <1>8 DEF StampInv, LateStamps
  <2>2. \A p \in Proc : proc[p].claim # 0 => \A u \in Url :
            proc[p].epoch >= store'.state[u].epoch => proc[p].claim >= store'.state[u].pub
    BY <1>0, <1>8 DEF StampInv, LateStamps
  <2> QED
    BY <1>0, <1>1, <2>1, <2>2 DEF StampInv, Before
<1>10. LateInv'
  BY <1>0, <1>1 DEF LateInv, OpType, Failing, ClaimUrl, UrlOf
<1>11. LateStamps'
  <2>1. \A o \in late : \A u \in Url :
            o.epoch >= store'.state[u].epoch => o.pub >= store'.state[u].pub
    BY <1>0, <1>8 DEF LateStamps
  <2> QED
    BY <1>0, <1>1, <2>1 DEF LateStamps, Before
<1>12. ASSUME NEW p \in Proc
       PROVE  Making(store', proc[p])
  <2> DEFINE r == proc[p]
  <2>0. Making(store, r)
    BY <1>0 DEF MadeInv
  <2>1. CASE r.pc \notin {"write", "finish"}
    BY <2>1 DEF Making
  <2>2. CASE r.pc \in {"write", "finish"}
    <3>1. /\ r.pc \in Locked /\ r.pc \in Working /\ r.claim \in 1..arrived
          /\ r.epoch \in Nat /\ r.keywords \in Source
      <4>1. r.pc \in Locked /\ r.pc \in Working
        BY <2>2 DEF Locked, Working
      <4> QED
        BY <1>0, <4>1, LockedClaim, Fields
    <3>2. CASE UrlOf(r.claim) = w
      <4>1. op.epoch < r.epoch
        BY <1>2, <3>1, <3>2 DEF ClaimUrl
      <4>2. \A c \in Call : /\ Within(c, r.claim, r.keywords)
                            /\ Trace(store, r.claim, r.keywords, r.epoch, c)
                            => Trace(store', r.claim, r.keywords, r.epoch, c)
        <5> HIDE DEF r
        <5>1. CallDoes(store, store', UrlOf(r.claim), op)
          BY <1>3, <3>2
        <5>2. ASSUME NEW c \in Call, Within(c, r.claim, r.keywords),
                     Trace(store, r.claim, r.keywords, r.epoch, c)
              PROVE  Trace(store', r.claim, r.keywords, r.epoch, c)
          BY <1>0, <1>2, <3>1, <4>1, <5>1, <5>2, TraceLate
        <5> QED
          BY <5>2
      <4>3. Making(store', r)
        <5> HIDE DEF r
        <5> QED
          BY <1>0, <2>0, <3>1, <4>2, MadeKept
      <4> QED
        BY <4>3
    <3>3. CASE UrlOf(r.claim) # w
      <4>1. UrlOf(r.claim) \in Url
        BY <1>0, <3>1, PubFields
      <4>2. SameAbout(store, store', r.claim)
        BY <1>3, <3>3, <4>1 DEF CallDoes, SameAbout
      <4> QED
        BY <2>0, <4>2, MadeElsewhere
    <3> QED
      BY <3>2, <3>3
  <2> QED
    BY <2>1, <2>2
<1>13. MadeInv'
  <2>1. \A p \in Proc : Making(store', proc'[p])
    BY <1>1, <1>12
  <2>2. \A p \in Proc : Making(store, proc[p])'
    BY <1>1, <2>1, MadeAfter
  <2> QED
    BY <2>2 DEF MadeInv
<1> QED
  BY <1>4, <1>5, <1>6, <1>7, <1>9, <1>10, <1>11, <1>13 DEF Inv

-----------------------------------------------------------------------------
(* The invariant holds, and what follows from it. *)

\* The image indexer starts in the invariant.
LEMMA InvInit == Init => Inv
<1> SUFFICES ASSUME Init
             PROVE  Inv
  OBVIOUS
<1>1. /\ workload \in Workloads /\ owner = 0 /\ epoch = 0 /\ queue = <<>>
      /\ processing = <<>> /\ dead = <<>> /\ done = {} /\ arrived = 0
      /\ canonical = [u \in Url |-> Free] /\ metadata = [u \in Url |-> 0]
      /\ proc = [p \in Proc |-> Stopped]
  BY DEF Init, Queue!QueueInit
<1>2. NoDoc \in Doc /\ NoDoc.epoch = 0 /\ NoDoc.pub = 0
  BY DEF Doc, NoDoc
<1>3. /\ store = [state |-> [u \in Url |-> NoDoc],
                  images |-> [u \in Url |-> [i \in Image |-> NoDoc]],
                  words |-> [u \in Url |-> [d \in Posting |-> NoDoc]]]
      /\ late = {} /\ lateMetadata = {}
  BY DEF Init, Posting
<1>4. /\ store \in StoreType
      /\ \A u \in Url : /\ store.state[u] = NoDoc
                        /\ \A i \in Image : store.images[u][i] = NoDoc
                        /\ \A d \in Posting : store.words[u][d] = NoDoc
  BY <1>2, <1>3 DEF StoreType
<1>5. Stopped \in ProcRecord /\ Stopped.pc = "down" /\ Stopped.epoch = 0 /\ Stopped.claim = 0
      /\ Free \in LockDoc
  <2>1. "down" \in PcNames /\ "none" \in Outcomes /\ <<>> \in Seq(Call)
    BY DEF PcNames, Places0, Outcomes
  <2> QED
    BY <2>1, ZeroSource DEF Stopped, ProcRecord, Free, LockDoc
<1>6. TypeOK
  <2>1. arrived \in 0..Len(workload.pubs)
    BY <1>1, ManifestAssumption
  <2> QED
    BY <1>1, <1>5, <2>1, ZeroSource DEF TypeOK
<1>7. StoreOK
  BY <1>1, <1>2, <1>4 DEF StoreOK
<1>8. /\ "down" \in Places0 /\ "down" \notin Busy \cup {"unlock", "release"}
      /\ "down" \notin Locked /\ "down" \notin {"write", "finish"}
  BY DEF Places0, Busy, Locked, Working
<1>9. \A p \in Proc : proc[p] = Stopped
  BY <1>1
<1>10. LineInv /\ ProcInv /\ ClaimInv /\ LockInv
  BY <1>1, <1>5, <1>8, <1>9 DEF LineInv, ProcInv, ClaimInv, OwnClaims, LockInv
<1>11. StampInv
  BY <1>1, <1>2, <1>4, <1>5, <1>9 DEF StampInv, Before
<1>12. KeywordsCurrent /\ MadeInv
  BY <1>5, <1>8, <1>9 DEF KeywordsCurrent, MadeInv, Making
<1>13. LateInv /\ LateStamps
  BY <1>3 DEF LateInv, LateStamps
<1>14. MetadataInv
  BY <1>1, <1>3, <1>5, <1>8, <1>9 DEF MetadataInv, Versions
<1> QED
  BY <1>6, <1>7, <1>10, <1>11, <1>12, <1>13, <1>14 DEF Inv

\* Every step keeps the invariant.
LEMMA InvNext ==
    ASSUME Inv, [Next]_vars
    PROVE  Inv'
<1>1. CASE UNCHANGED vars
  <2>1. /\ UNCHANGED <<workload, queueVars, arrived, store, late, proc>>
        /\ UNCHANGED <<canonical, metadata, lateMetadata>>
    BY <1>1 DEF vars, pageVars, mongoVars
  <2>2. /\ canonical \in [Url -> LockDoc] /\ metadata \in [Url -> Source]
        /\ \A u \in Url : metadata[u] \in Versions(u)
        /\ \A m \in lateMetadata : workload.late /\ m[1] \in Url /\ m[2] \in Versions(m[1])
    BY DEF Inv, TypeOK, MetadataInv
  <2> QED
    BY <2>1, <2>2, OutsideKeeps
<1>2. CASE ServiceNext
  BY <1>2, ExpiryKeeps, SupervisorKeeps, ProcessKeeps, SurroundingsKeep, WriteLandsKeeps
     DEF ServiceNext
<1>3. CASE PageIndexerSteps
  BY <1>3, SurroundingsKeep, MetadataLandsKeeps DEF PageIndexerSteps
<1> QED
  BY <1>1, <1>2, <1>3, ArriveKeeps DEF Next

\* The inductive invariant of the image indexer.
THEOREM InvHolds == Spec => []Inv
  BY InvInit, InvNext, PTL DEF Spec

\* Metadata changes under the lock of the page indexer, or when a write that it
\* has given up lands.
LEMMA MetadataChanges ==
    ASSUME TypeOK, [Next]_vars, NEW u \in Url, metadata'[u] # metadata[u]
    PROVE  \/ canonical[u].service = "page"
           \/ \E m \in lateMetadata \ lateMetadata' : m[1] = u
<1>1. CASE UNCHANGED vars
  BY <1>1 DEF vars, pageVars
<1>2. CASE Arrive
  BY <1>2 DEF Arrive, pageVars
<1>3. CASE \E x \in Url : PageLocks(x) \/ PageUnlocks(x) \/ OperatorClears(x)
  BY <1>3 DEF PageLocks, PageUnlocks, OperatorClears, pageVars
<1>4. ASSUME NEW x \in Url, MetadataMoves(x)
      PROVE  canonical[u].service = "page"
  <2>1. canonical[x].service = "page"
    BY <1>4 DEF MetadataMoves
  <2>2. metadata' = metadata \/ \E v : metadata' = [metadata EXCEPT ![x] = v]
    BY <1>4 DEF MetadataMoves
  <2>3. u = x
    BY <2>2 DEF TypeOK
  <2> QED
    BY <2>1, <2>3
<1>5. ASSUME NEW m \in lateMetadata, MetadataLands(m)
      PROVE  m[1] = u /\ m \notin lateMetadata'
  BY <1>5 DEF MetadataLands
<1>6. CASE LockExpires \/ \E op \in late : WriteLands(op)
  BY <1>6 DEF LockExpires, WriteLands, pageVars
<1>7. ASSUME NEW p \in Proc, Start(p) \/ Terminate(p) \/ Crash(p) \/ RunIndexer(p)
      PROVE  FALSE
  BY <1>7 DEF Start, Terminate, Crash, RunIndexer, ProcessClaim, AcquireOwner, RecoverClaims,
              ClaimManifest, LeaveClaim, QuarantineInvalid, AcquireCanonical, LoadWork,
              GetKeywords, Write, AckWork, UnlockCanonical, ReleaseClaim, ReleaseOwner,
              Rest, pageVars
<1> QED
  BY <1>1, <1>2, <1>3, <1>4, <1>5, <1>6, <1>7 DEF Next, ServiceNext, PageIndexerSteps

\* The keywords that an attempt works with are those that the metadata of its
\* URL holds until the attempt ends: get_keywords reads them under the
\* canonical lock, and the page indexer replaces them only under that lock.
\* The one exception is a metadata write that the page indexer has given up
\* and that lands after the lock has changed hands; where writes do not land
\* late, the keywords are current.
THEOREM KeywordsStayCurrent == Spec => []KeywordsCurrent /\ KeywordsHeld
<1> USE DEF KeywordsHeld
<1>1. Inv => KeywordsCurrent
  BY DEF Inv
<1> DEFINE Held(p) ==
        LET u == ClaimUrl(p) IN
        \/ metadata'[u] = metadata[u]
        \/ \E m \in lateMetadata \ lateMetadata' : m[1] = u
<1>2. ASSUME Inv, [Next]_vars
      PROVE  [\A p \in Proc : proc[p].pc \in {"write", "finish"} => Held(p)]_vars
  <2>1. ASSUME NEW p \in Proc, proc[p].pc \in {"write", "finish"}
        PROVE  Held(p)
    <3>1. TypeOK /\ ProcInv /\ LockInv /\ proc[p].pc \in Locked
      BY <1>2, <2>1 DEF Inv, Locked, Working
    <3>2. ClaimUrl(p) \in Url
      BY <3>1, LockedClaim, PubFields DEF ClaimUrl
    <3>3. canonical[ClaimUrl(p)].service # "page"
      BY <3>1, <3>2, NotHeld
    <3> QED
      BY <1>2, <3>1, <3>2, <3>3, MetadataChanges
  <2> QED
    BY <2>1
<1> QED
  BY <1>1, <1>2, InvHolds, PTL DEF Spec

\* Only a write changes the store, of a process or one that lands late.
LEMMA StoreMoves ==
    ASSUME [Next]_vars
    PROVE  \/ store' = store
           \/ \E p \in Proc : Write(p)
           \/ \E op \in late : WriteLands(op)
<1>1. CASE UNCHANGED vars
  BY <1>1 DEF vars, mongoVars
<1>2. CASE Arrive
  BY <1>2 DEF Arrive, mongoVars
<1>3. CASE PageIndexerSteps
  BY <1>3 DEF PageIndexerSteps, PageLocks, MetadataMoves, PageUnlocks, MetadataLands, mongoVars
<1>4. CASE LockExpires \/ \E u \in Url : OperatorClears(u)
  BY <1>4 DEF LockExpires, OperatorClears, mongoVars
<1>5. ASSUME NEW p \in Proc, Start(p) \/ Terminate(p) \/ Crash(p) \/ RunIndexer(p)
      PROVE  store' = store \/ Write(p)
  BY <1>5 DEF Start, Terminate, Crash, RunIndexer, ProcessClaim, AcquireOwner, RecoverClaims,
              ClaimManifest, LeaveClaim, QuarantineInvalid, AcquireCanonical, LoadWork,
              GetKeywords, AckWork, UnlockCanonical, ReleaseClaim, ReleaseOwner, mongoVars
<1> QED
  BY <1>1, <1>2, <1>3, <1>4, <1>5 DEF Next, ServiceNext

\* The script a step of process p runs.
LEMMA DoneByScript ==
    ASSUME NEW p \in Proc, Start(p) \/ Terminate(p) \/ Crash(p) \/ RunIndexer(p)
    PROVE  \/ done' = done
           \/ proc[p].pc = "finish" /\ Queue!FinishScript(proc[p].epoch, proc[p].claim)
<1>1. CASE Start(p) \/ Terminate(p) \/ Crash(p)
  BY <1>1 DEF Start, Terminate, Crash, queueVars
<1>2. CASE AckWork(p)
  BY <1>2 DEF AckWork, Unmoved, queueVars
<1>3. CASE \/ LeaveClaim(p) \/ AcquireCanonical(p) \/ GetKeywords(p) \/ Write(p)
           \/ UnlockCanonical(p)
  BY <1>3 DEF LeaveClaim, AcquireCanonical, GetKeywords, Write, UnlockCanonical, Unmoved, queueVars
<1>4. CASE AcquireOwner(p) \/ ReleaseOwner(p)
  BY <1>4 DEF AcquireOwner, ReleaseOwner, Unmoved, queueVars, Queue!AcquireLock, Queue!DropLock
<1>5. CASE RecoverClaims(p) \/ ClaimManifest(p) \/ ReleaseClaim(p)
  BY <1>5 DEF RecoverClaims, ClaimManifest, ReleaseClaim, Unmoved, queueVars,
              Queue!RecoverScript, Queue!ClaimScript, Queue!ReleaseScript
<1>6. CASE QuarantineInvalid(p) \/ LoadWork(p)
  BY <1>6 DEF QuarantineInvalid, LoadWork, Unmoved, queueVars, Queue!QuarantineScript
<1> QED
  BY <1>1, <1>2, <1>3, <1>4, <1>5, <1>6 DEF RunIndexer, ProcessClaim

\* What is newly done was finished by a process whose plan was made.
LEMMA DoneMoves ==
    ASSUME [Next]_vars
    PROVE  \A v \in done' \ done : \E p \in Proc : proc[p].pc = "finish" /\ proc[p].claim = v
<1>1. CASE UNCHANGED vars
  BY <1>1 DEF vars, queueVars
<1>2. CASE Arrive
  BY <1>2 DEF Arrive, Queue!Push
<1>3. CASE PageIndexerSteps
  BY <1>3 DEF PageIndexerSteps, PageLocks, MetadataMoves, PageUnlocks, MetadataLands, queueVars
<1>4. CASE \/ LockExpires \/ \E u \in Url : OperatorClears(u)
           \/ \E op \in late : WriteLands(op)
  BY <1>4 DEF LockExpires, OperatorClears, WriteLands, queueVars, Queue!LockExpires
<1>5. ASSUME NEW p \in Proc, Start(p) \/ Terminate(p) \/ Crash(p) \/ RunIndexer(p)
      PROVE  \A v \in done' \ done : proc[p].pc = "finish" /\ proc[p].claim = v
  <2>1. CASE done' = done
    BY <2>1
  <2>2. CASE proc[p].pc = "finish" /\ Queue!FinishScript(proc[p].epoch, proc[p].claim)
    BY <2>2 DEF Queue!FinishScript
  <2> QED
    BY <1>5, <2>1, <2>2, DoneByScript
<1> QED
  BY <1>1, <1>2, <1>3, <1>4, <1>5 DEF Next, ServiceNext

\* The page of publication v is all of v.
WholePage(v) ==
    LET u    == UrlOf(v)
        e    == store.state[u].epoch
        imgs == ToSet(ImagesOf(v))
    IN  /\ store.state[u].pub = v
        /\ Exactly(store.images[u], imgs, v, e)
        /\ \E k \in Versions(u) :
              /\ workload.late \/ k = metadata[u]
              /\ Exactly(store.words[u], imgs \X {0, k}, v, e)

\* The plan has calls for all a publication needs.
LEMMA PlanCovers ==
    ASSUME NEW v, ImagesOf(v) \in Seq(Image), NEW k \in Source, NEW P, P = PlanOf(v, k)
    PROVE  /\ \A c \in {"state", "prune", "clear"} : \E j \in 1..Len(P) : P[j].call = c
           /\ \A i \in ToSet(ImagesOf(v)) :
                 \E j \in 1..Len(P) : P[j].call = "images" /\ i \in ToSet(P[j].batch)
           /\ \A i \in Keys(v, k) :
                 \E j \in 1..Len(P) : P[j].call = "words" /\ i \in ToSet(P[j].batch)
<1> DEFINE imgs == ImagesOf(v)
<1>1. P = ReplacePageImages(imgs, k) /\ imgs \in Seq(Image)
  BY DEF PlanOf
<1>2. Keys(v, k) = Crossed(imgs, k)
  BY DEF Keys, Crossed
<1> HIDE DEF imgs
<1>3. Covers(P, imgs, k)
  BY <1>1, PlanFacts
<1> QED
  BY <1>2, <1>3 DEF imgs, Covers

\* All traces of the plan together make the page whole.
LEMMA FinishedIsWhole ==
    ASSUME Inv, NEW p \in Proc, proc[p].pc = "finish"
    PROVE  WholePage(proc[p].claim)
<1> DEFINE v == proc[p].claim
           e == proc[p].epoch
           k == proc[p].keywords
           u == UrlOf(v)
           P == PlanOf(v, k)
           d == [pub |-> v, epoch |-> e]
           imgs == ToSet(ImagesOf(v))
<1>1. v \in 1..arrived /\ u \in Url
  BY AboutProcess DEF Locked, Working, ClaimUrl
<1>2. /\ ImagesOf(v) \in Seq(Image) /\ k \in Source
      /\ imgs \subseteq Image /\ Keys(v, k) \subseteq Posting
  BY <1>1, PubFields, Fields, KeyFacts DEF Inv
<1>3. \A j \in 1..Len(P) : Trace(store, v, k, e, P[j])
  BY DEF Inv, MadeInv, Making
<1>4. /\ \A c \in {"state", "prune", "clear"} : \E j \in 1..Len(P) : P[j].call = c
      /\ \A i \in imgs : \E j \in 1..Len(P) : P[j].call = "images" /\ i \in ToSet(P[j].batch)
      /\ \A i \in Keys(v, k) :
             \E j \in 1..Len(P) : P[j].call = "words" /\ i \in ToSet(P[j].batch)
  <2>1. ImagesOf(v) \in Seq(Image) /\ k \in Source
    BY <1>2
  <2> HIDE DEF v, k
  <2> QED
    BY <2>1, PlanCovers
<1>5. store \in StoreType
  BY DEF Inv, StoreOK
<1>6. /\ DOMAIN store.images[u] = Image /\ DOMAIN store.words[u] = Posting
  <2>1. store.images[u] \in [Image -> Doc] /\ store.words[u] \in [Posting -> Doc]
    BY <1>1, <1>5, StoreParts
  <2> QED
    BY <2>1
<1> HIDE DEF P
<1>7. store.state[u] = d
  <2>1. PICK j \in 1..Len(P) : P[j].call = "state"
    BY <1>4
  <2> QED
    BY <1>3, <2>1 DEF Trace
<1>8. Exactly(store.images[u], imgs, v, e)
  <2>1. \A i \in imgs : store.images[u][i] = d
    <3> TAKE i \in imgs
    <3>1. PICK j \in 1..Len(P) : P[j].call = "images" /\ i \in ToSet(P[j].batch)
      BY <1>4
    <3> QED
      BY <1>3, <3>1 DEF Trace
  <2>2. \A i \in Image : i \in imgs \/ Leftover(store.images[u][i], e)
    <3>1. PICK j \in 1..Len(P) : P[j].call = "prune"
      BY <1>4
    <3> QED
      BY <1>3, <3>1 DEF Trace
  <2> QED
    BY <1>6, <2>1, <2>2 DEF Exactly
<1>9. Exactly(store.words[u], imgs \X {0, k}, v, e)
  <2>1. \A i \in Keys(v, k) : store.words[u][i] = d
    <3> TAKE i \in Keys(v, k)
    <3>1. PICK j \in 1..Len(P) : P[j].call = "words" /\ i \in ToSet(P[j].batch)
      BY <1>4
    <3> QED
      BY <1>3, <3>1 DEF Trace
  <2>2. \A i \in Posting : i \in Keys(v, k) \/ Leftover(store.words[u][i], e)
    <3>1. PICK j \in 1..Len(P) : P[j].call = "clear"
      BY <1>4
    <3> QED
      BY <1>3, <3>1 DEF Trace
  <2>3. Keys(v, k) = imgs \X {0, k}
    BY DEF Keys
  <2> QED
    BY <1>6, <2>1, <2>2, <2>3 DEF Exactly
<1>10. k \in Versions(u) /\ (workload.late \/ k = metadata[u])
  BY DEF Inv, MetadataInv, KeywordsCurrent, ClaimUrl
<1>11. store.state[u].pub = v /\ store.state[u].epoch = e
  BY <1>7
<1>12. /\ Exactly(store.images[u], imgs, v, store.state[u].epoch)
       /\ Exactly(store.words[u], imgs \X {0, k}, v, store.state[u].epoch)
  BY <1>8, <1>9, <1>11
<1> QED
  BY <1>10, <1>11, <1>12 DEF WholePage

\* What a write makes of the record of a page: it stays, or becomes that of
\* the write, which is then no older.
LEMMA NoOlderRecord ==
    ASSUME TypeOK, StoreOK, NEW op, NEW w \in Url, op.pub \in Nat, op.epoch \in Nat,
           CallDoes(store, store', w, op), NEW u \in Url,
           op.epoch >= store.state[u].epoch => op.pub >= store.state[u].pub
    PROVE  store'.state[u].pub >= store.state[u].pub
<1>1. store.state[u] \in Doc
  BY StoreParts DEF StoreOK
<1>2. store.state[u].pub \in Nat /\ store.state[u].epoch \in Nat
  BY <1>1 DEF Doc
<1>3. CASE store'.state[u] = store.state[u]
  BY <1>2, <1>3
<1>4. CASE Fenced(store.state[u], op.epoch) /\ store'.state[u] = DocOf(op)
  <2>1. store'.state[u].pub = op.pub /\ op.epoch >= store.state[u].epoch
    BY <1>2, <1>4 DEF DocOf, Fenced
  <2> QED
    BY <2>1
<1> QED
  BY <1>3, <1>4 DEF CallDoes

\* The documents of a page are written with the lock of its URL, or by a call
\* given up under that lock that lands late, always by calls whose epoch its
\* record does not exceed, and claims of later epochs are of later
\* publications: the record of a page never goes back to an older
\* publication, whatever process writes it and however late.
THEOREM RecordNeverGoesBack == Spec => RecordNeverBackwards
<1> USE DEF RecordNeverBackwards
<1>1. ASSUME Inv, [Next]_vars
      PROVE  [\A u \in Url : store'.state[u].pub >= store.state[u].pub]_vars
  <2>0. /\ TypeOK /\ StoreOK /\ ProcInv /\ MadeInv /\ StampInv /\ LateInv /\ LateStamps
    BY <1>1 DEF Inv
  <2>1. \A u \in Url : store.state[u].pub \in Nat /\ store.state[u].epoch \in Nat
    BY <2>0, StampNumbers
  <2>2. \/ store' = store
        \/ \E p \in Proc : Write(p)
        \/ \E op \in late : WriteLands(op)
    BY <1>1, StoreMoves
  <2>3. ASSUME NEW p \in Proc, Write(p), NEW u \in Url
        PROVE  store'.state[u].pub >= store.state[u].pub
    <3>1. Stores(p)
      <4> DEFINE new == Apply(store, OpOf(p))
      <4>1. proc[p].pc = "write" /\ (store' = new \/ store' \in {store, new})
        BY <2>3 DEF Write, OpOf
      <4> QED
        BY <4>1 DEF Stores
    <3>2. CASE store' = store
      BY <2>1, <3>2
    <3>3. CASE store' # store
      <4>1. /\ proc[p].claim \in 1..arrived /\ proc[p].epoch \in Nat /\ ClaimUrl(p) \in Url
            /\ CallDoes(store, store', ClaimUrl(p), OpOf(p))
            /\ OpOf(p).pub = proc[p].claim /\ OpOf(p).epoch = proc[p].epoch
        BY <2>0, <3>1, <3>3, StoresFacts
      <4>2. proc[p].claim # 0 /\ proc[p].claim \in Nat
        <5>1. arrived \in Nat
          BY <2>0, PubFields, ManifestAssumption
        <5> QED
          BY <4>1, <5>1
      <4>3. proc[p].epoch >= store.state[u].epoch => proc[p].claim >= store.state[u].pub
        BY <2>0, <4>2 DEF StampInv
      <4> QED
        BY <2>0, <4>1, <4>2, <4>3, NoOlderRecord
    <3> QED
      BY <3>2, <3>3
  <2>4. ASSUME NEW op \in late, WriteLands(op), NEW u \in Url
        PROVE  store'.state[u].pub >= store.state[u].pub
    <3>1. op \in OpType /\ store \in StoreType /\ store' = Apply(store, op)
      BY <2>0, <2>4 DEF LateInv, StoreOK, WriteLands
    <3>2. /\ CallDoes(store, store', UrlOf(op.pub), op) /\ UrlOf(op.pub) \in Url
          /\ op.pub \in Nat /\ op.epoch \in Nat
      <4>1. op.pub \in 1..arrived /\ op.epoch \in Nat /\ arrived \in Nat
        BY <2>0, <3>1, PubFields, ManifestAssumption DEF OpType
      <4> QED
        BY <2>0, <3>1, <4>1, CallFacts, PubFields
    <3>3. op.epoch >= store.state[u].epoch => op.pub >= store.state[u].pub
      BY <2>0 DEF LateStamps
    <3> QED
      BY <2>0, <3>2, <3>3, NoOlderRecord
  <2> QED
    BY <2>1, <2>2, <2>3, <2>4
<1> QED
  BY <1>1, InvHolds, PTL DEF Spec

\* An acknowledged page is whole: its record, its associations and its postings
\* are all of the acknowledged publication, under the epoch of the record, with
\* the keywords of one version of the metadata.  Attempts that failed halfway
\* have left nothing, unless a write of theirs landed late: then documents of
\* other images or words may be left, of epochs below the record's, and the
\* keywords may be old ones.
THEOREM AcksAreWhole == Spec => AckedPageIsWhole
<1> USE DEF AckedPageIsWhole
<1> DEFINE Whole(v) ==
        LET u    == UrlOf(v)
            e    == store.state[u].epoch
            imgs == ToSet(ImagesOf(v))
        IN  /\ store.state[u].pub = v
            /\ Exactly(store.images[u], imgs, v, e)
            /\ \E k \in Versions(u) :
                  /\ workload.late \/ k = metadata[u]
                  /\ Exactly(store.words[u], imgs \X {0, k}, v, e)
<1>1. ASSUME Inv, [Next]_vars
      PROVE  [\A v \in done' \ done : Whole(v)]_vars
  <2>1. ASSUME NEW p \in Proc, proc[p].pc = "finish"
        PROVE  Whole(proc[p].claim)
    BY <1>1, <2>1, FinishedIsWhole DEF WholePage
  <2>2. \A v \in done' \ done : \E p \in Proc : proc[p].pc = "finish" /\ proc[p].claim = v
    BY <1>1, DoneMoves
  <2>3. \A v \in done' \ done : Whole(v)
    <3> HIDE DEF Whole
    <3> QED
      BY <2>1, <2>2
  <2> QED
    BY <2>3
<1> QED
  BY <1>1, InvHolds, PTL DEF Spec

-----------------------------------------------------------------------------
(* The queue of the image indexer implements OwnedQueue. *)

\* Whatever a process does, its queue makes a step of one script or none.
LEMMA ScriptOfStep ==
    ASSUME NEW p \in Proc, Start(p) \/ Terminate(p) \/ Crash(p) \/ RunIndexer(p)
    PROVE  LET e == proc[p].epoch
               v == proc[p].claim
           IN  \/ Unmoved
               \/ Queue!AcquireLock
               \/ Queue!DropLock(e) \/ Queue!ClaimScript(e) \/ Queue!RecoverScript(e)
               \/ Queue!ReleaseScript(e, v) \/ Queue!QuarantineScript(e, v)
               \/ Queue!FinishScript(e, v)
<1>1. CASE Start(p) \/ Terminate(p) \/ Crash(p)
  BY <1>1 DEF Start, Terminate, Crash, Unmoved
<1>2. CASE AckWork(p)
  BY <1>2 DEF AckWork
<1>3. CASE \/ LeaveClaim(p) \/ AcquireCanonical(p) \/ GetKeywords(p) \/ Write(p)
           \/ UnlockCanonical(p)
  BY <1>3 DEF LeaveClaim, AcquireCanonical, GetKeywords, Write, UnlockCanonical
<1>4. CASE AcquireOwner(p) \/ ReleaseOwner(p)
  BY <1>4 DEF AcquireOwner, ReleaseOwner
<1>5. CASE RecoverClaims(p) \/ ClaimManifest(p) \/ ReleaseClaim(p)
  BY <1>5 DEF RecoverClaims, ClaimManifest, ReleaseClaim
<1>6. CASE QuarantineInvalid(p) \/ LoadWork(p)
  BY <1>6 DEF QuarantineInvalid, LoadWork
<1> QED
  BY <1>1, <1>2, <1>3, <1>4, <1>5, <1>6 DEF RunIndexer, ProcessClaim

\* A script of a process that holds the lock, on the claim that is open, is a
\* step of the owned queue.
LEMMA ScriptIsQueueStep ==
    ASSUME Inv, NEW p \in Proc, Start(p) \/ Terminate(p) \/ Crash(p) \/ RunIndexer(p)
    PROVE  [Queue!QueueNext]_(Queue!queueVars)
<1> DEFINE e == proc[p].epoch
           v == proc[p].claim
<1>1. Queue!Holds(e) => e \in 1..epoch
  <2>1. e \in Nat /\ epoch \in Nat
    BY AboutProcess
  <2> QED
    BY <2>1 DEF Queue!Holds
<1>2. Contains(processing, v) => v \in Pub
  <2> SUFFICES ASSUME Contains(processing, v)
               PROVE  v \in Pub
    OBVIOUS
  <2>1. v \in 1..arrived
    BY OutOfLine DEF Inv
  <2>2. arrived \in 0..NPub /\ NPub \in Nat
    BY PubFields, ManifestAssumption DEF Inv
  <2> QED
    BY <2>1, <2>2 DEF Pub
<1>3. \/ Unmoved
      \/ Queue!AcquireLock
      \/ Queue!DropLock(e) \/ Queue!ClaimScript(e) \/ Queue!RecoverScript(e)
      \/ Queue!ReleaseScript(e, v) \/ Queue!QuarantineScript(e, v)
      \/ Queue!FinishScript(e, v)
  BY ScriptOfStep
<1>4. CASE Unmoved
  BY <1>4 DEF Unmoved, queueVars, Queue!queueVars
<1>5. CASE Queue!AcquireLock
  BY <1>5 DEF Queue!QueueNext
<1>6. CASE Queue!DropLock(e) \/ Queue!ClaimScript(e) \/ Queue!RecoverScript(e)
  <2>1. e \in 1..epoch
    BY <1>1, <1>6 DEF Queue!DropLock, Queue!ClaimScript, Queue!RecoverScript
  <2> QED
    BY <1>6, <2>1 DEF Queue!QueueNext
<1>7. CASE Queue!ReleaseScript(e, v) \/ Queue!QuarantineScript(e, v) \/ Queue!FinishScript(e, v)
  <2>1. Queue!Holds(e) /\ Contains(processing, v)
    BY <1>7, SameOperators
       DEF Queue!ReleaseScript, Queue!QuarantineScript, Queue!FinishScript
  <2>2. e \in 1..epoch /\ v \in Pub
    BY <1>1, <1>2, <2>1
  <2> QED
    BY <1>7, <2>2 DEF Queue!QueueNext
<1> QED
  BY <1>3, <1>4, <1>5, <1>6, <1>7

\* A manifest that arrives is a value no list has had and no acknowledgement.
LEMMA ArrivalIsFresh ==
    ASSUME Inv, Arrive
    PROVE  arrived + 1 \in Pub /\ Queue!Fresh(arrived + 1)
<1> DEFINE n == arrived + 1
           s == queue \o processing \o dead
<1>1. /\ queue \in Seq(1..arrived) /\ processing \in Seq(1..arrived)
      /\ dead \in Seq(1..arrived) /\ done \in SUBSET (1..arrived)
  BY DEF Inv, TypeOK
<1>2. arrived \in Nat /\ n \notin 1..arrived /\ n \in Pub
  <2>1. Len(workload.pubs) <= NPub /\ NPub \in Nat /\ Len(workload.pubs) \in Nat
        /\ arrived \in 0..Len(workload.pubs) /\ arrived < Len(workload.pubs)
    <3>1. workload \in Workloads /\ arrived \in 0..Len(workload.pubs)
      BY DEF Inv, TypeOK
    <3> QED
      BY <3>1, ManifestAssumption DEF Arrive
  <2> QED
    BY <2>1 DEF Pub
<1>3. \A i \in 1..Len(s) : s[i] \in 1..arrived
  <2> DEFINE A == 1..arrived
  <2>1. s \in Seq(A)
    BY <1>1
  <2>2. \A t \in Seq(A) : \A i \in 1..Len(t) : t[i] \in A
    <3> HIDE DEF A
    <3> QED
      OBVIOUS
  <2> HIDE DEF s
  <2> QED
    BY <2>1, <2>2
<1> HIDE DEF n, s
<1>4. ~Contains(s, n)
  BY <1>2, <1>3 DEF Contains
<1>5. n \notin done
  BY <1>1, <1>2
<1>6. Queue!Fresh(n)
  BY <1>4, <1>5, SameOperators DEF Queue!Fresh, s
<1> QED
  BY <1>2, <1>6 DEF n

\* Every step of the image indexer's system is a step of the owned queue or
\* leaves it as it was.
LEMMA QueueRefines ==
    ASSUME Inv, [Next]_vars
    PROVE  [Queue!QueueNext]_(Queue!queueVars)
<1>1. ASSUME NEW p \in Proc, Start(p) \/ Terminate(p) \/ Crash(p) \/ RunIndexer(p)
      PROVE  [Queue!QueueNext]_(Queue!queueVars)
  BY <1>1, ScriptIsQueueStep
<1>2. CASE Arrive
  <2>1. arrived + 1 \in Pub /\ Queue!Fresh(arrived + 1)
    BY <1>2, ArrivalIsFresh
  <2>2. Queue!Push(arrived + 1)
    BY <1>2 DEF Arrive
  <2> QED
    BY <2>1, <2>2 DEF Queue!QueueNext
<1>3. CASE LockExpires
  BY <1>3 DEF LockExpires, Queue!QueueNext
<1>4. ASSUME UNCHANGED queueVars
      PROVE  [Queue!QueueNext]_(Queue!queueVars)
  BY <1>4 DEF queueVars, Queue!queueVars
<1>5. CASE \/ UNCHANGED vars \/ PageIndexerSteps
           \/ \E u \in Url : OperatorClears(u)
           \/ \E op \in late : WriteLands(op)
  <2>1. UNCHANGED queueVars
    BY <1>5 DEF vars, PageIndexerSteps, PageLocks, MetadataMoves, PageUnlocks, MetadataLands,
                OperatorClears, WriteLands
  <2> QED
    BY <1>4, <2>1
<1> QED
  BY <1>1, <1>2, <1>3, <1>5 DEF Next, ServiceNext

\* The queue that the image indexer's processes drive through their scripts is
\* the owner-fenced queue: only the holder of the lock moves manifests, no
\* manifest is queued twice, and each script leaves the claims the way
\* OwnedQueue says.
THEOREM ImageQueueImplementsOwnedQueue == Spec => Queue!QueueSpec
<1>1. Init => Queue!QueueInit
  BY DEF Init
<1> QED
  BY <1>1, InvHolds, QueueRefines, PTL DEF Spec, Queue!QueueSpec
=============================================================================

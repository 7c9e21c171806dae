-------------------------- MODULE PageIndexerProofs --------------------------
(***************************************************************************)
(* Proofs about the page indexer.                                          *)
(*                                                                         *)
(* The inductive invariant rests on one observation: the queue followed by *)
(* the claims is one falling line of publications.  The producer adds the  *)
(* newest at its left end; a claim, a recovery and a release move the      *)
(* border between the two lists and leave the line as it is; a completion, *)
(* a skip and a quarantine take the last of the line away.  So whatever    *)
(* has been settled is older than whatever waits.                          *)
(***************************************************************************)
EXTENDS PageIndexer, FiniteSetTheorems, SequenceTheorems, TLAPS

Places0 == {"down", "acquire"}
Busy    == {"claimed", "load", "write", "finish"}
PcNames == Places0 \cup Busy
               \cup {"recover", "loop", "signal", "claim", "unlock", "release", "exit"}
CallNames == {"artifact", "stale", "words", "dictionary", "metadata", "outlinks",
              "no words", "no metadata", "no outlinks"}

\* A page that can be read, whether or not it can be indexed; and the others.
Readable == {"page", "rendered", "empty", "rendered empty"}
Bad == {"corrupt", "invalid"}

Outcomes == {"none", "dead", "failed", "done"}

ProcRecord == [pc : PcNames, epoch : Nat, claim : Nat, running : BOOLEAN,
               sent : BOOLEAN, todo : Seq(CallNames),
               outcome : Outcomes]
Doc      == [pub : Nat, epoch : Nat]
LockDoc  == [service : {"none", "page"}, pub : Nat, epoch : Nat]
WriteOp  == [call : CallNames, pub : 1..published, epoch : Nat]

StoreType == [words : [Url -> [Word -> Doc]], meta : [Url -> Doc], links : [Url -> Doc],
              artifact : [Url -> Doc], dictionary : SUBSET Word]

MongoOK ==
    /\ canonical \in [Url -> LockDoc]
    /\ store \in StoreType
    /\ late \subseteq WriteOp

TypeOK ==
    /\ workload \in Workloads
    /\ published \in 0..Len(workload.pubs)
    /\ epoch \in Nat /\ owner \in {0, epoch}
    /\ queue \in Seq(1..published)
    /\ processing \in Seq(1..published)
    /\ dead \in Seq(1..published)
    /\ done \subseteq 1..published
    /\ inputs \subseteq 1..published
    /\ MongoOK
    /\ proc \in [Proc -> ProcRecord]

\* The line of publications, and what is already out of it.
LineInv ==
    /\ Len(processing) <= 1
    /\ \A i, j \in 1..Len(queue) : i < j => queue[i] > queue[j]
    /\ \A i \in 1..Len(queue) : \A j \in 1..Len(processing) : queue[i] > processing[j]
    /\ \A v \in done :
          /\ \A i \in 1..Len(queue) : v < queue[i]
          /\ \A i \in 1..Len(processing) : v < processing[i]
    /\ \A k \in 1..Len(dead) :
          /\ \A i \in 1..Len(queue) : dead[k] < queue[i]
          /\ \A i \in 1..Len(processing) : dead[k] < processing[i]

\* The dead-letter list holds distinct bad publications and nothing handed on.
DeadInv ==
    /\ \A i, j \in 1..Len(dead) : i < j => dead[i] > dead[j]
    /\ Len(dead) <= DeadMax
    /\ \A k \in 1..Len(dead) : dead[k] \notin done /\ Kind(dead[k]) \in Bad

\* No publication is lost, and the inputs of the waiting ones exist.
KeptInv ==
    /\ \A v \in 1..published :
          \/ Contains(queue, v) \/ Contains(processing, v) \/ Contains(dead, v)
          \/ v \in done
          \/ Kind(v) \in Bad /\ Len(dead) = DeadMax
    /\ \A i \in 1..Len(queue) : Kind(queue[i]) # "corrupt" => queue[i] \in inputs
    /\ \A i \in 1..Len(processing) :
          Kind(processing[i]) # "corrupt" => processing[i] \in inputs

ListInv == LineInv /\ DeadInv /\ KeptInv

\* A corrupt publication has no inputs.
InputsInv == \A v \in inputs : Kind(v) # "corrupt"

\* The processes that run have epochs of their own, and a claim when they
\* work on one.
ProcInv ==
    /\ \A p \in Proc : proc[p].epoch <= epoch
    /\ \A p \in Proc : proc[p].epoch = 0 <=> proc[p].pc \in Places0
    /\ \A p, q \in Proc : p # q /\ proc[p].epoch = proc[q].epoch => proc[p].epoch = 0
    /\ \A p \in Proc :
          proc[p].pc \in Busy \cup {"unlock", "release"} => proc[p].claim \in 1..published
    /\ \A p \in Proc :
          proc[p].pc \in {"load", "write", "finish"} =>
              Kind(proc[p].claim) \notin {"invalid"}
    /\ \A p \in Proc : proc[p].pc = "write" => proc[p].todo # <<>>

\* What the claims are while the process of epoch e is at place l: own is the
\* epoch in the lock and top the last epoch given.
OwnClaims(own, top, claims, e, l, c, o) ==
    (e # 0 /\ own = e /\ top = e) =>
        /\ l \in {"loop", "signal", "claim"} => claims = <<>>
        /\ l = "unlock" /\ o # "failed" => claims = <<>>
        /\ l \in Busy => claims = <<c>>

\* The owner claims only when no claim is left, and its claim stays claimed
\* until it hands the publication on, quarantines it or gives it back.
ClaimInv ==
    \A p \in Proc : OwnClaims(owner, epoch, processing, proc[p].epoch, proc[p].pc,
                              proc[p].claim, proc[p].outcome)

\* From the acquisition to the release the canonical lock is the process's.
LockInv ==
    \A p \in Proc : proc[p].pc \in {"load", "write", "finish", "unlock"} =>
        canonical[ClaimUrl(p)] = Mine(p)

Inv == TypeOK /\ ListInv /\ InputsInv /\ ProcInv /\ ClaimInv /\ LockInv

-----------------------------------------------------------------------------
(* What the scripts do to lists that hold at most one claim. *)

\* Taking the one claim out of the processing list leaves it empty.
LEMMA RemoveOnly ==
    ASSUME NEW S, NEW s \in Seq(S), NEW e, Len(s) <= 1, Contains(s, e)
    PROVE  s = <<e>> /\ RemoveFirst(s, e) = <<>>
<1>1. Len(s) = 1 /\ s[1] = e
  BY DEF Contains
<1>2. s = <<e>>
  BY <1>1
<1>3. {i \in 1..Len(s) : s[i] = e} = {1}
  BY <1>1
<1>4. Min({1}) = 1
  BY DEF Min
<1>5. RemoveFirst(s, e) = RemoveAt(s, 1)
  <2>1. SelectInSeq(s, LAMBDA v : v = e) = IF {1} # {} THEN Min({1}) ELSE 0
    BY <1>3 DEF SelectInSeq
  <2>2. SelectInSeq(s, LAMBDA v : v = e) = 1
    BY <1>4, <2>1
  <2>3. \E i \in 1..Len(s) : s[i] = e
    BY <1>1
  <2> QED
    BY <2>2, <2>3 DEF RemoveFirst
<1>6. RemoveAt(s, 1) = <<>>
  BY <1>1 DEF RemoveAt
<1> QED
  BY <1>2, <1>5, <1>6

\* A sequence cut to its first m elements.
LEMMA CutFacts ==
    ASSUME NEW S, NEW s \in Seq(S), NEW m \in Nat, m <= Len(s)
    PROVE  /\ SubSeq(s, 1, m) \in Seq(S) /\ Len(SubSeq(s, 1, m)) = m
           /\ \A i \in 1..m : SubSeq(s, 1, m)[i] = s[i]
OBVIOUS

\* A sequence without its last element.
LEMMA FrontFacts ==
    ASSUME NEW S, NEW s \in Seq(S), s # <<>>
    PROVE  /\ Len(s) \in Nat \ {0} /\ Last(s) \in S /\ Last(s) = s[Len(s)]
           /\ Front(s) \in Seq(S) /\ Len(Front(s)) = Len(s) - 1
           /\ \A i \in 1..Len(s) - 1 : Front(s)[i] = s[i]
<1>1. Len(s) \in Nat \ {0} /\ s[Len(s)] \in S
  OBVIOUS
<1>2. Len(s) - 1 \in Nat /\ Len(s) - 1 <= Len(s)
  BY <1>1
<1> QED
  BY <1>1, <1>2, CutFacts DEF Front, Last

\* A sequence with one more element at its left end.
LEMMA PrependFacts ==
    ASSUME NEW S, NEW s \in Seq(S), NEW x \in S
    PROVE  /\ <<x>> \o s \in Seq(S) /\ Len(<<x>> \o s) = Len(s) + 1
           /\ (<<x>> \o s)[1] = x
           /\ \A i \in 1..Len(s) : (<<x>> \o s)[i + 1] = s[i]
           /\ \A i \in 1..Len(s) + 1 : i # 1 => (<<x>> \o s)[i] = s[i - 1]
OBVIOUS

\* A sequence with at most one element behind it.
LEMMA BehindFacts ==
    ASSUME NEW S, NEW s \in Seq(S), NEW t \in Seq(S), Len(t) <= 1
    PROVE  /\ s \o t \in Seq(S) /\ Len(s \o t) = Len(s) + Len(t)
           /\ \A i \in 1..Len(s) : (s \o t)[i] = s[i]
           /\ \A i \in 1..Len(s \o t) : i > Len(s) => i = Len(s) + 1 /\ (s \o t)[i] = t[1]
           /\ Len(t) = 1 => (s \o t)[Len(s) + 1] = t[1]
OBVIOUS

\* List q is list s of at most n elements, with x pushed in at the left.
Trimmed(q, s, x, n, S) ==
    /\ q \in Seq(S) /\ q[1] = x
    /\ Len(q) = IF Len(s) = n THEN n ELSE Len(s) + 1
    /\ \A i \in 1..Len(q) : i # 1 => q[i] = s[i - 1]

\* A bounded list pushed from the left keeps the newest elements.
LEMMA TrimFacts ==
    ASSUME NEW S, NEW s \in Seq(S), NEW x \in S, NEW n \in Nat \ {0}, Len(s) <= n
    PROVE  Trimmed(Queue!AtMost(n, <<x>> \o s), s, x, n, S)
<1> DEFINE q == Queue!AtMost(n, <<x>> \o s)
<1> DEFINE t == <<x>> \o s
<1>1. /\ t \in Seq(S) /\ Len(t) = Len(s) + 1 /\ t[1] = x /\ Len(s) \in Nat
      /\ \A i \in 1..Len(s) + 1 : i # 1 => t[i] = s[i - 1]
  BY PrependFacts
<1> DEFINE m == IF n < Len(t) THEN n ELSE Len(t)
<1>2. /\ m \in Nat \ {0} /\ m <= Len(t)
      /\ m = IF Len(s) = n THEN n ELSE Len(s) + 1
  BY <1>1
<1> HIDE DEF t
<1>3. q = SubSeq(t, 1, m)
  BY DEF Queue!AtMost, t
<1> HIDE DEF m, q
<1>4. /\ SubSeq(t, 1, m) \in Seq(S) /\ Len(SubSeq(t, 1, m)) = m
      /\ \A i \in 1..m : SubSeq(t, 1, m)[i] = t[i]
  <2>1. t \in Seq(S) /\ m \in Nat /\ m <= Len(t)
    BY <1>1, <1>2
  <2> QED
    BY <2>1, CutFacts
<1>5. q \in Seq(S) /\ Len(q) = m /\ \A i \in 1..m : q[i] = t[i]
  BY <1>3, <1>4
<1>6. \A i \in 1..Len(q) : i # 1 => i \in 1..Len(s) + 1 /\ q[i] = s[i - 1]
  BY <1>1, <1>2, <1>5
<1> QED
  BY <1>1, <1>2, <1>5, <1>6 DEF q, Trimmed

\* OwnedQueue has the sequence operators under its own name.
LEMMA SameOperators ==
    ASSUME NEW s, NEW e
    PROVE  /\ Queue!Front(s) = Front(s) /\ Queue!Last(s) = Last(s)
           /\ Queue!Contains(s, e) <=> Contains(s, e)
           /\ Queue!RemoveFirst(s, e) = RemoveFirst(s, e)
<1>1. Queue!Front(s) = Front(s) /\ Queue!Last(s) = Last(s)
  BY DEF Queue!Front, Queue!Last, Front, Last
<1>2. Queue!Contains(s, e) <=> Contains(s, e)
  BY DEF Queue!Contains, Contains
<1>3. Queue!RemoveFirst(s, e) = RemoveFirst(s, e)
  BY DEF Queue!RemoveFirst, Queue!RemoveAt, Queue!SelectInSeq, Queue!Min,
         RemoveFirst, RemoveAt, SelectInSeq, Min
<1> QED
  BY <1>1, <1>2, <1>3

\* A sequence with one element.
LEMMA OneElement ==
    ASSUME NEW S, NEW s \in Seq(S), Len(s) = 1
    PROVE  s[1] \in S /\ s = <<s[1]>>
<1>1. s[1] \in S
  OBVIOUS
<1>2. s = <<s[1]>>
  OBVIOUS
<1> QED
  BY <1>1, <1>2

\* A sequence with at most one element.
LEMMA NoneOrOne ==
    ASSUME NEW S, NEW s \in Seq(S), Len(s) <= 1
    PROVE  s = <<>> \/ (Len(s) = 1 /\ s[1] \in S /\ s = <<s[1]>>)
<1>1. CASE s = <<>>
  BY <1>1
<1>2. CASE s # <<>>
  <2> DEFINE n == Len(s)
  <2>1. n \in Nat \ {0} /\ n <= 1
    BY <1>2
  <2> HIDE DEF n
  <2>2. n = 1
    BY <2>1
  <2>3. Len(s) = 1
    BY <2>2 DEF n
  <2> QED
    BY <2>3, OneElement
<1> QED
  BY <1>1, <1>2

\* The lists as sequences over one set.
LEMMA ListSets ==
    ASSUME TypeOK
    PROVE  /\ published \in Nat
           /\ queue \in Seq(1..published) /\ processing \in Seq(1..published)
           /\ dead \in Seq(1..published)
           /\ done \subseteq 1..published /\ inputs \subseteq 1..published
BY WorkloadAssumption DEF TypeOK

\* The lists as numbers.
LEMMA ListNumbers ==
    ASSUME TypeOK
    PROVE  /\ published \in Nat
           /\ Len(queue) \in Nat /\ \A i \in 1..Len(queue) : queue[i] \in 1..published
           /\ Len(processing) \in Nat
           /\ \A i \in 1..Len(processing) : processing[i] \in 1..published
           /\ Len(dead) \in Nat /\ \A i \in 1..Len(dead) : dead[i] \in 1..published
           /\ \A v \in done : v \in 1..published
BY ListSets

\* The claim script moves the last of the queue into the empty list of claims.
LEMMA ClaimMoves ==
    ASSUME TypeOK, NEW e, Queue!ClaimScript(e), processing = <<>>
    PROVE  /\ queue' \in Seq(1..published) /\ Last(queue) \in 1..published
           /\ processing' = <<Last(queue)>>
           /\ Len(queue') = Len(queue) - 1 /\ Len(queue) \in Nat \ {0}
           /\ \A i \in 1..Len(queue') : queue'[i] = queue[i]
           /\ Last(queue) = queue[Len(queue)]
<1>1. queue \in Seq(1..published) /\ queue # <<>> /\ queue' = Front(queue)
  BY ListSets, SameOperators DEF Queue!ClaimScript
<1>2. Last(queue) \in 1..published /\ processing' = <<Last(queue)>> \o <<>>
  BY <1>1, FrontFacts, SameOperators DEF Queue!ClaimScript
<1>3. processing' = <<Last(queue)>>
  BY <1>2
<1> QED
  BY <1>1, <1>3, FrontFacts

\* Recovery puts the one claim back behind the queue, where it came from.
LEMMA RecoverMoves ==
    ASSUME TypeOK, NEW e, Queue!RecoverScript(e), Len(processing) <= 1
    PROVE  queue' = queue \o processing /\ processing' = <<>>
<1>1. /\ RecoverBatch \in Nat \ {0} /\ Len(processing) \in Nat
      /\ processing \in Seq(1..published)
  BY WorkloadAssumption, ListSets
<1>2. Queue!AtMost(RecoverBatch, processing) = SubSeq(processing, 1, Len(processing))
  BY <1>1 DEF Queue!AtMost
<1>3. SubSeq(processing, 1, Len(processing)) = processing
  BY <1>1
<1>4. SubSeq(processing, Len(processing) + 1, Len(processing)) = <<>>
  BY <1>1
<1> QED
  BY <1>2, <1>3, <1>4 DEF Queue!RecoverScript

-----------------------------------------------------------------------------
(* Each script keeps the line, the dead-letter list and the inputs whole.  *)

\* A claim carries the last of the queue over: the line stays as it is.
LEMMA ClaimKeepsLists ==
    ASSUME TypeOK, ListInv, NEW e, Queue!ClaimScript(e), processing = <<>>,
           UNCHANGED <<inputs, published, workload>>
    PROVE  ListInv'
<1>1. /\ queue' \in Seq(1..published) /\ Last(queue) \in 1..published
      /\ processing' = <<Last(queue)>>
      /\ Len(queue') = Len(queue) - 1 /\ Len(queue) \in Nat \ {0}
      /\ \A i \in 1..Len(queue') : queue'[i] = queue[i]
      /\ Last(queue) = queue[Len(queue)]
  BY ClaimMoves
<1>2. dead' = dead /\ done' = done /\ dead \in Seq(1..published)
  BY DEF Queue!ClaimScript, TypeOK
<1>3. Len(processing') = 1 /\ processing'[1] = queue[Len(queue)] /\ Len(processing) = 0
  BY <1>1
<1>4. queue \in Seq(1..published) /\ published \in Nat
  BY ListSets
<1>5. \A v : Contains(queue, v) => Contains(queue', v) \/ Contains(processing', v)
  <2> SUFFICES ASSUME NEW v, NEW i \in 1..Len(queue), queue[i] = v
               PROVE  Contains(queue', v) \/ Contains(processing', v)
    BY DEF Contains
  <2>1. CASE i = Len(queue)
    BY <1>3, <2>1 DEF Contains
  <2>2. CASE i # Len(queue)
    <3>1. i \in 1..Len(queue') /\ queue'[i] = v
      BY <1>1, <2>2
    <3> QED
      BY <3>1 DEF Contains
  <2> QED
    BY <2>1, <2>2
<1>6. LineInv'
  BY SMTT(30), <1>1, <1>2, <1>3, <1>4 DEF ListInv, LineInv
<1>7. DeadInv'
  BY <1>2 DEF ListInv, DeadInv, Kind
<1>8. KeptInv'
  <2>1. \A v : ~Contains(processing, v)
    BY <1>3 DEF Contains
  <2>2. \A v \in 1..published :
           \/ Contains(queue', v) \/ Contains(processing', v) \/ Contains(dead', v)
           \/ v \in done'
           \/ Kind(v) \in Bad /\ Len(dead') = DeadMax
    BY <1>2, <1>5, <2>1 DEF ListInv, KeptInv
  <2>3. /\ \A i \in 1..Len(queue') : Kind(queue'[i]) # "corrupt" => queue'[i] \in inputs
        /\ \A i \in 1..Len(processing') :
              Kind(processing'[i]) # "corrupt" => processing'[i] \in inputs
    BY <1>1, <1>3, <1>4 DEF ListInv, KeptInv
  <2> QED
    BY <2>2, <2>3 DEF KeptInv, Kind
<1> QED
  BY <1>6, <1>7, <1>8 DEF ListInv

\* Recovery and release put the claim back where it came from.
LEMMA GiveBackKeepsLists ==
    ASSUME TypeOK, ListInv, queue' = queue \o processing,
           processing' = <<>>, UNCHANGED <<dead, done, inputs, published, workload>>
    PROVE  ListInv'
<1>1. queue \in Seq(1..published) /\ processing \in Seq(1..published)
  BY ListSets
<1>2. \/ processing = <<>>
      \/ Len(processing) = 1 /\ processing[1] \in 1..published /\ processing = <<processing[1]>>
  <2>1. Len(processing) <= 1
    BY DEF ListInv, LineInv
  <2> QED
    BY <1>1, <2>1, NoneOrOne
<1>3. CASE processing = <<>>
  <2>1. queue' = queue /\ processing' = processing
    BY <1>1, <1>3
  <2> QED
    BY <2>1 DEF ListInv, LineInv, DeadInv, KeptInv, Kind
<1>4. CASE Len(processing) = 1 /\ processing[1] \in 1..published
  <2> DEFINE x == processing[1]
             q == queue \o processing
             n == Len(queue)
  <2>1. /\ q \in Seq(1..published) /\ Len(q) = n + 1
        /\ \A k \in 1..n : q[k] = queue[k]
        /\ \A k \in 1..Len(q) : k > n => k = n + 1 /\ q[k] = processing[1]
        /\ q[n + 1] = x
    <3>1. Len(processing) <= 1
      BY DEF ListInv, LineInv
    <3>2. /\ q \in Seq(1..published) /\ Len(q) = n + Len(processing)
          /\ \A k \in 1..n : q[k] = queue[k]
          /\ \A k \in 1..Len(q) : k > n => k = n + 1 /\ q[k] = processing[1]
          /\ Len(processing) = 1 => q[n + 1] = processing[1]
      BY <1>1, <3>1, BehindFacts
    <3> HIDE DEF q, n
    <3> QED
      BY <1>4, <3>2
  <2>2. n \in Nat /\ published \in Nat /\ \A k \in 1..n : queue[k] \in 1..published
    BY ListNumbers
  <2>3. queue' = q /\ processing' = <<>> /\ x \in 1..published
    BY <1>4
  <2>4. /\ \A k, m \in 1..n : k < m => queue[k] > queue[m]
        /\ \A k \in 1..n : queue[k] > x
        /\ \A v \in done : v < x /\ \A k \in 1..n : v < queue[k]
        /\ \A d \in 1..Len(dead) : dead[d] < x /\ \A k \in 1..n : dead[d] < queue[k]
    BY <1>4 DEF ListInv, LineInv
  <2>5. \A v : Contains(queue, v) <=> \E k \in 1..n : queue[k] = v
    BY DEF Contains
  <2>6. \A v : Contains(processing, v) <=> v = x
    BY <1>4 DEF Contains
  <2>7. /\ \A k \in 1..n : Kind(queue[k]) # "corrupt" => queue[k] \in inputs
        /\ Kind(x) # "corrupt" => x \in inputs
    BY <1>4 DEF ListInv, KeptInv
  <2>8. \A v : Contains(q, v) <=> \E k \in 1..Len(q) : q[k] = v
    BY DEF Contains
  <2> HIDE DEF x, q, n
  <2>9. \A k \in 1..n + 1 : (k \in 1..n /\ q[k] = queue[k]) \/ (k = n + 1 /\ q[k] = x)
    BY <2>1, <2>2
  <2>10. LineInv'
    <3>1. /\ \A k, m \in 1..n + 1 : k < m => q[k] > q[m]
          /\ \A v \in done : \A k \in 1..n + 1 : v < q[k]
          /\ \A d \in 1..Len(dead) : \A k \in 1..n + 1 : dead[d] < q[k]
      BY <2>2, <2>4, <2>9
    <3> QED
      BY <2>1, <2>3, <3>1 DEF LineInv
  <2>11. DeadInv'
    BY DEF ListInv, DeadInv, Kind
  <2>12. KeptInv'
    <3>1. \A v : Contains(queue, v) \/ Contains(processing, v) => Contains(q, v)
      <4>1. Contains(q, x)
        BY <2>1, <2>2, <2>8
      <4>2. ASSUME NEW k \in 1..n
            PROVE  Contains(q, queue[k])
        BY <2>1, <2>2, <2>8
      <4> QED
        BY <2>5, <2>6, <4>1, <4>2
    <3>2. \A v \in 1..published :
             \/ Contains(q, v) \/ Contains(dead, v) \/ v \in done
             \/ Kind(v) \in Bad /\ Len(dead) = DeadMax
      BY <3>1 DEF ListInv, KeptInv
    <3>3. \A k \in 1..n + 1 : Kind(q[k]) # "corrupt" => q[k] \in inputs
      BY <2>7, <2>9
    <3> QED
      BY <2>1, <2>3, <3>2, <3>3 DEF KeptInv, Kind
  <2> QED
    BY <2>10, <2>11, <2>12 DEF ListInv
<1> QED
  BY <1>2, <1>3, <1>4

\* The newest publication joins the line at its left end.
LEMMA PublishKeepsLists ==
    ASSUME TypeOK, ListInv, Publish
    PROVE  ListInv'
<1> DEFINE n == published + 1
<1>1. /\ published \in Nat /\ Len(queue) \in Nat /\ Len(processing) \in Nat
      /\ \A i \in 1..Len(queue) : queue[i] \in 1..published
      /\ \A i \in 1..Len(processing) : processing[i] \in 1..published
      /\ \A i \in 1..Len(dead) : dead[i] \in 1..published
      /\ \A v \in done : v \in 1..published
  BY ListNumbers
<1>2. /\ queue' = <<n>> \o queue /\ published' = n
      /\ inputs' = inputs \cup (IF Kind(n) = "corrupt" THEN {} ELSE {n})
      /\ UNCHANGED <<processing, dead, done, workload>>
  BY DEF Publish, Queue!Push
<1>3. /\ Len(queue') = Len(queue) + 1 /\ queue'[1] = n
      /\ \A i \in 1..Len(queue) : queue'[i + 1] = queue[i]
      /\ \A i \in 1..Len(queue) + 1 : i # 1 => queue'[i] = queue[i - 1]
  <2>1. n \in 1..n /\ queue \in Seq(1..n)
    <3>1. n \in 1..n /\ 1..published \subseteq 1..n
      BY <1>1
    <3> QED
      BY <3>1, ListSets, SeqMonotonic
  <2> QED
    BY <1>2, <2>1, PrependFacts
<1> HIDE DEF n
<1>4. /\ n \in Nat
      /\ \A i \in 1..Len(queue) : queue[i] < n
      /\ \A i \in 1..Len(processing) : processing[i] < n
      /\ \A i \in 1..Len(dead) : dead[i] < n
      /\ \A v \in done : v < n
  BY <1>1 DEF n
<1>5. \A i \in 1..Len(queue') : \/ i = 1 /\ queue'[i] = n
                                \/ i - 1 \in 1..Len(queue) /\ queue'[i] = queue[i - 1]
  BY <1>1, <1>3
<1>6. \A v : Contains(queue, v) \/ v = n => Contains(queue', v)
  <2>1. Contains(queue', n)
    BY <1>1, <1>3 DEF Contains
  <2>2. ASSUME NEW i \in 1..Len(queue)
        PROVE  Contains(queue', queue[i])
    <3>1. i + 1 \in 1..Len(queue') /\ queue'[i + 1] = queue[i]
      BY <1>1, <1>3
    <3> QED
      BY <3>1 DEF Contains
  <2> QED
    BY <2>1, <2>2 DEF Contains
<1>7. LineInv'
  <2>1. \A i, j \in 1..Len(queue') : i < j => queue'[i] > queue'[j]
    <3> SUFFICES ASSUME NEW i \in 1..Len(queue'), NEW j \in 1..Len(queue'), i < j
                 PROVE  queue'[i] > queue'[j]
      OBVIOUS
    <3>1. j - 1 \in 1..Len(queue) /\ queue'[j] = queue[j - 1]
      BY <1>1, <1>3, <1>5
    <3>2. \/ queue'[i] = n
          \/ i - 1 \in 1..Len(queue) /\ i - 1 < j - 1 /\ queue'[i] = queue[i - 1]
      BY <1>1, <1>3, <1>5
    <3>3. \A k, m \in 1..Len(queue) : k < m => queue[k] > queue[m]
      BY DEF ListInv, LineInv
    <3> QED
      BY <1>1, <1>4, <3>1, <3>2, <3>3
  <2>2. \A i \in 1..Len(queue') : \A j \in 1..Len(processing) : queue'[i] > processing[j]
    BY <1>1, <1>4, <1>5 DEF ListInv, LineInv
  <2>3. /\ \A v \in done : \A i \in 1..Len(queue') : v < queue'[i]
        /\ \A k \in 1..Len(dead) : \A i \in 1..Len(queue') : dead[k] < queue'[i]
    BY <1>1, <1>4, <1>5 DEF ListInv, LineInv
  <2> QED
    BY <1>2, <2>1, <2>2, <2>3 DEF ListInv, LineInv
<1>8. DeadInv'
  BY <1>2 DEF ListInv, DeadInv, Kind
<1>9. KeptInv'
  <2>1. \A v \in 1..n : v = n \/ v \in 1..published
    BY <1>1 DEF n
  <2>2. \A i \in 1..Len(queue') : Kind(queue'[i]) # "corrupt" => queue'[i] \in inputs'
    BY <1>2, <1>5 DEF ListInv, KeptInv
  <2>3. \A v \in 1..n :
           \/ Contains(queue', v) \/ Contains(processing', v) \/ Contains(dead', v)
           \/ v \in done'
           \/ Kind(v) \in Bad /\ Len(dead') = DeadMax
    BY <1>2, <1>6, <2>1 DEF ListInv, KeptInv
  <2>4. \A i \in 1..Len(processing) :
           Kind(processing[i]) # "corrupt" => processing[i] \in inputs'
    BY <1>2 DEF ListInv, KeptInv
  <2> QED
    BY <1>2, <2>2, <2>3, <2>4 DEF KeptInv, Kind
<1> QED
  BY <1>7, <1>8, <1>9 DEF ListInv

\* The claim is taken out of the line.
LEMMA OutOfLine ==
    ASSUME TypeOK, ListInv, NEW v, Contains(processing, v)
    PROVE  /\ processing = <<v>> /\ RemoveFirst(processing, v) = <<>>
           /\ v \in 1..published /\ Len(processing) = 1 /\ processing[1] = v
<1>1. processing \in Seq(1..published) /\ Len(processing) <= 1
  BY DEF TypeOK, ListInv, LineInv
<1>2. processing = <<v>> /\ RemoveFirst(processing, v) = <<>>
  BY <1>1, RemoveOnly
<1> QED
  BY <1>1, <1>2

\* The completion takes the claim out of the line; nothing else needs its
\* inputs any more.
LEMMA FinishKeepsLists ==
    ASSUME TypeOK, ListInv, NEW e, NEW v, Queue!FinishScript(e, v),
           inputs' = inputs \ {v}, UNCHANGED <<published, workload>>
    PROVE  ListInv'
<1>1. /\ Contains(processing, v) /\ done' = done \cup {v}
      /\ processing' = RemoveFirst(processing, v)
      /\ queue' = queue /\ dead' = dead
  BY SameOperators DEF Queue!FinishScript
<1>2. /\ processing' = <<>> /\ Len(processing) = 1 /\ processing[1] = v
      /\ v \in 1..published
  BY <1>1, OutOfLine
<1>3. /\ queue \in Seq(1..published) /\ dead \in Seq(1..published)
      /\ published \in Nat /\ done \subseteq 1..published /\ Len(processing') = 0
  BY <1>2, WorkloadAssumption DEF TypeOK
<1>4. /\ \A i \in 1..Len(queue) : queue[i] > v
      /\ \A k \in 1..Len(dead) : dead[k] < v
  BY <1>2, <1>3 DEF ListInv, LineInv
<1>5. LineInv'
  BY <1>1, <1>2, <1>3, <1>4 DEF ListInv, LineInv
<1>6. DeadInv'
  BY <1>1, <1>3, <1>4 DEF ListInv, DeadInv, Kind
<1>7. \A x : Contains(processing, x) => x = v
  BY <1>2 DEF Contains
<1>8. KeptInv'
  <2>1. ASSUME NEW x \in 1..published
        PROVE  \/ Contains(queue, x) \/ Contains(processing', x) \/ Contains(dead, x)
               \/ x \in done'
               \/ Kind(x) \in Bad /\ Len(dead) = DeadMax
    <3>1. \/ Contains(queue, x) \/ Contains(processing, x) \/ Contains(dead, x)
          \/ x \in done
          \/ Kind(x) \in Bad /\ Len(dead) = DeadMax
      BY DEF ListInv, KeptInv
    <3> QED
      BY <1>1, <1>7, <3>1
  <2>2. \A i \in 1..Len(queue) : Kind(queue[i]) # "corrupt" => queue[i] \in inputs'
    <3>1. \A i \in 1..Len(queue) : queue[i] # v
      BY <1>2, <1>3, <1>4
    <3> QED
      BY <3>1 DEF ListInv, KeptInv
  <2>3. \A i \in 1..Len(processing') :
           Kind(processing'[i]) # "corrupt" => processing'[i] \in inputs'
    BY <1>3
  <2> QED
    BY <1>1, <2>1, <2>2, <2>3 DEF KeptInv, Kind
<1> QED
  BY <1>5, <1>6, <1>8 DEF ListInv

\* The dead-letter list takes the claim in at its left end; when it is full
\* its oldest value makes room, and that one was bad.
LEMMA QuarantineKeepsLists ==
    ASSUME TypeOK, ListInv, NEW e, NEW v, Queue!QuarantineScript(e, v),
           Kind(v) \in Bad, UNCHANGED <<inputs, published, workload>>
    PROVE  ListInv' /\ dead' \in Seq(1..published) /\ processing' = <<>>
<1>1. /\ Contains(processing, v) /\ dead' = Queue!AtMost(DeadMax, <<v>> \o dead)
      /\ processing' = RemoveFirst(processing, v)
      /\ queue' = queue /\ done' = done
  BY SameOperators DEF Queue!QuarantineScript
<1>2. /\ processing' = <<>> /\ Len(processing) = 1 /\ processing[1] = v
      /\ v \in 1..published
  BY <1>1, OutOfLine
<1> DEFINE n == Len(dead)
           m == Len(dead')
<1>3. /\ n \in Nat /\ published \in Nat /\ Len(queue) \in Nat
      /\ \A k \in 1..n : dead[k] \in 1..published
      /\ \A k \in 1..Len(queue) : queue[k] \in 1..published
      /\ \A x \in done : x \in 1..published
      /\ n <= DeadMax /\ DeadMax \in Nat \ {0}
  BY ListNumbers, WorkloadAssumption DEF ListInv, DeadInv
<1>4. /\ dead' \in Seq(1..published) /\ dead'[1] = v
      /\ m = IF n = DeadMax THEN DeadMax ELSE n + 1
      /\ \A k \in 1..m : k # 1 => dead'[k] = dead[k - 1]
  <2>1. /\ dead \in Seq(1..published) /\ v \in 1..published
        /\ DeadMax \in Nat \ {0} /\ Len(dead) <= DeadMax
    BY <1>2, <1>3, ListSets
  <2>2. dead' = Queue!AtMost(DeadMax, <<v>> \o dead)
    BY <1>1
  <2>3. Trimmed(Queue!AtMost(DeadMax, <<v>> \o dead), dead, v, DeadMax, 1..published)
    BY <2>1, TrimFacts
  <2>4. /\ dead' \in Seq(1..published) /\ dead'[1] = v
        /\ Len(dead') = IF Len(dead) = DeadMax THEN DeadMax ELSE Len(dead) + 1
        /\ \A i \in 1..Len(dead') : i # 1 => dead'[i] = dead[i - 1]
    BY <2>2, <2>3 DEF Trimmed
  <2> QED
    BY <2>4
<1>5. /\ \A k \in 1..Len(queue) : queue[k] > v
      /\ \A k \in 1..n : dead[k] < v
      /\ v \notin done
  BY <1>2, <1>3 DEF ListInv, LineInv
<1>6. /\ \A k, l \in 1..n : k < l => dead[k] > dead[l]
      /\ \A k \in 1..n : dead[k] \notin done /\ Kind(dead[k]) \in Bad
      /\ \A k \in 1..n : \A i \in 1..Len(queue) : dead[k] < queue[i]
  BY DEF ListInv, LineInv, DeadInv
<1>7. \A x \in 1..published :
         \/ Contains(queue, x) \/ Contains(processing, x) \/ Contains(dead, x)
         \/ x \in done
         \/ Kind(x) \in Bad /\ n = DeadMax
  BY DEF ListInv, KeptInv
<1>8. \A x : /\ Contains(processing, x) => x = v
             /\ Contains(dead, x) => \E k \in 1..n : dead[k] = x
             /\ (\E k \in 1..m : dead'[k] = x) => Contains(dead', x)
  BY <1>2 DEF Contains
<1>9. LineInv'
  <2>1. \A k \in 1..m : \A i \in 1..Len(queue) : dead'[k] < queue[i]
    <3> HIDE DEF n, m
    <3>1. \A k \in 1..m : dead'[k] = v \/ (k - 1 \in 1..n /\ dead'[k] = dead[k - 1])
      BY <1>3, <1>4
    <3> QED
      BY <1>2, <1>3, <1>5, <1>6, <3>1
  <2> QED
    BY <1>1, <1>2, <2>1 DEF ListInv, LineInv
<1> HIDE DEF n, m
<1>10. \A k \in 1..m : \/ k = 1 /\ dead'[k] = v
                       \/ k - 1 \in 1..n /\ dead'[k] = dead[k - 1]
  BY <1>3, <1>4
<1>11. DeadInv'
  <2>1. \A k, l \in 1..m : k < l => dead'[k] > dead'[l]
    <3> SUFFICES ASSUME NEW k \in 1..m, NEW l \in 1..m, k < l
                 PROVE  dead'[k] > dead'[l]
      OBVIOUS
    <3>0. m \in Nat
      BY <1>3, <1>4
    <3>1. l - 1 \in 1..n /\ dead'[l] = dead[l - 1]
      BY <1>10, <3>0
    <3>2. \/ dead'[k] = v
          \/ k - 1 \in 1..n /\ k - 1 < l - 1 /\ dead'[k] = dead[k - 1]
      BY <1>10, <3>0
    <3> QED
      BY <1>2, <1>3, <1>5, <1>6, <3>1, <3>2
  <2>2. m <= DeadMax
    BY <1>3, <1>4
  <2>3. \A k \in 1..m : dead'[k] \notin done /\ Kind(dead'[k]) \in Bad
    BY <1>5, <1>6, <1>10
  <2> QED
    BY <1>1, <2>1, <2>2, <2>3 DEF DeadInv, Kind, m
<1>12. KeptInv'
  <2>1. ASSUME NEW k \in 1..n
        PROVE  Contains(dead', dead[k]) \/ (Kind(dead[k]) \in Bad /\ m = DeadMax)
    <3>1. CASE k + 1 \in 1..m
      <4>1. dead'[k + 1] = dead[k]
        BY <1>3, <1>4, <3>1
      <4> QED
        BY <1>8, <3>1, <4>1
    <3>2. CASE k + 1 \notin 1..m
      BY <1>3, <1>4, <1>6, <3>2
    <3> QED
      BY <3>1, <3>2
  <2>2. Contains(dead', v)
    <3>1. 1 \in 1..m
      BY <1>3, <1>4
    <3> QED
      BY <1>4, <1>8, <3>1
  <2>3. n = DeadMax => m = DeadMax
    BY <1>4
  <2>4. \A x : Contains(dead, x) =>
                  Contains(dead', x) \/ (Kind(x) \in Bad /\ m = DeadMax)
    BY <1>8, <2>1
  <2>5. \A x \in 1..published :
           \/ Contains(queue, x) \/ Contains(dead', x)
           \/ x \in done
           \/ Kind(x) \in Bad /\ m = DeadMax
    BY <1>7, <1>8, <2>2, <2>3, <2>4
  <2>6. \A i \in 1..Len(queue) : Kind(queue[i]) # "corrupt" => queue[i] \in inputs
    BY DEF ListInv, KeptInv
  <2> QED
    BY <1>1, <1>2, <2>5, <2>6 DEF KeptInv, Kind, m
<1> QED
  BY <1>2, <1>4, <1>9, <1>11, <1>12 DEF ListInv

\* A release is a recovery of one claim.
LEMMA ReleaseMoves ==
    ASSUME TypeOK, ListInv, NEW e, NEW v, Queue!ReleaseScript(e, v)
    PROVE  queue' = queue \o processing /\ processing' = <<>>
<1>1. /\ Contains(processing, v) /\ queue' = Append(queue, v)
      /\ processing' = RemoveFirst(processing, v)
  BY SameOperators DEF Queue!ReleaseScript
<1>2. processing = <<v>> /\ processing' = <<>> /\ v \in 1..published
  BY <1>1, OutOfLine
<1>3. Append(queue, v) = queue \o <<v>>
  BY <1>2, ListSets, AppendIsConcat
<1> QED
  BY <1>1, <1>2, <1>3

-----------------------------------------------------------------------------
(* The processes. *)

\* Process p goes to place l with epoch e, claim c, calls t and outcome o.
Moves(p, l, e, c, t, o) ==
    /\ proc' \in [Proc -> ProcRecord]
    /\ \A q \in Proc \ {p} : proc'[q] = proc[q]
    /\ proc'[p].pc = l /\ proc'[p].epoch = e /\ proc'[p].claim = c
    /\ proc'[p].todo = t /\ proc'[p].outcome = o

\* The fields of a publication.
LEMMA PubFields ==
    ASSUME TypeOK
    PROVE  /\ published \in 0..NPub
           /\ \A v \in 1..published :
                 /\ UrlOf(v) \in Url /\ WordsOf(v) \subseteq Word
                 /\ Kind(v) \in Readable \cup Bad
<1> DEFINE R == [url : Url, words : SUBSET Word, kind : Kinds]
<1>1. workload.pubs \in Seq(R) /\ Len(workload.pubs) <= NPub /\ NPub \in Nat
  BY WorkloadAssumption DEF TypeOK
<1>2. published \in 0..Len(workload.pubs) /\ Len(workload.pubs) \in Nat
  BY <1>1 DEF TypeOK
<1>3. \A v \in 1..published : workload.pubs[v] \in R
  <2> HIDE DEF R
  <2> QED
    BY <1>1, <1>2
<1>4. Kinds = Readable \cup Bad
  BY DEF Kinds, Readable, Bad
<1> QED
  BY <1>1, <1>2, <1>3, <1>4 DEF UrlOf, WordsOf, Kind

\* The fields of a process.
LEMMA Fields ==
    ASSUME TypeOK, NEW p \in Proc
    PROVE  /\ proc[p] \in ProcRecord
           /\ proc[p].pc \in PcNames /\ proc[p].epoch \in Nat /\ proc[p].claim \in Nat
           /\ proc[p].running \in BOOLEAN /\ proc[p].sent \in BOOLEAN
           /\ proc[p].todo \in Seq(CallNames)
           /\ proc[p].outcome \in Outcomes
BY DEF TypeOK, ProcRecord

\* A process record built by an update.
LEMMA Updates ==
    ASSUME TypeOK, NEW p \in Proc, NEW q \in ProcRecord, proc' = [proc EXCEPT ![p] = q]
    PROVE  Moves(p, q.pc, q.epoch, q.claim, q.todo, q.outcome)
BY DEF Moves, TypeOK

\* A jump changes the place only.
LEMMA GotoMoves ==
    ASSUME TypeOK, NEW p \in Proc, NEW l \in PcNames, Goto(p, l)
    PROVE  Moves(p, l, proc[p].epoch, proc[p].claim, proc[p].todo, proc[p].outcome)
<1> DEFINE r == proc[p]
           q == [r EXCEPT !.pc = l]
<1>1. r \in ProcRecord /\ proc' = [proc EXCEPT ![p] = q]
  BY Fields DEF Goto
<1> HIDE DEF r
<1>2. q \in ProcRecord
  BY <1>1 DEF ProcRecord
<1>3. /\ q.pc = l /\ q.epoch = r.epoch /\ q.claim = r.claim
      /\ q.todo = r.todo /\ q.outcome = r.outcome
  BY <1>1 DEF ProcRecord
<1> HIDE DEF q
<1>4. Moves(p, q.pc, q.epoch, q.claim, q.todo, q.outcome)
  BY <1>1, <1>2, Updates
<1> QED
  BY <1>3, <1>4 DEF r

\* The end of an attempt.
LEMMA FinishedMoves ==
    ASSUME TypeOK, NEW p \in Proc, NEW res \in Outcomes, Finished(p, res)
    PROVE  Moves(p, "unlock", proc[p].epoch, proc[p].claim, <<>>, res)
<1> DEFINE r == proc[p]
           q == [r EXCEPT !.pc = "unlock", !.outcome = res, !.todo = <<>>]
<1>1. r \in ProcRecord /\ proc' = [proc EXCEPT ![p] = q]
  BY Fields DEF Finished
<1>2. "unlock" \in PcNames /\ <<>> \in Seq(CallNames)
  BY DEF PcNames
<1> HIDE DEF r
<1>3. q \in ProcRecord
  BY <1>1, <1>2 DEF ProcRecord
<1>4. /\ q.pc = "unlock" /\ q.epoch = r.epoch /\ q.claim = r.claim
      /\ q.todo = <<>> /\ q.outcome = res
  BY <1>1 DEF ProcRecord
<1> HIDE DEF q
<1>5. Moves(p, q.pc, q.epoch, q.claim, q.todo, q.outcome)
  BY <1>1, <1>3, Updates
<1> QED
  BY <1>4, <1>5 DEF r

\* The end of a process.
LEMMA StoppedMoves ==
    ASSUME TypeOK, NEW p \in Proc, proc' = [proc EXCEPT ![p] = Stopped]
    PROVE  Moves(p, "down", 0, 0, <<>>, "none")
<1>1. /\ Stopped \in ProcRecord /\ Stopped.pc = "down" /\ Stopped.epoch = 0
      /\ Stopped.claim = 0 /\ Stopped.todo = <<>> /\ Stopped.outcome = "none"
  BY DEF Stopped, ProcRecord, PcNames, Places0, Outcomes
<1>2. Moves(p, Stopped.pc, Stopped.epoch, Stopped.claim, Stopped.todo, Stopped.outcome)
  BY <1>1, Updates
<1> QED
  BY <1>1, <1>2

\* What a step of one process leaves true of all of them.  A script that
\* changes the claims or gives the lock up is the owner's; a canonical lock
\* that changes was free or the process's own.
LEMMA StepKeeps ==
    ASSUME TypeOK, ProcInv, ClaimInv, LockInv, NEW p \in Proc,
           NEW l, NEW e \in Nat, NEW c, NEW t, NEW o, Moves(p, l, e, c, t, o),
           UNCHANGED <<published, workload>>,
           \/ UNCHANGED <<owner, epoch, processing>>
           \/ owner' = epoch + 1 /\ epoch' = epoch + 1 /\ processing' = processing
           \/ Owner(p) /\ owner' \in {owner, 0} /\ epoch' = epoch,
           \/ e = 0 /\ l \in Places0
           \/ e = proc[p].epoch /\ l \notin Places0 /\ proc[p].pc \notin Places0
           \/ e = epoch + 1 /\ epoch' = e /\ l \notin Places0,
           l \in Busy \cup {"unlock", "release"} => c \in 1..published,
           l \in {"load", "write", "finish"} => Kind(c) \notin {"invalid"},
           l = "write" => t # <<>>,
           OwnClaims(owner', epoch', processing', e, l, c, o),
           \A u \in Url : \/ canonical'[u] = canonical[u]
                          \/ canonical[u] \in {Free, Mine(p)},
           l \in {"load", "write", "finish", "unlock"} =>
               canonical'[UrlOf(c)] = [service |-> "page", pub |-> c, epoch |-> e]
    PROVE  ProcInv' /\ ClaimInv' /\ LockInv'
<1>1. /\ \A q \in Proc \ {p} : proc'[q] = proc[q]
      /\ proc'[p].pc = l /\ proc'[p].epoch = e /\ proc'[p].claim = c
      /\ proc'[p].todo = t /\ proc'[p].outcome = o
  BY DEF Moves
<1>2. /\ epoch \in Nat /\ owner \in {0, epoch}
      /\ \A q \in Proc : proc[q].epoch \in Nat
  BY Fields DEF TypeOK
<1>3. epoch' \in {epoch, epoch + 1}
  OBVIOUS
<1>4. /\ \A q \in Proc : proc[q].epoch <= epoch
      /\ \A q \in Proc : proc[q].epoch = 0 <=> proc[q].pc \in Places0
      /\ \A q, r \in Proc : q # r /\ proc[q].epoch = proc[r].epoch => proc[q].epoch = 0
  BY DEF ProcInv
<1>5. ProcInv'
  <2>1. \A q \in Proc : proc'[q].epoch <= epoch'
    BY <1>1, <1>2, <1>3, <1>4
  <2>2. \A q \in Proc : proc'[q].epoch = 0 <=> proc'[q].pc \in Places0
    BY <1>1, <1>2, <1>4
  <2>3. \A q, r \in Proc : q # r /\ proc'[q].epoch = proc'[r].epoch => proc'[q].epoch = 0
    BY <1>1, <1>2, <1>4
  <2>4. \A q \in Proc :
           proc'[q].pc \in Busy \cup {"unlock", "release"} => proc'[q].claim \in 1..published
    BY <1>1 DEF ProcInv
  <2>5. \A q \in Proc : proc'[q].pc \in {"load", "write", "finish"} =>
                            Kind(proc'[q].claim) \notin {"invalid"}
    BY <1>1 DEF ProcInv
  <2>6. \A q \in Proc : proc'[q].pc = "write" => proc'[q].todo # <<>>
    BY <1>1 DEF ProcInv
  <2> QED
    BY <2>1, <2>2, <2>3, <2>4, <2>5, <2>6 DEF ProcInv, Kind
<1>6. ClaimInv'
  <2> SUFFICES ASSUME NEW q \in Proc \ {p}
               PROVE  OwnClaims(owner', epoch', processing', proc[q].epoch, proc[q].pc,
                                proc[q].claim, proc[q].outcome)
    BY <1>1 DEF ClaimInv
  <2>1. proc'[q] = proc[q] /\ proc[q].epoch \in Nat
    BY <1>1, <1>2
  <2>2. OwnClaims(owner, epoch, processing, proc[q].epoch, proc[q].pc, proc[q].claim,
                  proc[q].outcome)
    BY DEF ClaimInv
  <2>3. CASE proc[q].epoch # 0 /\ owner' = proc[q].epoch /\ epoch' = proc[q].epoch
    <3>1. epoch' = epoch
      BY <1>2, <1>3, <1>4, <2>3
    <3>2. ~(Owner(p) /\ owner = proc[q].epoch)
      BY <1>4, <2>3 DEF Owner, Queue!Holds
    <3>3. processing' = processing /\ owner' = owner
      BY <1>2, <2>3, <3>1, <3>2
    <3> QED
      BY <2>1, <2>2, <3>1, <3>3 DEF OwnClaims
  <2> QED
    BY <2>1, <2>3 DEF OwnClaims
<1>7. LockInv'
  <2>1. ASSUME NEW q \in Proc \ {p}, proc[q].pc \in {"load", "write", "finish", "unlock"}
        PROVE  canonical'[UrlOf(proc[q].claim)] = Mine(q)
    <3>1. canonical[UrlOf(proc[q].claim)] = Mine(q)
      BY <2>1 DEF LockInv, ClaimUrl
    <3>2. proc[q].epoch # 0 /\ proc[q].epoch # proc[p].epoch
      BY <1>4, <2>1 DEF Places0
    <3>3. Mine(q) # Free /\ Mine(q) # Mine(p)
      BY <3>2 DEF Mine, Free
    <3>4. UrlOf(proc[q].claim) \in Url
      <4>1. proc[q].claim \in 1..published
        BY <2>1 DEF ProcInv, Busy
      <4> QED
        BY <4>1, PubFields
    <3> QED
      BY <3>1, <3>3, <3>4
  <2>2. \A q \in Proc \ {p} : proc[q].pc \in {"load", "write", "finish", "unlock"} =>
                                 (canonical[ClaimUrl(q)] = Mine(q))'
    BY <1>1, <2>1 DEF ClaimUrl, UrlOf, Mine
  <2>3. l \in {"load", "write", "finish", "unlock"} => (canonical[ClaimUrl(p)] = Mine(p))'
    BY <1>1 DEF ClaimUrl, UrlOf, Mine
  <2> QED
    BY <1>1, <2>2, <2>3 DEF LockInv
<1> QED
  BY <1>5, <1>6, <1>7

-----------------------------------------------------------------------------
(* One step of one process, for all the queue is concerned with. *)

\* The script the step may run: with the epoch and the claim of the process.
QueueEffect(p) ==
    \/ /\ \/ Unmoved
          \/ Queue!AcquireLock
          \/ Queue!DropLock(proc[p].epoch)
          \/ Queue!ClaimScript(proc[p].epoch) /\ processing = <<>>
          \/ Queue!RecoverScript(proc[p].epoch)
          \/ Queue!ReleaseScript(proc[p].epoch, proc[p].claim)
          \/ /\ Queue!QuarantineScript(proc[p].epoch, proc[p].claim)
             /\ Kind(proc[p].claim) \in Bad
       /\ inputs' = inputs
    \/ HandOn(p)

QueueTypes ==
    /\ epoch \in Nat /\ owner \in {0, epoch}
    /\ queue \in Seq(1..published) /\ processing \in Seq(1..published)
    /\ dead \in Seq(1..published)
    /\ done \subseteq 1..published /\ inputs \subseteq 1..published

\* Each script keeps the lists sound, and only the owner moves claims.
LEMMA EffectKeeps ==
    ASSUME TypeOK, ListInv, InputsInv, NEW p \in Proc, QueueEffect(p),
           UNCHANGED <<published, workload>>
    PROVE  /\ ListInv' /\ InputsInv' /\ QueueTypes'
           /\ \/ UNCHANGED <<owner, epoch, processing>>
              \/ owner' = epoch + 1 /\ epoch' = epoch + 1 /\ processing' = processing
              \/ Owner(p) /\ owner' \in {owner, 0} /\ epoch' = epoch
<1> DEFINE e == proc[p].epoch
           c == proc[p].claim
<1>1. /\ epoch \in Nat /\ owner \in {0, epoch} /\ published \in Nat
      /\ queue \in Seq(1..published) /\ processing \in Seq(1..published)
      /\ dead \in Seq(1..published)
      /\ done \subseteq 1..published /\ inputs \subseteq 1..published
  BY ListSets DEF TypeOK
<1>2. CASE inputs' = inputs /\ (Unmoved \/ Queue!AcquireLock \/ Queue!DropLock(e))
  <2>1. UNCHANGED <<queue, processing, dead, done, inputs>>
    BY <1>2 DEF Unmoved, queueVars, Queue!AcquireLock, Queue!DropLock, Queue!listVars
  <2>2. ListInv' /\ InputsInv'
    BY <2>1 DEF ListInv, LineInv, DeadInv, KeptInv, InputsInv, Kind
  <2>3. /\ epoch' \in Nat /\ owner' \in {0, epoch'}
        /\ \/ UNCHANGED <<owner, epoch, processing>>
           \/ owner' = epoch + 1 /\ epoch' = epoch + 1 /\ processing' = processing
           \/ Owner(p) /\ owner' \in {owner, 0} /\ epoch' = epoch
    BY <1>1, <1>2 DEF Unmoved, queueVars, Queue!AcquireLock, Queue!DropLock,
                      Queue!listVars, Owner
  <2> QED
    BY <1>1, <2>1, <2>2, <2>3 DEF QueueTypes
<1>3. CASE inputs' = inputs /\ Queue!ClaimScript(e) /\ processing = <<>>
  <2>1. /\ queue' \in Seq(1..published) /\ Last(queue) \in 1..published
        /\ processing' = <<Last(queue)>>
    BY <1>3, ClaimMoves
  <2>2. processing' \in Seq(1..published)
    BY <2>1
  <2>3. ListInv' /\ InputsInv'
    BY <1>3, ClaimKeepsLists DEF InputsInv, Kind
  <2>4. Owner(p) /\ UNCHANGED <<owner, epoch, dead, done>>
    BY <1>3 DEF Queue!ClaimScript, Owner
  <2> QED
    BY <1>1, <1>3, <2>1, <2>2, <2>3, <2>4 DEF QueueTypes
<1>4. CASE inputs' = inputs /\ (Queue!RecoverScript(e) \/ Queue!ReleaseScript(e, c))
  <2>1. Len(processing) <= 1
    BY DEF ListInv, LineInv
  <2>2. queue' = queue \o processing /\ processing' = <<>>
    BY <1>4, <2>1, RecoverMoves, ReleaseMoves
  <2>3. Owner(p) /\ UNCHANGED <<owner, epoch, dead, done>>
    BY <1>4 DEF Queue!RecoverScript, Queue!ReleaseScript, Owner
  <2>4. ListInv' /\ InputsInv'
    BY <1>4, <2>2, <2>3, GiveBackKeepsLists DEF InputsInv, Kind
  <2>5. queue' \in Seq(1..published) /\ processing' \in Seq(1..published)
    BY <1>1, <2>2
  <2> QED
    BY <1>1, <1>4, <2>3, <2>4, <2>5 DEF QueueTypes
<1>5. CASE inputs' = inputs /\ Queue!QuarantineScript(e, c) /\ Kind(c) \in Bad
  <2>1. ListInv' /\ dead' \in Seq(1..published) /\ processing' = <<>>
    BY <1>5, QuarantineKeepsLists
  <2>2. Owner(p) /\ UNCHANGED <<owner, epoch, queue, done>>
    BY <1>5 DEF Queue!QuarantineScript, Owner
  <2>3. InputsInv'
    BY <1>5 DEF InputsInv, Kind
  <2>4. processing' \in Seq(1..published)
    BY <2>1
  <2> QED
    BY <1>1, <1>5, <2>1, <2>2, <2>3, <2>4 DEF QueueTypes
<1>6. CASE HandOn(p)
  <2>1. Queue!FinishScript(e, c) /\ inputs' = inputs \ {c}
    BY <1>6 DEF HandOn
  <2>2. ListInv' /\ InputsInv'
    BY <2>1, FinishKeepsLists DEF InputsInv, Kind
  <2>3. /\ Owner(p) /\ UNCHANGED <<owner, epoch, queue, dead>>
        /\ Contains(processing, c) /\ done' = done \cup {c}
        /\ processing' = RemoveFirst(processing, c)
    BY <2>1, SameOperators DEF Queue!FinishScript, Owner
  <2>4. processing' = <<>> /\ c \in 1..published
    BY <2>3, OutOfLine
  <2>5. processing' \in Seq(1..published)
    BY <2>4
  <2>6. done' \subseteq 1..published /\ inputs' \subseteq 1..published
    BY <1>1, <2>1, <2>3, <2>4
  <2> QED
    BY <1>1, <2>2, <2>3, <2>5, <2>6 DEF QueueTypes
<1> QED
  BY <1>2, <1>3, <1>4, <1>5, <1>6 DEF QueueEffect

\* Process p takes a step that every other process can live with, and goes to
\* place l with epoch e, claim c, calls t and outcome o.
Sound(p, l, e, c, t, o) ==
    /\ Moves(p, l, e, c, t, o)
    /\ QueueEffect(p)
    /\ UNCHANGED <<published, workload>>
    /\ \/ e = 0 /\ l \in Places0
       \/ e = proc[p].epoch /\ l \notin Places0 /\ proc[p].pc \notin Places0
       \/ e = epoch + 1 /\ epoch' = e /\ l \notin Places0
    /\ l \in Busy \cup {"unlock", "release"} => c \in 1..published
    /\ l \in {"load", "write", "finish"} => Kind(c) \notin {"invalid"}
    /\ l = "write" => t # <<>>
    /\ OwnClaims(owner', epoch', processing', e, l, c, o)
    /\ \A u \in Url : canonical'[u] = canonical[u] \/ canonical[u] \in {Free, Mine(p)}
    /\ l \in {"load", "write", "finish", "unlock"} =>
           canonical'[UrlOf(c)] = [service |-> "page", pub |-> c, epoch |-> e]
    /\ MongoOK'

\* Such a step keeps the invariant.
LEMMA SoundKeeps ==
    ASSUME Inv, NEW p \in Proc, NEW l, NEW e \in Nat, NEW c, NEW t, NEW o,
           Sound(p, l, e, c, t, o)
    PROVE  Inv'
<1>1. TypeOK /\ ListInv /\ InputsInv /\ ProcInv /\ ClaimInv /\ LockInv
  BY DEF Inv
<1>2. Moves(p, l, e, c, t, o) /\ QueueEffect(p) /\ UNCHANGED <<published, workload>>
  BY DEF Sound
<1>3. /\ ListInv' /\ InputsInv' /\ QueueTypes'
      /\ \/ UNCHANGED <<owner, epoch, processing>>
         \/ owner' = epoch + 1 /\ epoch' = epoch + 1 /\ processing' = processing
         \/ Owner(p) /\ owner' \in {owner, 0} /\ epoch' = epoch
  BY <1>1, <1>2, EffectKeeps
<1>4. ProcInv' /\ ClaimInv' /\ LockInv'
  BY <1>1, <1>2, <1>3, StepKeeps DEF Sound
<1>5. TypeOK'
  <2>1. proc' \in [Proc -> ProcRecord] /\ MongoOK'
    BY <1>2 DEF Moves, Sound
  <2>2. workload' \in Workloads /\ published' \in 0..Len(workload'.pubs)
    BY <1>1, <1>2 DEF TypeOK
  <2> QED
    BY <1>2, <1>3, <2>1, <2>2 DEF TypeOK, QueueTypes
<1> QED
  BY <1>3, <1>4, <1>5 DEF Inv

\* Nothing of MongoDB changes.
LEMMA NoMongoKeeps ==
    ASSUME TypeOK, NoMongo, UNCHANGED published
    PROVE  MongoOK' /\ canonical' = canonical
BY DEF TypeOK, NoMongo, mongoVars, MongoOK, WriteOp

\* The end of a process keeps the invariant, whatever it does to the lock.
LEMMA StopSound ==
    ASSUME Inv, NEW p \in Proc, proc' = [proc EXCEPT ![p] = Stopped],
           inputs' = inputs, NoMongo, UNCHANGED <<published, workload>>,
           Unmoved \/ Queue!AcquireLock \/ Queue!DropLock(proc[p].epoch)
    PROVE  Sound(p, "down", 0, 0, <<>>, "none")
<1>1. Moves(p, "down", 0, 0, <<>>, "none")
  BY StoppedMoves DEF Inv
<1>2. MongoOK' /\ canonical' = canonical
  BY NoMongoKeeps DEF Inv
<1>3. QueueEffect(p)
  BY DEF QueueEffect
<1> QED
  BY <1>1, <1>2, <1>3 DEF Sound, Places0, Busy, OwnClaims

\* A process that only jumps, to a place where no claim is promised.
LEMMA JumpSound ==
    ASSUME Inv, NEW p \in Proc, proc[p].pc \notin Places0,
           NEW l \in {"exit", "release", "recover"}, Goto(p, l),
           l = "release" => proc[p].pc \in Busy,
           QueueEffect(p), epoch' = epoch, NoMongo, UNCHANGED <<published, workload>>
    PROVE  Sound(p, l, proc[p].epoch, proc[p].claim, proc[p].todo, proc[p].outcome)
<1>1. l \in PcNames /\ l \notin Places0 \cup Busy /\ l \notin {"loop", "signal", "claim", "unlock"}
  BY DEF PcNames, Places0, Busy
<1>2. Moves(p, l, proc[p].epoch, proc[p].claim, proc[p].todo, proc[p].outcome)
  BY <1>1, GotoMoves DEF Inv
<1>3. MongoOK' /\ canonical' = canonical
  BY NoMongoKeeps DEF Inv
<1>4. l = "release" => proc[p].claim \in 1..published
  BY DEF Inv, ProcInv
<1>5. l \notin {"load", "write", "finish", "unlock"} /\ l # "write"
  BY <1>1 DEF Busy
<1> QED
  BY <1>1, <1>2, <1>3, <1>4, <1>5 DEF Sound, OwnClaims

\* An attempt that ends keeps the lock of its URL until the release.
LEMMA FinishedSound ==
    ASSUME Inv, NEW p \in Proc, proc[p].pc \in {"load", "write", "finish"},
           NEW res \in Outcomes, Finished(p, res), QueueEffect(p),
           res # "failed" => processing' = <<>>,
           MongoOK', canonical' = canonical, UNCHANGED <<published, workload>>
    PROVE  Sound(p, "unlock", proc[p].epoch, proc[p].claim, <<>>, res)
<1>1. Moves(p, "unlock", proc[p].epoch, proc[p].claim, <<>>, res)
  BY FinishedMoves DEF Inv
<1>2. proc[p].claim \in 1..published /\ canonical[ClaimUrl(p)] = Mine(p)
  BY DEF Inv, ProcInv, LockInv, Busy
<1>3. proc[p].pc \notin Places0 /\ "unlock" \notin Places0 \cup Busy
  BY DEF Places0, Busy
<1> QED
  BY <1>1, <1>2, <1>3 DEF Sound, OwnClaims, Busy, ClaimUrl, Mine

\* Every step of a process is one that the others can live with.
Fits(p) == \E l, c, t, o : \E e \in Nat : Sound(p, l, e, c, t, o)

\* A process that leaves the loop with an outcome is still a process record.
LEMMA StopFits ==
    ASSUME Inv, NEW p \in Proc, proc' = [proc EXCEPT ![p] = Stopped],
           inputs' = inputs, NoMongo, UNCHANGED <<published, workload>>,
           Unmoved \/ Queue!AcquireLock \/ Queue!DropLock(proc[p].epoch)
    PROVE  Fits(p)
<1>1. Sound(p, "down", 0, 0, <<>>, "none") /\ 0 \in Nat
  BY StopSound
<1> QED
  BY <1>1 DEF Fits

\* A process that moves on in its program is still a process record.
LEMMA JumpFits ==
    ASSUME Inv, NEW p \in Proc, proc[p].pc \notin Places0,
           NEW l \in {"exit", "release", "recover"}, Goto(p, l),
           l = "release" => proc[p].pc \in Busy,
           QueueEffect(p), epoch' = epoch, NoMongo, UNCHANGED <<published, workload>>
    PROVE  Fits(p)
<1>1. Sound(p, l, proc[p].epoch, proc[p].claim, proc[p].todo, proc[p].outcome)
  BY JumpSound
<1>2. proc[p].epoch \in Nat
  BY Fields DEF Inv
<1> QED
  BY <1>1, <1>2 DEF Fits

\* The supervisor starts, stops or loses a process.
LEMMA SupervisorFits ==
    ASSUME Inv, NEW p \in Proc, Start(p) \/ Terminate(p) \/ Crash(p)
    PROVE  Fits(p)
<1> DEFINE r == proc[p]
<1>0. /\ r.pc \in PcNames /\ r.epoch \in Nat /\ r \in ProcRecord
      /\ r.epoch = 0 <=> r.pc \in Places0
  BY Fields DEF Inv, ProcInv
<1>1. QueueEffect(p) /\ UNCHANGED <<published, workload>> /\ NoMongo /\ Unmoved /\ inputs' = inputs
  BY DEF Start, Terminate, Crash, QueueEffect, Unmoved, NoMongo, envVars
<1>2. MongoOK' /\ canonical' = canonical
  BY <1>1, NoMongoKeeps DEF Inv
<1>3. CASE Start(p)
  <2>1. Goto(p, "acquire") /\ "acquire" \in PcNames /\ r.epoch = 0
    BY <1>0, <1>3 DEF Start, PcNames, Places0
  <2>2. Moves(p, "acquire", r.epoch, r.claim, r.todo, r.outcome)
    BY <2>1, GotoMoves DEF Inv
  <2>3. Sound(p, "acquire", r.epoch, r.claim, r.todo, r.outcome)
    BY <1>1, <1>2, <2>1, <2>2 DEF Sound, OwnClaims, Places0, Busy
  <2> QED
    BY <1>0, <2>3 DEF Fits
<1>4. CASE Terminate(p)
  <2> DEFINE q == [r EXCEPT !.running = FALSE]
  <2>1. proc' = [proc EXCEPT ![p] = q]
    BY <1>4 DEF Terminate
  <2> HIDE DEF r
  <2>2. q \in ProcRecord
    BY <1>0 DEF ProcRecord
  <2>3. /\ q.pc = r.pc /\ q.epoch = r.epoch /\ q.claim = r.claim
        /\ q.todo = r.todo /\ q.outcome = r.outcome
    BY <1>0 DEF ProcRecord
  <2> HIDE DEF q
  <2>4. Moves(p, r.pc, r.epoch, r.claim, r.todo, r.outcome)
    <3>1. Moves(p, q.pc, q.epoch, q.claim, q.todo, q.outcome)
      BY <2>1, <2>2, Updates DEF Inv
    <3> QED
      BY <2>3, <3>1
  <2>5. OwnClaims(owner', epoch', processing', r.epoch, r.pc, r.claim, r.outcome)
    <3>1. OwnClaims(owner, epoch, processing, r.epoch, r.pc, r.claim, r.outcome)
      BY DEF Inv, ClaimInv, r
    <3>2. UNCHANGED <<owner, epoch, processing>>
      BY <1>1 DEF Unmoved, queueVars
    <3> QED
      BY <3>1, <3>2
  <2>6. /\ r.pc \in Busy \cup {"unlock", "release"} => r.claim \in 1..published
        /\ r.pc \in {"load", "write", "finish"} => Kind(r.claim) \notin {"invalid"}
        /\ r.pc = "write" => r.todo # <<>>
        /\ r.pc \in {"load", "write", "finish", "unlock"} =>
               canonical[UrlOf(r.claim)]
                   = [service |-> "page", pub |-> r.claim, epoch |-> r.epoch]
    BY DEF Inv, ProcInv, LockInv, ClaimUrl, Mine, r
  <2>7. Sound(p, r.pc, r.epoch, r.claim, r.todo, r.outcome)
    BY <1>0, <1>1, <1>2, <2>4, <2>5, <2>6 DEF Sound, r
  <2> QED
    BY <1>0, <2>7 DEF Fits
<1>5. CASE Crash(p)
  <2>1. proc' = [proc EXCEPT ![p] = Stopped]
    BY <1>5 DEF Crash
  <2> QED
    BY <1>1, <2>1, StopFits
<1> QED
  BY <1>3, <1>4, <1>5

\* What the invariant says of one process.
LEMMA AboutProcess ==
    ASSUME Inv, NEW p \in Proc
    PROVE  /\ proc[p] \in ProcRecord
           /\ proc[p].pc \in PcNames /\ proc[p].epoch \in Nat /\ proc[p].claim \in Nat
           /\ epoch \in Nat
           /\ proc[p].epoch = 0 <=> proc[p].pc \in Places0
           /\ OwnClaims(owner, epoch, processing, proc[p].epoch, proc[p].pc,
                        proc[p].claim, proc[p].outcome)
           /\ proc[p].pc \in Busy \cup {"unlock", "release"} => proc[p].claim \in 1..published
BY Fields DEF Inv, ProcInv, ClaimInv, TypeOK

\* A process that goes on at a place of the loop.
LEMMA LoopSound ==
    ASSUME Inv, NEW p \in Proc, proc[p].pc \notin Places0,
           NEW l \in {"loop", "signal", "claim"}, NEW q \in ProcRecord,
           q.pc = l, q.epoch = proc[p].epoch, proc' = [proc EXCEPT ![p] = q],
           (owner' = proc[p].epoch /\ epoch' = proc[p].epoch) => processing' = <<>>,
           QueueEffect(p), NoMongo, UNCHANGED <<published, workload>>
    PROVE  Fits(p)
<1>1. Moves(p, q.pc, q.epoch, q.claim, q.todo, q.outcome) /\ q.epoch \in Nat
  BY Updates, AboutProcess DEF Inv
<1>2. MongoOK' /\ canonical' = canonical
  BY NoMongoKeeps DEF Inv
<1>3. l \notin Places0 /\ l \notin Busy /\ l \notin {"load", "write", "finish", "unlock", "release"}
  BY DEF Places0, Busy
<1>4. Sound(p, q.pc, q.epoch, q.claim, q.todo, q.outcome)
  BY <1>1, <1>2, <1>3 DEF Sound, OwnClaims
<1> QED
  BY <1>1, <1>4 DEF Fits

\* A jump to a place of the loop.
LEMMA LoopFits ==
    ASSUME Inv, NEW p \in Proc, proc[p].pc \notin Places0,
           NEW l \in {"loop", "signal", "claim"}, Goto(p, l),
           (owner' = proc[p].epoch /\ epoch' = proc[p].epoch) => processing' = <<>>,
           QueueEffect(p), NoMongo, UNCHANGED <<published, workload>>
    PROVE  Fits(p)
<1> DEFINE r == proc[p]
           q == [r EXCEPT !.pc = l]
<1>1. r \in ProcRecord /\ proc' = [proc EXCEPT ![p] = q]
  BY AboutProcess DEF Goto
<1>2. l \in PcNames
  BY DEF PcNames
<1>3. q \in ProcRecord /\ q.pc = l /\ q.epoch = r.epoch
  <2> HIDE DEF r
  <2> QED
    BY <1>1, <1>2 DEF ProcRecord
<1> HIDE DEF q
<1>4. q.epoch = proc[p].epoch
  BY <1>3
<1> QED
  BY <1>1, <1>3, <1>4, LoopSound

\* The acquisition of the owner lock.
LEMMA AcquireFits ==
    ASSUME Inv, NEW p \in Proc, AcquireOwner(p)
    PROVE  Fits(p)
<1> DEFINE r == proc[p]
<1>0. /\ NoMongo /\ UNCHANGED <<published, workload>> /\ inputs' = inputs
      /\ MongoOK' /\ canonical' = canonical
      /\ r \in ProcRecord /\ epoch \in Nat
  BY NoMongoKeeps, AboutProcess DEF AcquireOwner, Inv
<1>1. CASE Queue!AcquireLock /\ proc' = [proc EXCEPT ![p].pc = "recover", ![p].epoch = epoch + 1]
  <2> DEFINE q == [r EXCEPT !.pc = "recover", !.epoch = epoch + 1]
  <2>1. proc' = [proc EXCEPT ![p] = q]
    BY <1>1
  <2>2. "recover" \in PcNames /\ epoch + 1 \in Nat
    BY <1>0 DEF PcNames
  <2> HIDE DEF r
  <2>3. q \in ProcRecord
    BY <1>0, <2>2 DEF ProcRecord
  <2>4. q.pc = "recover" /\ q.epoch = epoch + 1
    BY <1>0 DEF ProcRecord
  <2> HIDE DEF q
  <2>5. Moves(p, q.pc, q.epoch, q.claim, q.todo, q.outcome)
    BY <2>1, <2>3, Updates DEF Inv
  <2>6. QueueEffect(p) /\ epoch' = epoch + 1
    BY <1>0, <1>1 DEF QueueEffect, Queue!AcquireLock
  <2>7. Sound(p, q.pc, q.epoch, q.claim, q.todo, q.outcome)
    BY <1>0, <2>4, <2>5, <2>6 DEF Sound, OwnClaims, Places0, Busy
  <2> QED
    BY <2>2, <2>4, <2>7 DEF Fits
<1>2. CASE proc' = [proc EXCEPT ![p] = Stopped] /\ (Unmoved \/ Queue!AcquireLock)
  BY <1>0, <1>2, StopFits
<1> QED
  BY <1>1, <1>2 DEF AcquireOwner

\* Recovery of the claims that an earlier owner left.
LEMMA RecoverFits ==
    ASSUME Inv, NEW p \in Proc, RecoverClaims(p)
    PROVE  Fits(p)
<1>0. /\ NoMongo /\ UNCHANGED <<published, workload>> /\ inputs' = inputs
      /\ proc[p].pc \notin Places0
  BY DEF RecoverClaims, Places0
<1>1. CASE /\ Queue!RecoverScript(proc[p].epoch)
           /\ Goto(p, IF Len(processing) < RecoverBatch THEN "loop" ELSE "recover")
  <2>1. processing' = <<>> /\ QueueEffect(p) /\ epoch' = epoch
    <3>1. TypeOK /\ Len(processing) <= 1
      BY DEF Inv, ListInv, LineInv
    <3> QED
      BY <1>0, <1>1, <3>1, RecoverMoves DEF QueueEffect, Queue!RecoverScript
  <2>2. Goto(p, "loop") \/ Goto(p, "recover")
    BY <1>1
  <2> QED
    BY <1>0, <2>1, <2>2, LoopFits, JumpFits
<1>2. CASE Quit(p) /\ (Unmoved \/ Queue!RecoverScript(proc[p].epoch))
  <2>1. QueueEffect(p) /\ epoch' = epoch /\ Goto(p, "exit")
    BY <1>0, <1>2 DEF QueueEffect, Quit, Unmoved, queueVars, Queue!RecoverScript
  <2> QED
    BY <1>0, <2>1, JumpFits
<1> QED
  BY <1>1, <1>2 DEF RecoverClaims

\* The head of the loop.
LEMMA InspectFits ==
    ASSUME Inv, NEW p \in Proc, Inspect(p)
    PROVE  Fits(p)
<1> DEFINE idle == queue = <<>> /\ processing = <<>>
           r == proc[p]
           q == [r EXCEPT !.pc = "claim", !.sent = r.sent /\ idle]
<1>0. /\ NoMongo /\ UNCHANGED <<published, workload>> /\ inputs' = inputs
      /\ proc[p].pc \notin Places0 /\ Unmoved /\ QueueEffect(p) /\ epoch' = epoch
      /\ (owner' = r.epoch /\ epoch' = r.epoch) => processing' = <<>>
  BY AboutProcess DEF Inspect, Places0, QueueEffect, Unmoved, queueVars, OwnClaims
<1>1. CASE Goto(p, "signal")
  BY <1>0, <1>1, LoopFits
<1>2. CASE proc' = [proc EXCEPT ![p].pc = "claim", ![p].sent = @ /\ idle]
  <2>1. proc' = [proc EXCEPT ![p] = q]
    BY <1>2
  <2>2. r \in ProcRecord /\ "claim" \in PcNames /\ (r.sent /\ idle) \in BOOLEAN
    BY AboutProcess DEF PcNames
  <2> HIDE DEF r, idle
  <2>3. q \in ProcRecord
    BY <2>2 DEF ProcRecord
  <2>4. q.pc = "claim" /\ q.epoch = r.epoch
    BY <2>2 DEF ProcRecord
  <2> HIDE DEF q
  <2>5. q.epoch = proc[p].epoch
    BY <2>4 DEF r
  <2> QED
    BY <1>0, <2>1, <2>3, <2>4, <2>5, LoopSound DEF r
<1>3. CASE Quit(p)
  BY <1>0, <1>3, JumpFits DEF Quit
<1> QED
  BY <1>1, <1>2, <1>3 DEF Inspect

\* The signal to the crawler.
LEMMA SignalFits ==
    ASSUME Inv, NEW p \in Proc, SignalCrawler(p)
    PROVE  Fits(p)
<1> DEFINE r == proc[p]
           q == [r EXCEPT !.pc = "claim", !.sent = TRUE]
<1>0. /\ NoMongo /\ UNCHANGED <<published, workload>> /\ inputs' = inputs
      /\ proc[p].pc \notin Places0 /\ Unmoved /\ QueueEffect(p) /\ epoch' = epoch
      /\ (owner' = r.epoch /\ epoch' = r.epoch) => processing' = <<>>
  BY AboutProcess DEF SignalCrawler, Places0, QueueEffect, Unmoved, queueVars, OwnClaims
<1>1. CASE proc' = [proc EXCEPT ![p].pc = "claim", ![p].sent = TRUE]
  <2>1. proc' = [proc EXCEPT ![p] = q]
    BY <1>1
  <2>2. r \in ProcRecord /\ "claim" \in PcNames
    BY AboutProcess DEF PcNames
  <2> HIDE DEF r
  <2>3. q \in ProcRecord
    BY <2>2 DEF ProcRecord
  <2>4. q.pc = "claim" /\ q.epoch = r.epoch
    BY <2>2 DEF ProcRecord
  <2> HIDE DEF q
  <2>5. q.epoch = proc[p].epoch
    BY <2>4 DEF r
  <2> QED
    BY <1>0, <2>1, <2>3, <2>4, <2>5, LoopSound DEF r
<1>2. CASE Quit(p)
  BY <1>0, <1>2, JumpFits DEF Quit
<1> QED
  BY <1>1, <1>2 DEF SignalCrawler

\* The claim of the next publication: the owner has none then.
LEMMA ClaimFits ==
    ASSUME Inv, NEW p \in Proc, ClaimPage(p)
    PROVE  Fits(p)
<1> DEFINE r == proc[p]
           v == Last(queue)
           q == [r EXCEPT !.pc = "claimed", !.claim = v, !.sent = FALSE]
<1>0. /\ NoMongo /\ UNCHANGED <<published, workload>> /\ inputs' = inputs
      /\ proc[p].pc \notin Places0 /\ MongoOK' /\ canonical' = canonical
      /\ r \in ProcRecord /\ r.epoch \in Nat
      /\ (owner = r.epoch /\ epoch = r.epoch) => processing = <<>>
  BY AboutProcess, NoMongoKeeps DEF ClaimPage, Places0, OwnClaims, Inv
<1>1. Queue!ClaimScript(r.epoch) => /\ QueueEffect(p) /\ processing' = <<v>> /\ epoch' = epoch
                                    /\ v \in 1..published
  BY <1>0, ClaimMoves DEF QueueEffect, Queue!ClaimScript, Queue!Holds, Inv
<1>2. Unmoved => QueueEffect(p) /\ epoch' = epoch
                   /\ ((owner' = r.epoch /\ epoch' = r.epoch) => processing' = <<>>)
  BY <1>0 DEF QueueEffect, Unmoved, queueVars
<1>3. CASE /\ Queue!ClaimScript(r.epoch)
           /\ proc' = [proc EXCEPT ![p].pc = "claimed", ![p].claim = Last(queue),
                                   ![p].sent = FALSE]
  <2>1. proc' = [proc EXCEPT ![p] = q]
    BY <1>3
  <2>2. "claimed" \in PcNames /\ v \in Nat /\ v \in 1..published
    BY <1>1, <1>3 DEF PcNames, Busy
  <2> HIDE DEF r, v
  <2>3. q \in ProcRecord
    BY <1>0, <2>2 DEF ProcRecord
  <2>4. q.pc = "claimed" /\ q.epoch = r.epoch /\ q.claim = v
    BY <1>0 DEF ProcRecord
  <2> HIDE DEF q
  <2>5. Moves(p, q.pc, q.epoch, q.claim, q.todo, q.outcome)
    BY <2>1, <2>3, Updates DEF Inv
  <2>6. Sound(p, q.pc, q.epoch, q.claim, q.todo, q.outcome)
    BY <1>0, <1>1, <1>3, <2>2, <2>4, <2>5 DEF Sound, OwnClaims, Places0, Busy, r
  <2> QED
    BY <1>0, <2>4, <2>6 DEF Fits
<1>4. CASE Goto(p, "loop") /\ Unmoved
  BY <1>0, <1>2, <1>4, LoopFits
<1>5. CASE Quit(p) /\ (Unmoved \/ Queue!ClaimScript(r.epoch))
  BY <1>0, <1>1, <1>2, <1>5, JumpFits DEF Quit
<1> QED
  BY <1>3, <1>4, <1>5 DEF ClaimPage

\* A claim taken during shutdown.
LEMMA LeaveFits ==
    ASSUME Inv, NEW p \in Proc, LeaveClaim(p)
    PROVE  Fits(p)
<1>1. /\ NoMongo /\ UNCHANGED <<published, workload>> /\ inputs' = inputs
      /\ proc[p].pc \notin Places0 /\ QueueEffect(p) /\ epoch' = epoch /\ Goto(p, "exit")
  BY DEF LeaveClaim, Places0, envVars, Unmoved, queueVars, QueueEffect, Quit
<1> QED
  BY <1>1, JumpFits

\* The quarantine of a value that is no publication key.
LEMMA QuarantineInvalidFits ==
    ASSUME Inv, NEW p \in Proc, QuarantineInvalid(p)
    PROVE  Fits(p)
<1> DEFINE r == proc[p]
           q == [r EXCEPT !.pc = "loop", !.claim = 0]
<1>0. /\ NoMongo /\ UNCHANGED <<published, workload>> /\ inputs' = inputs
      /\ proc[p].pc \notin Places0 /\ r \in ProcRecord /\ Kind(r.claim) \in Bad
  BY AboutProcess DEF QuarantineInvalid, Places0, Bad
<1>1. Queue!QuarantineScript(r.epoch, r.claim) =>
          QueueEffect(p) /\ processing' = <<>> /\ epoch' = epoch
  BY <1>0, QuarantineKeepsLists DEF QueueEffect, Queue!QuarantineScript, Inv
<1>2. Unmoved => QueueEffect(p) /\ epoch' = epoch
  BY <1>0 DEF QueueEffect, Unmoved, queueVars
<1>3. CASE /\ Queue!QuarantineScript(r.epoch, r.claim)
           /\ proc' = [proc EXCEPT ![p].pc = "loop", ![p].claim = 0]
  <2>1. proc' = [proc EXCEPT ![p] = q]
    BY <1>3
  <2>2. "loop" \in PcNames
    BY DEF PcNames
  <2> HIDE DEF r
  <2>3. q \in ProcRecord
    BY <1>0, <2>2 DEF ProcRecord
  <2>4. q.pc = "loop" /\ q.epoch = r.epoch
    BY <1>0 DEF ProcRecord
  <2> HIDE DEF q
  <2>5. q.epoch = proc[p].epoch
    BY <2>4 DEF r
  <2> QED
    BY <1>0, <1>1, <1>3, <2>1, <2>3, <2>4, <2>5, LoopSound
<1>4. CASE Quit(p) /\ (Unmoved \/ Queue!QuarantineScript(r.epoch, r.claim))
  BY <1>0, <1>1, <1>2, <1>4, JumpFits DEF Quit
<1> QED
  BY <1>3, <1>4 DEF QuarantineInvalid

\* The canonical lock of the claim's URL.
LEMMA AcquireCanonicalFits ==
    ASSUME Inv, NEW p \in Proc, AcquireCanonical(p)
    PROVE  Fits(p)
<1> DEFINE r == proc[p]
           u == ClaimUrl(p)
           Insert == canonical[u] = Free /\ canonical' = [canonical EXCEPT ![u] = Mine(p)]
<1>0. /\ UNCHANGED <<published, workload, store, late>> /\ inputs' = inputs
      /\ r.pc = "claimed" /\ r.pc \notin Places0 /\ r \in ProcRecord /\ r.epoch \in Nat
      /\ r.claim \in 1..published /\ r.claim \in Nat
      /\ Unmoved /\ QueueEffect(p) /\ epoch' = epoch
      /\ Kind(r.claim) # "invalid" /\ u \in Url
      /\ OwnClaims(owner, epoch, processing, r.epoch, r.pc, r.claim, r.outcome)
      /\ UNCHANGED <<owner, epoch, processing>>
      /\ canonical \in [Url -> LockDoc] /\ Mine(p) \in LockDoc
  BY AboutProcess, PubFields
     DEF AcquireCanonical, Places0, QueueEffect, Unmoved, queueVars, Busy, Inv,
         ClaimUrl, TypeOK, MongoOK, Mine, LockDoc
<1>1. Insert => /\ canonical' \in [Url -> LockDoc]
                /\ \A x \in Url : canonical'[x] = canonical[x] \/ canonical[x] \in {Free, Mine(p)}
                /\ canonical'[u] = Mine(p)
  BY <1>0
<1>2. canonical' \in [Url -> LockDoc] => MongoOK'
  BY <1>0 DEF Inv, TypeOK, MongoOK, WriteOp
<1>3. CASE Insert /\ Goto(p, "load")
  <2>1. Moves(p, "load", r.epoch, r.claim, r.todo, r.outcome)
    <3>1. "load" \in PcNames
      BY DEF PcNames, Busy
    <3> QED
      BY <1>3, <3>1, GotoMoves DEF Inv
  <2>2. Sound(p, "load", r.epoch, r.claim, r.todo, r.outcome)
    <3>1. canonical'[UrlOf(r.claim)] = [service |-> "page", pub |-> r.claim, epoch |-> r.epoch]
      BY <1>1, <1>3 DEF ClaimUrl, Mine
    <3>2. OwnClaims(owner', epoch', processing', r.epoch, "load", r.claim, r.outcome)
      BY <1>0 DEF OwnClaims, Busy
    <3>3. "load" \notin Places0
      BY DEF Places0
    <3> QED
      BY <1>0, <1>1, <1>2, <1>3, <2>1, <3>1, <3>2, <3>3 DEF Sound
  <2> QED
    BY <1>0, <2>2 DEF Fits
<1>4. CASE Goto(p, "release") /\ (Insert \/ canonical' = canonical)
  <2>1. Moves(p, "release", r.epoch, r.claim, r.todo, r.outcome)
    <3>1. "release" \in PcNames
      BY DEF PcNames
    <3> QED
      BY <1>4, <3>1, GotoMoves DEF Inv
  <2>2. Sound(p, "release", r.epoch, r.claim, r.todo, r.outcome)
    BY <1>0, <1>1, <1>2, <1>4, <2>1 DEF Sound, OwnClaims, Places0, Busy
  <2> QED
    BY <1>0, <2>2 DEF Fits
<1> QED
  BY <1>3, <1>4 DEF AcquireCanonical

-----------------------------------------------------------------------------
(* What one call of MongoDB changes. *)

\* The collections other than those of one URL, and other than the given one.
Elsewhere(s, t, u, f) ==
    /\ t \in StoreType
    /\ \A x \in Url : f # "words" \/ x # u => t.words[x] = s.words[x]
    /\ \A x \in Url : f # "meta" \/ x # u => t.meta[x] = s.meta[x]
    /\ \A x \in Url : f # "links" \/ x # u => t.links[x] = s.links[x]
    /\ \A x \in Url : f # "artifact" \/ x # u => t.artifact[x] = s.artifact[x]

\* A fenced write yields a document.
LEMMA DocTypes ==
    ASSUME NEW d \in Doc, NEW op, op.pub \in Nat, op.epoch \in Nat
    PROVE  UpsertDoc(d, op) \in Doc /\ DeleteDoc(d, op) \in Doc
BY DEF UpsertDoc, DeleteDoc, Doc, NoDoc

\* The calls, by what they do to the documents of one URL.
CallEffect(s, t, u, op) ==
    /\ op.call = "artifact" =>
          Elsewhere(s, t, u, "artifact") /\ t.artifact[u] = UpsertDoc(s.artifact[u], op)
    /\ op.call = "stale" =>
          /\ Elsewhere(s, t, u, "words")
          /\ \A w \in Word : t.words[u][w] =
                IF w \in WordsOf(op.pub) THEN s.words[u][w] ELSE DeleteDoc(s.words[u][w], op)
    /\ op.call = "words" =>
          /\ Elsewhere(s, t, u, "words")
          /\ \A w \in Word : t.words[u][w] =
                IF w \in WordsOf(op.pub) THEN UpsertDoc(s.words[u][w], op) ELSE s.words[u][w]
    /\ op.call = "dictionary" => Elsewhere(s, t, u, "dictionary")
    /\ op.call = "metadata" =>
          Elsewhere(s, t, u, "meta") /\ t.meta[u] = UpsertDoc(s.meta[u], op)
    /\ op.call = "outlinks" =>
          Elsewhere(s, t, u, "links") /\ t.links[u] = UpsertDoc(s.links[u], op)
    /\ op.call = "no words" =>
          /\ Elsewhere(s, t, u, "words")
          /\ \A w \in Word : t.words[u][w] = DeleteDoc(s.words[u][w], op)
    /\ op.call = "no metadata" =>
          Elsewhere(s, t, u, "meta") /\ t.meta[u] = DeleteDoc(s.meta[u], op)
    /\ op.call = "no outlinks" =>
          Elsewhere(s, t, u, "links") /\ t.links[u] = DeleteDoc(s.links[u], op)

\* That is what they do.
LEMMA CallEffects ==
    ASSUME NEW s \in StoreType, NEW op, op.pub \in Nat, op.epoch \in Nat,
           UrlOf(op.pub) \in Url, WordsOf(op.pub) \subseteq Word,
           NEW u, u = UrlOf(op.pub), NEW t, t = Apply(s, op)
    PROVE  CallEffect(s, t, u, op)
<1> USE DEF CallEffect
<1>0. /\ s.words \in [Url -> [Word -> Doc]] /\ s.meta \in [Url -> Doc]
      /\ s.links \in [Url -> Doc] /\ s.artifact \in [Url -> Doc] /\ s.dictionary \subseteq Word
  BY DEF StoreType
<1>1. ASSUME NEW d \in Doc
      PROVE  /\ Elsewhere(s, [s EXCEPT !.meta[u] = d], u, "meta")
             /\ [s EXCEPT !.meta[u] = d].meta[u] = d
             /\ Elsewhere(s, [s EXCEPT !.links[u] = d], u, "links")
             /\ [s EXCEPT !.links[u] = d].links[u] = d
             /\ Elsewhere(s, [s EXCEPT !.artifact[u] = d], u, "artifact")
             /\ [s EXCEPT !.artifact[u] = d].artifact[u] = d
  BY <1>0 DEF Elsewhere, StoreType
<1>2. ASSUME NEW f \in [Word -> Doc]
      PROVE  /\ Elsewhere(s, [s EXCEPT !.words[u] = f], u, "words")
             /\ [s EXCEPT !.words[u] = f].words[u] = f
  BY <1>0 DEF Elsewhere, StoreType
<1>3. ASSUME NEW D \in SUBSET Word
      PROVE  Elsewhere(s, [s EXCEPT !.dictionary = D], u, "dictionary")
  BY <1>0 DEF Elsewhere, StoreType
<1>4. CASE op.call = "artifact"
  <2> DEFINE d == UpsertDoc(s.artifact[u], op)
  <2>1. d \in Doc
    BY <1>0, DocTypes
  <2>2. t = [s EXCEPT !.artifact[u] = d]
    BY <1>4 DEF Apply, SavePageArtifact
  <2> HIDE DEF d
  <2>3. Elsewhere(s, t, u, "artifact") /\ t.artifact[u] = d
    BY <1>1, <2>1, <2>2
  <2> QED
    BY <1>4, <2>3 DEF d
<1>5. CASE op.call = "stale"
  <2> DEFINE f == [w \in Word |-> IF w \in WordsOf(op.pub) THEN s.words[u][w]
                                 ELSE DeleteDoc(s.words[u][w], op)]
  <2>1. f \in [Word -> Doc]
    BY <1>0, DocTypes
  <2>2. t = [s EXCEPT !.words[u] = f]
    BY <1>5 DEF Apply, DropStaleWords
  <2>3. \A w \in Word : f[w] = IF w \in WordsOf(op.pub) THEN s.words[u][w]
                                 ELSE DeleteDoc(s.words[u][w], op)
    OBVIOUS
  <2> HIDE DEF f
  <2>4. Elsewhere(s, t, u, "words") /\ t.words[u] = f
    BY <1>2, <2>1, <2>2
  <2> QED
    BY <1>5, <2>3, <2>4
<1>6. CASE op.call = "words"
  <2> DEFINE f == [w \in Word |-> IF w \in WordsOf(op.pub) THEN UpsertDoc(s.words[u][w], op)
                                 ELSE s.words[u][w]]
  <2>1. f \in [Word -> Doc]
    BY <1>0, DocTypes
  <2>2. t = [s EXCEPT !.words[u] = f]
    BY <1>6 DEF Apply, UpsertWords
  <2>3. \A w \in Word : f[w] = IF w \in WordsOf(op.pub) THEN UpsertDoc(s.words[u][w], op)
                                 ELSE s.words[u][w]
    OBVIOUS
  <2> HIDE DEF f
  <2>4. Elsewhere(s, t, u, "words") /\ t.words[u] = f
    BY <1>2, <2>1, <2>2
  <2> QED
    BY <1>6, <2>3, <2>4
<1>7. CASE op.call = "dictionary"
  <2>1. t = [s EXCEPT !.dictionary = s.dictionary \cup WordsOf(op.pub)]
    BY <1>7 DEF Apply, AddToDictionary
  <2>2. s.dictionary \cup WordsOf(op.pub) \in SUBSET Word
    BY <1>0
  <2>3. Elsewhere(s, t, u, "dictionary")
    BY <1>3, <2>1, <2>2
  <2> QED
    BY <1>7, <2>3
<1>8. CASE op.call = "metadata"
  <2> DEFINE d == UpsertDoc(s.meta[u], op)
  <2>1. d \in Doc
    BY <1>0, DocTypes
  <2>2. t = [s EXCEPT !.meta[u] = d]
    BY <1>8 DEF Apply, ReplaceMetadata
  <2> HIDE DEF d
  <2>3. Elsewhere(s, t, u, "meta") /\ t.meta[u] = d
    BY <1>1, <2>1, <2>2
  <2> QED
    BY <1>8, <2>3 DEF d
<1>9. CASE op.call = "outlinks"
  <2> DEFINE d == UpsertDoc(s.links[u], op)
  <2>1. d \in Doc
    BY <1>0, DocTypes
  <2>2. t = [s EXCEPT !.links[u] = d]
    BY <1>9 DEF Apply, ReplaceOutlinks
  <2> HIDE DEF d
  <2>3. Elsewhere(s, t, u, "links") /\ t.links[u] = d
    BY <1>1, <2>1, <2>2
  <2> QED
    BY <1>9, <2>3 DEF d
<1>10. CASE op.call = "no words"
  <2> DEFINE f == [w \in Word |-> DeleteDoc(s.words[u][w], op)]
  <2>1. f \in [Word -> Doc]
    BY <1>0, DocTypes
  <2>2. t = [s EXCEPT !.words[u] = f]
    BY <1>10 DEF Apply, RemoveWords
  <2>3. \A w \in Word : f[w] = DeleteDoc(s.words[u][w], op)
    OBVIOUS
  <2> HIDE DEF f
  <2>4. Elsewhere(s, t, u, "words") /\ t.words[u] = f
    BY <1>2, <2>1, <2>2
  <2> QED
    BY <1>10, <2>3, <2>4
<1>11. CASE op.call = "no metadata"
  <2> DEFINE d == DeleteDoc(s.meta[u], op)
  <2>1. d \in Doc
    BY <1>0, DocTypes
  <2>2. t = [s EXCEPT !.meta[u] = d]
    BY <1>11 DEF Apply, RemoveMetadata
  <2> HIDE DEF d
  <2>3. Elsewhere(s, t, u, "meta") /\ t.meta[u] = d
    BY <1>1, <2>1, <2>2
  <2> QED
    BY <1>11, <2>3 DEF d
<1>12. CASE op.call = "no outlinks"
  <2> DEFINE d == DeleteDoc(s.links[u], op)
  <2>1. d \in Doc
    BY <1>0, DocTypes
  <2>2. t = [s EXCEPT !.links[u] = d]
    BY <1>12 DEF Apply, RemoveOutlinks
  <2> HIDE DEF d
  <2>3. Elsewhere(s, t, u, "links") /\ t.links[u] = d
    BY <1>1, <2>1, <2>2
  <2> QED
    BY <1>12, <2>3 DEF d
<1> QED
  BY <1>4, <1>5, <1>6, <1>7, <1>8, <1>9, <1>10, <1>11, <1>12

\* A write of a process or a late one keeps the types.
LEMMA ApplyTypes ==
    ASSUME TypeOK, NEW op \in WriteOp
    PROVE  /\ Apply(store, op) \in StoreType
           /\ op.pub \in Nat /\ op.epoch \in Nat /\ op.call \in CallNames
           /\ UrlOf(op.pub) \in Url /\ WordsOf(op.pub) \subseteq Word
<1>1. /\ op.pub \in 1..published /\ op.pub \in Nat /\ op.epoch \in Nat
      /\ op.call \in CallNames /\ store \in StoreType
  BY PubFields DEF WriteOp, TypeOK, MongoOK
<1>2. UrlOf(op.pub) \in Url /\ WordsOf(op.pub) \subseteq Word
  BY <1>1, PubFields
<1> DEFINE u == UrlOf(op.pub)
           t == Apply(store, op)
<1>3. \E f : Elsewhere(store, t, u, f)
  <2> HIDE DEF u, t
  <2>1. op.call \in {"artifact", "stale", "words", "dictionary", "metadata", "outlinks",
                     "no words", "no metadata", "no outlinks"}
    BY <1>1 DEF CallNames
  <2> QED
    BY ZenonT(60), <1>1, <1>2, <2>1, CallEffects DEF u, t, CallEffect
<1> QED
  BY <1>1, <1>2, <1>3 DEF Elsewhere

\* The plan of calls for a publication that has inputs.
LEMMA CallsType ==
    ASSUME NEW v, Kind(v) \in Readable
    PROVE  Calls(v) \in Seq(CallNames) /\ Calls(v) # <<>>
<1>1. /\ <<"stale", "metadata", "outlinks">> \in Seq(CallNames)
      /\ <<"stale", "words", "dictionary", "metadata", "outlinks">> \in Seq(CallNames)
      /\ <<"no words", "no metadata", "no outlinks">> \in Seq(CallNames)
      /\ <<"artifact">> \in Seq(CallNames)
  BY DEF CallNames
<1>2. ReplaceSearchState(v) \in Seq(CallNames) /\ ReplaceSearchState(v) # <<>>
  BY <1>1 DEF ReplaceSearchState
<1>3. RemoveSearchState \in Seq(CallNames) /\ RemoveSearchState # <<>>
  BY <1>1 DEF RemoveSearchState
<1> DEFINE a == IF Rendered(v) THEN <<"artifact">> ELSE <<>>
           b == IF Indexable(v) THEN ReplaceSearchState(v) ELSE RemoveSearchState
<1>4. a \in Seq(CallNames) /\ b \in Seq(CallNames) /\ b # <<>> /\ Calls(v) = a \o b
  <2>1. <<>> \in Seq(CallNames)
    OBVIOUS
  <2>2. a \in Seq(CallNames) /\ b \in Seq(CallNames) /\ b # <<>>
    BY <1>1, <1>2, <1>3, <2>1
  <2> QED
    BY <2>2 DEF Calls
<1> HIDE DEF a, b
<1>5. a \o b \in Seq(CallNames) /\ a \o b # <<>>
  BY <1>4
<1> QED
  BY <1>4, <1>5

\* A claimed publication without inputs is corrupt.
LEMMA NoInputs ==
    ASSUME TypeOK, ListInv, NEW v, Contains(processing, v), v \notin inputs
    PROVE  Kind(v) = "corrupt"
<1>1. Len(processing) = 1 /\ processing[1] = v
  BY OutOfLine
<1>2. 1 \in 1..Len(processing)
  BY <1>1
<1> QED
  BY <1>1, <1>2 DEF ListInv, KeptInv

\* The page is read: it is quarantined, or the calls are planned.
LEMMA LoadFits ==
    ASSUME Inv, NEW p \in Proc, LoadPage(p)
    PROVE  Fits(p)
<1> DEFINE r == proc[p]
           v == proc[p].claim
           q == [r EXCEPT !.pc = "write", !.todo = Calls(v)]
           Quarantine == Queue!QuarantineScript(proc[p].epoch, v)
<1>0. /\ NoMongo /\ UNCHANGED <<published, workload>> /\ inputs' = inputs
      /\ r.pc = "load" /\ r.pc \in {"load", "write", "finish"} /\ r.pc \notin Places0
      /\ r \in ProcRecord /\ r.epoch \in Nat
      /\ v \in 1..published /\ Kind(v) # "invalid"
      /\ MongoOK' /\ canonical' = canonical
  BY AboutProcess, NoMongoKeeps DEF LoadPage, Places0, Inv, ProcInv, Busy
<1>1. Quarantine /\ v \notin inputs => QueueEffect(p) /\ processing' = <<>>
  <2> SUFFICES ASSUME Quarantine, v \notin inputs
               PROVE  QueueEffect(p) /\ processing' = <<>>
    OBVIOUS
  <2>1. Contains(processing, v)
    BY SameOperators DEF Queue!QuarantineScript
  <2>2. Kind(v) \in Bad
    BY <2>1, NoInputs DEF Inv, Bad
  <2> QED
    BY <1>0, <2>2, QuarantineKeepsLists DEF QueueEffect, Inv
<1>2. Unmoved => QueueEffect(p) /\ UNCHANGED <<owner, epoch, processing>>
  BY <1>0 DEF QueueEffect, Unmoved, queueVars
<1>3. CASE v \notin inputs /\ Quarantine /\ Finished(p, "dead")
  <2>1. Sound(p, "unlock", proc[p].epoch, proc[p].claim, <<>>, "dead")
    BY <1>0, <1>1, <1>3, FinishedSound DEF Outcomes
  <2> QED
    BY <1>0, <2>1 DEF Fits
<1>4. CASE /\ v \in inputs /\ Unmoved
           /\ proc' = [proc EXCEPT ![p].pc = "write", ![p].todo = Calls(v)]
  <2>1. proc' = [proc EXCEPT ![p] = q]
    BY <1>4
  <2>2. Kind(v) \in Readable
    <3>1. Kind(v) \in Readable \cup Bad
      BY <1>0, PubFields DEF Inv
    <3> QED
      BY <1>0, <1>4, <3>1 DEF Inv, InputsInv, Bad
  <2>3. "write" \in PcNames /\ Calls(v) \in Seq(CallNames) /\ Calls(v) # <<>>
    BY <2>2, CallsType DEF PcNames, Busy
  <2>4. v = r.claim /\ OwnClaims(owner, epoch, processing, r.epoch, r.pc, r.claim, r.outcome)
    BY AboutProcess
  <2>5. canonical[UrlOf(v)] = [service |-> "page", pub |-> v, epoch |-> r.epoch]
    BY <1>0 DEF Inv, LockInv, ClaimUrl, Mine
  <2> HIDE DEF r, v
  <2>6. q \in ProcRecord
    BY <1>0, <2>3 DEF ProcRecord
  <2>7. /\ q.pc = "write" /\ q.epoch = r.epoch /\ q.claim = r.claim
        /\ q.todo = Calls(v) /\ q.outcome = r.outcome
    BY <1>0 DEF ProcRecord
  <2> HIDE DEF q
  <2>8. Moves(p, q.pc, q.epoch, q.claim, q.todo, q.outcome)
    BY <2>1, <2>6, Updates DEF Inv
  <2>9. OwnClaims(owner', epoch', processing', r.epoch, "write", r.claim, r.outcome)
    BY <1>0, <1>2, <1>4, <2>4 DEF OwnClaims, Busy
  <2>10. "write" \notin Places0
    BY DEF Places0
  <2>11. Sound(p, q.pc, q.epoch, q.claim, q.todo, q.outcome)
    BY <1>0, <1>2, <1>4, <2>3, <2>4, <2>5, <2>7, <2>8, <2>9, <2>10 DEF Sound, r, v
  <2> QED
    BY <1>0, <2>7, <2>11 DEF Fits
<1>5. CASE Finished(p, "failed") /\ (Unmoved \/ (v \notin inputs /\ Quarantine))
  <2>1. Sound(p, "unlock", proc[p].epoch, proc[p].claim, <<>>, "failed")
    BY <1>0, <1>1, <1>2, <1>5, FinishedSound DEF Outcomes
  <2> QED
    BY <1>0, <2>1 DEF Fits
<1> QED
  BY <1>3, <1>4, <1>5 DEF LoadPage

\* One call of the plan.
LEMMA WriteFits ==
    ASSUME Inv, NEW p \in Proc, Write(p)
    PROVE  Fits(p)
<1> DEFINE r == proc[p]
           op == [call |-> Head(r.todo), pub |-> r.claim, epoch |-> r.epoch]
           rest == Tail(r.todo)
           next == IF rest = <<>> THEN "finish" ELSE "write"
           q == [r EXCEPT !.pc = next, !.todo = rest]
<1>0. /\ UNCHANGED <<published, workload, canonical>> /\ inputs' = inputs
      /\ r.pc = "write" /\ r.pc \in {"load", "write", "finish"} /\ r.pc \notin Places0
      /\ r \in ProcRecord /\ r.epoch \in Nat
      /\ r.claim \in 1..published /\ Kind(r.claim) # "invalid"
      /\ r.todo \in Seq(CallNames) /\ r.todo # <<>>
      /\ QueueEffect(p) /\ UNCHANGED <<owner, epoch, processing>>
  BY AboutProcess, Fields
     DEF Write, Places0, Inv, ProcInv, Busy, QueueEffect, Unmoved, queueVars
<1>1. op \in WriteOp /\ rest \in Seq(CallNames)
  <2>1. Head(r.todo) \in CallNames /\ rest \in Seq(CallNames)
    BY <1>0
  <2> QED
    BY <1>0, <2>1 DEF WriteOp
<1>2. MongoOK'
  <2>1. Apply(store, op) \in StoreType /\ store \in StoreType /\ late \subseteq WriteOp
        /\ canonical \in [Url -> LockDoc]
    BY <1>1, ApplyTypes DEF Inv, TypeOK, MongoOK
  <2>2. store' \in {store, Apply(store, op)} /\ late' \subseteq late \cup {op}
    BY DEF Write
  <2> HIDE DEF op
  <2>3. store' \in StoreType /\ late' \subseteq WriteOp
    BY <1>1, <2>1, <2>2
  <2> QED
    BY <1>0, <2>1, <2>3 DEF MongoOK, WriteOp
<1>3. CASE proc' = [proc EXCEPT ![p].pc = IF rest = <<>> THEN "finish" ELSE "write",
                                ![p].todo = rest]
  <2>1. proc' = [proc EXCEPT ![p] = q]
    BY <1>3
  <2>2. next \in PcNames /\ next \in {"finish", "write"} /\ (next = "write" => rest # <<>>)
    BY DEF PcNames, Busy
  <2>4. OwnClaims(owner, epoch, processing, r.epoch, r.pc, r.claim, r.outcome)
    BY AboutProcess
  <2>5. canonical[UrlOf(r.claim)] = [service |-> "page", pub |-> r.claim, epoch |-> r.epoch]
    BY <1>0 DEF Inv, LockInv, ClaimUrl, Mine
  <2>6. q \in ProcRecord /\ q.pc = next /\ q.epoch = r.epoch /\ q.claim = r.claim
        /\ q.todo = rest /\ q.outcome = r.outcome
    <3> HIDE DEF r, next, rest
    <3> QED
      BY <1>0, <1>1, <2>2 DEF ProcRecord
  <2> HIDE DEF q, next
  <2>7. Moves(p, q.pc, q.epoch, q.claim, q.todo, q.outcome)
    BY <2>1, <2>6, Updates DEF Inv
  <2>8. OwnClaims(owner', epoch', processing', r.epoch, next, r.claim, r.outcome)
    BY <1>0, <2>2, <2>4 DEF OwnClaims, Busy
  <2>9. next \notin Places0
    BY <2>2 DEF Places0
  <2>10. Sound(p, q.pc, q.epoch, q.claim, q.todo, q.outcome)
    BY <1>0, <1>2, <2>2, <2>5, <2>6, <2>7, <2>8, <2>9 DEF Sound
  <2> QED
    BY <1>0, <2>6, <2>10 DEF Fits
<1>4. CASE Finished(p, "failed")
  <2>1. Sound(p, "unlock", proc[p].epoch, proc[p].claim, <<>>, "failed")
    BY <1>0, <1>2, <1>4, FinishedSound DEF Outcomes
  <2> QED
    BY <1>0, <2>1 DEF Fits
<1> QED
  BY <1>3, <1>4 DEF Write

\* The completion and the skip.
LEMMA FinishFits ==
    ASSUME Inv, NEW p \in Proc, CompletePage(p) \/ SkipPage(p)
    PROVE  Fits(p)
<1> DEFINE r == proc[p]
<1>0. /\ NoMongo /\ UNCHANGED <<published, workload>> /\ FinishPage(p)
      /\ r.pc = "finish" /\ r.pc \in {"load", "write", "finish"} /\ r.epoch \in Nat
      /\ MongoOK' /\ canonical' = canonical
  BY AboutProcess, NoMongoKeeps DEF CompletePage, SkipPage, Inv
<1>1. HandOn(p) => QueueEffect(p) /\ processing' = <<>>
  <2> SUFFICES ASSUME HandOn(p)
               PROVE  processing' = <<>>
    BY DEF QueueEffect
  <2>1. Contains(processing, r.claim) /\ processing' = RemoveFirst(processing, r.claim)
    BY SameOperators DEF HandOn, Queue!FinishScript
  <2> QED
    BY <2>1, OutOfLine DEF Inv
<1>2. Unmoved /\ inputs' = inputs => QueueEffect(p)
  BY DEF QueueEffect
<1>3. CASE HandOn(p) /\ Finished(p, "done")
  <2>1. Sound(p, "unlock", proc[p].epoch, proc[p].claim, <<>>, "done")
    BY <1>0, <1>1, <1>3, FinishedSound DEF Outcomes
  <2> QED
    BY <1>0, <2>1 DEF Fits
<1>4. CASE Finished(p, "failed") /\ (HandOn(p) \/ (Unmoved /\ inputs' = inputs))
  <2>1. Sound(p, "unlock", proc[p].epoch, proc[p].claim, <<>>, "failed")
    BY <1>0, <1>1, <1>2, <1>4, FinishedSound DEF Outcomes
  <2> QED
    BY <1>0, <2>1 DEF Fits
<1> QED
  BY <1>0, <1>3, <1>4 DEF FinishPage

\* The release of the canonical lock.
LEMMA UnlockFits ==
    ASSUME Inv, NEW p \in Proc, UnlockCanonical(p)
    PROVE  Fits(p)
<1> DEFINE r == proc[p]
           u == ClaimUrl(p)
           next == IF r.outcome = "failed" THEN "release" ELSE "loop"
           c == IF r.outcome = "failed" THEN r.claim ELSE 0
           q == [r EXCEPT !.pc = next, !.claim = c, !.outcome = "none"]
<1>0. /\ UNCHANGED <<published, workload, store, late>> /\ inputs' = inputs
      /\ r.pc = "unlock" /\ r.pc \notin Places0 /\ r \in ProcRecord /\ r.epoch \in Nat
      /\ r.claim \in 1..published /\ r.claim \in Nat /\ u \in Url
      /\ QueueEffect(p) /\ UNCHANGED <<owner, epoch, processing>>
      /\ OwnClaims(owner, epoch, processing, r.epoch, r.pc, r.claim, r.outcome)
      /\ canonical \in [Url -> LockDoc] /\ canonical[u] = Mine(p)
  BY AboutProcess, PubFields
     DEF UnlockCanonical, Places0, QueueEffect, Unmoved, queueVars, Inv,
         ClaimUrl, TypeOK, MongoOK, LockInv
<1>1. Free \in LockDoc
  BY DEF Free, LockDoc
<1>2. canonical' \in {canonical, [canonical EXCEPT ![u] = Free]}
  BY <1>0 DEF UnlockCanonical
<1>3. /\ canonical' \in [Url -> LockDoc]
      /\ \A x \in Url : canonical'[x] = canonical[x] \/ canonical[x] \in {Free, Mine(p)}
  BY <1>0, <1>1, <1>2
<1>4. MongoOK'
  BY <1>0, <1>3 DEF Inv, TypeOK, MongoOK, WriteOp
<1>5. proc' = [proc EXCEPT ![p] = q]
  BY DEF UnlockCanonical
<1>6. /\ next \in PcNames /\ c \in Nat /\ next \in {"release", "loop"}
      /\ next = "release" => c \in 1..published
      /\ next = "loop" => r.outcome # "failed"
      /\ "none" \in Outcomes
  BY <1>0 DEF PcNames, Outcomes
<1>7. /\ q \in ProcRecord /\ q.pc = next /\ q.epoch = r.epoch /\ q.claim = c
      /\ q.outcome = "none"
  <2> HIDE DEF r, next, c
  <2> QED
    BY <1>0, <1>6 DEF ProcRecord
<1> HIDE DEF q, next, c
<1>8. Moves(p, q.pc, q.epoch, q.claim, q.todo, q.outcome)
  BY <1>5, <1>7, Updates DEF Inv
<1>9. OwnClaims(owner', epoch', processing', r.epoch, next, c, "none")
  BY <1>0, <1>6 DEF OwnClaims, Busy
<1>10. next \notin Places0 /\ next \notin Busy /\ next # "unlock"
       /\ next \notin {"load", "write", "finish", "unlock"} /\ next # "write"
  BY <1>6 DEF Places0, Busy
<1>11. Sound(p, q.pc, q.epoch, q.claim, q.todo, q.outcome)
  BY <1>0, <1>3, <1>4, <1>6, <1>7, <1>8, <1>9, <1>10 DEF Sound
<1> QED
  BY <1>0, <1>7, <1>11 DEF Fits

\* The claim is given back, or not, and the process ends.
LEMMA ReleaseFits ==
    ASSUME Inv, NEW p \in Proc, ReleasePage(p)
    PROVE  Fits(p)
<1>1. /\ NoMongo /\ UNCHANGED <<published, workload>> /\ inputs' = inputs
      /\ proc[p].pc \notin Places0 /\ Goto(p, "exit")
      /\ Unmoved \/ Queue!ReleaseScript(proc[p].epoch, proc[p].claim)
  BY DEF ReleasePage, Places0, Quit
<1>2. QueueEffect(p) /\ epoch' = epoch
  BY <1>1 DEF QueueEffect, Unmoved, queueVars, Queue!ReleaseScript
<1> QED
  BY <1>1, <1>2, JumpFits

\* The end of a process, with its lock when it can.
LEMMA ReleaseOwnerFits ==
    ASSUME Inv, NEW p \in Proc, ReleaseOwner(p)
    PROVE  Fits(p)
<1>1. /\ NoMongo /\ UNCHANGED <<published, workload>> /\ inputs' = inputs
      /\ proc' = [proc EXCEPT ![p] = Stopped]
      /\ Unmoved \/ Queue!DropLock(proc[p].epoch)
  BY DEF ReleaseOwner
<1> QED
  BY <1>1, StopFits

\* Every step of a process.
LEMMA ProcessFits ==
    ASSUME Inv, NEW p \in Proc, Start(p) \/ Terminate(p) \/ Crash(p) \/ RunIndexer(p)
    PROVE  Fits(p)
BY SupervisorFits, AcquireFits, RecoverFits, InspectFits, SignalFits, ClaimFits, LeaveFits,
   QuarantineInvalidFits, AcquireCanonicalFits, LoadFits, WriteFits, FinishFits, UnlockFits,
   ReleaseFits, ReleaseOwnerFits DEF RunIndexer, ProcessClaim

-----------------------------------------------------------------------------
(* The environment. *)

\* A publication joins the line.
LEMMA PublishKeeps ==
    ASSUME Inv, Publish
    PROVE  Inv'
<1>0. /\ TypeOK /\ ListInv /\ InputsInv /\ ProcInv /\ ClaimInv /\ LockInv
  BY DEF Inv
<1> DEFINE n == published + 1
<1>1. /\ published \in Nat /\ published' = n /\ n \in 1..n /\ 1..published \subseteq 1..n
      /\ n \in 0..Len(workload.pubs)
  <2>1. Len(workload.pubs) \in Nat
    BY <1>0, WorkloadAssumption DEF TypeOK
  <2> QED
    BY <1>0, <2>1, ListSets DEF Publish, TypeOK
<1>2. /\ queue' = <<n>> \o queue /\ UNCHANGED <<owner, epoch, processing, dead, done>>
      /\ inputs' = inputs \cup (IF Kind(n) = "corrupt" THEN {} ELSE {n})
      /\ UNCHANGED <<canonical, store, late, workload, proc>>
  BY DEF Publish, Queue!Push, mongoVars
<1>3. /\ queue \in Seq(1..n) /\ processing \in Seq(1..n) /\ dead \in Seq(1..n)
      /\ done \subseteq 1..n /\ inputs \subseteq 1..n
  BY <1>0, <1>1, ListSets, SeqMonotonic
<1>4. queue' \in Seq(1..n)
  BY <1>1, <1>2, <1>3, PrependFacts
<1>5. late \subseteq WriteOp'
  BY <1>0, <1>1 DEF TypeOK, MongoOK, WriteOp
<1>6. TypeOK'
  BY <1>0, <1>1, <1>2, <1>3, <1>4, <1>5 DEF TypeOK, MongoOK
<1>7. ListInv'
  BY <1>0, PublishKeepsLists
<1>8. InputsInv'
  BY <1>0, <1>2 DEF InputsInv, Kind
<1>9. ProcInv'
  BY <1>0, <1>1, <1>2 DEF ProcInv, Kind
<1>10. ClaimInv' /\ LockInv'
  BY <1>0, <1>2 DEF ClaimInv, LockInv, OwnClaims, ClaimUrl, UrlOf, Mine
<1> QED
  BY <1>6, <1>7, <1>8, <1>9, <1>10 DEF Inv

\* The lock expires: nobody is the owner then.
LEMMA ExpiryKeeps ==
    ASSUME Inv, LockExpires
    PROVE  Inv'
<1>1. /\ owner' = 0
      /\ UNCHANGED <<epoch, queue, processing, dead, done, inputs, canonical, store, late,
                     published, workload, proc>>
  BY DEF LockExpires, Queue!LockExpires, Queue!listVars, mongoVars
<1>2. TypeOK'
  BY <1>1 DEF Inv, TypeOK, MongoOK, WriteOp
<1>3. ListInv' /\ InputsInv' /\ ProcInv' /\ LockInv'
  BY <1>1 DEF Inv, ListInv, LineInv, DeadInv, KeptInv, InputsInv, Kind, ProcInv,
              LockInv, ClaimUrl, UrlOf, Mine
<1>4. ClaimInv'
  BY <1>1 DEF ClaimInv, OwnClaims
<1> QED
  BY <1>2, <1>3, <1>4 DEF Inv

\* An operator clears the lock of a process that is gone.
LEMMA OperatorKeeps ==
    ASSUME Inv, NEW u \in Url, OperatorClears(u)
    PROVE  Inv'
<1>1. /\ canonical' = [canonical EXCEPT ![u] = Free] /\ ~Alive(canonical[u].epoch)
      /\ UNCHANGED <<owner, epoch, queue, processing, dead, done, inputs, store, late,
                     published, workload, proc>>
  BY DEF OperatorClears, queueVars, envVars
<1>2. canonical \in [Url -> LockDoc] /\ Free \in LockDoc
  BY DEF Inv, TypeOK, MongoOK, Free, LockDoc
<1>3. TypeOK'
  BY <1>1, <1>2 DEF Inv, TypeOK, MongoOK, WriteOp
<1>4. ListInv' /\ InputsInv' /\ ProcInv' /\ ClaimInv'
  BY <1>1 DEF Inv, ListInv, LineInv, DeadInv, KeptInv, InputsInv, Kind, ProcInv,
              ClaimInv, OwnClaims
<1>5. LockInv'
  <2> SUFFICES ASSUME NEW p \in Proc, proc[p].pc \in {"load", "write", "finish", "unlock"}
               PROVE  canonical'[ClaimUrl(p)] = Mine(p)
    BY <1>1 DEF LockInv, ClaimUrl, UrlOf, Mine
  <2>1. canonical[ClaimUrl(p)] = Mine(p)
    BY DEF Inv, LockInv
  <2>2. Alive(Mine(p).epoch)
    BY DEF Alive, Mine
  <2>3. ClaimUrl(p) # u
    BY <1>1, <2>1, <2>2
  <2>4. ClaimUrl(p) \in Url
    <3>1. proc[p].claim \in 1..published
      BY AboutProcess DEF Busy
    <3> QED
      BY <3>1, PubFields DEF Inv, ClaimUrl
  <2> QED
    BY <1>1, <1>2, <2>1, <2>3, <2>4
<1> QED
  BY <1>3, <1>4, <1>5 DEF Inv

\* A late write lands.
LEMMA LandingKeeps ==
    ASSUME Inv, NEW op \in late, WriteLands(op)
    PROVE  Inv'
<1>1. /\ store' = Apply(store, op) /\ late' = late \ {op}
      /\ UNCHANGED <<owner, epoch, queue, processing, dead, done, inputs, canonical,
                     published, workload, proc>>
  BY DEF WriteLands, queueVars, envVars
<1>2. op \in WriteOp
  BY DEF Inv, TypeOK, MongoOK
<1>3. Apply(store, op) \in StoreType
  BY <1>2, ApplyTypes DEF Inv
<1>4. TypeOK'
  BY <1>1, <1>3 DEF Inv, TypeOK, MongoOK, WriteOp
<1>5. ListInv' /\ InputsInv' /\ ProcInv' /\ ClaimInv' /\ LockInv'
  BY <1>1 DEF Inv, ListInv, LineInv, DeadInv, KeptInv, InputsInv, Kind, ProcInv,
              ClaimInv, OwnClaims, LockInv, ClaimUrl, UrlOf, Mine
<1> QED
  BY <1>4, <1>5 DEF Inv

-----------------------------------------------------------------------------
(* The invariant holds, and what follows from it. *)

\* The indexer starts in the invariant.
LEMMA InvInit == Init => Inv
<1> SUFFICES ASSUME Init
             PROVE  Inv
  OBVIOUS
<1>1. /\ workload \in Workloads /\ owner = 0 /\ epoch = 0 /\ queue = <<>>
      /\ processing = <<>> /\ dead = <<>> /\ done = {} /\ published = 0 /\ inputs = {}
      /\ canonical = [u \in Url |-> Free] /\ proc = [p \in Proc |-> Stopped] /\ late = {}
  BY DEF Init, Queue!QueueInit
<1>2. store \in StoreType
  BY DEF Init, StoreType, Doc, NoDoc
<1>3. Stopped \in ProcRecord /\ Stopped.pc = "down" /\ Stopped.epoch = 0 /\ Free \in LockDoc
  BY DEF Stopped, ProcRecord, PcNames, Places0, Outcomes, Free, LockDoc
<1>4. TypeOK
  <2>1. published \in 0..Len(workload.pubs)
    BY <1>1, WorkloadAssumption
  <2> QED
    BY <1>1, <1>2, <1>3, <2>1 DEF TypeOK, MongoOK
<1>5. ListInv /\ InputsInv
  BY <1>1, WorkloadAssumption DEF ListInv, LineInv, DeadInv, KeptInv, InputsInv
<1>6. ProcInv /\ ClaimInv /\ LockInv
  BY <1>1, <1>3 DEF ProcInv, ClaimInv, OwnClaims, LockInv, Places0, Busy
<1> QED
  BY <1>4, <1>5, <1>6 DEF Inv

\* Every step of a process, of Redis, of MongoDB and of the operator keeps the invariant.
LEMMA InvNext ==
    ASSUME Inv, [Next]_vars
    PROVE  Inv'
<1>1. ASSUME NEW p \in Proc, Start(p) \/ Terminate(p) \/ Crash(p) \/ RunIndexer(p)
      PROVE  Inv'
  <2>1. PICK l, c, t, o : \E e \in Nat : Sound(p, l, e, c, t, o)
    BY <1>1, ProcessFits DEF Fits
  <2>2. PICK e \in Nat : Sound(p, l, e, c, t, o)
    BY <2>1
  <2> QED
    BY <2>2, SoundKeeps
<1>2. CASE UNCHANGED vars
  BY <1>2 DEF vars, queueVars, mongoVars, envVars, Inv, TypeOK, MongoOK, WriteOp, ListInv,
              LineInv, DeadInv, KeptInv, InputsInv, Kind, ProcInv, ClaimInv, OwnClaims,
              LockInv, ClaimUrl, UrlOf, Mine
<1> QED
  BY <1>1, <1>2, PublishKeeps, ExpiryKeeps, OperatorKeeps, LandingKeeps DEF Next

\* The inductive invariant of the page indexer.
THEOREM InvHolds == Spec => []Inv
  BY InvInit, InvNext, PTL DEF Spec

\* What stands where in one list followed by another.
LEMMA JoinFacts ==
    ASSUME NEW S, NEW u \in Seq(S), NEW w \in Seq(S)
    PROVE  /\ u \o w \in Seq(S)
           /\ Len(u \o w) = Len(u) + Len(w)
           /\ \A i \in 1..Len(u) + Len(w) :
                 (u \o w)[i] = IF i <= Len(u) THEN u[i] ELSE w[i - Len(u)]
  BY ConcatProperties

\* The three lists one after the other.
LEMMA ThreeLists ==
    ASSUME TypeOK, ListInv, NEW s, s = queue \o processing \o dead
    PROVE  /\ Len(s) \in Nat
           /\ \A v : Contains(s, v) <=>
                         Contains(queue, v) \/ Contains(processing, v) \/ Contains(dead, v)
           /\ \A i, j \in 1..Len(s) : s[i] = s[j] => i = j
           /\ \A i \in 1..Len(s) : s[i] \in 1..published /\ s[i] \notin done
<1> DEFINE a == Len(queue)
           b == Len(processing)
           d == Len(dead)
<1>1. /\ a \in Nat /\ b \in Nat /\ d \in Nat /\ published \in Nat
      /\ \A i \in 1..a : queue[i] \in 1..published
      /\ \A i \in 1..b : processing[i] \in 1..published
      /\ \A i \in 1..d : dead[i] \in 1..published
      /\ \A v \in done : v \in 1..published
  BY ListNumbers
<1>2. /\ Len(s) = a + b + d
      /\ \A i \in 1..a : s[i] = queue[i]
      /\ \A i \in 1..b : s[a + i] = processing[i]
      /\ \A i \in 1..d : s[a + b + i] = dead[i]
      /\ \A i \in 1..Len(s) : \/ i \in 1..a /\ s[i] = queue[i]
                              \/ i - a \in 1..b /\ s[i] = processing[i - a]
                              \/ i - (a + b) \in 1..d /\ s[i] = dead[i - (a + b)]
  <2> DEFINE S == 1..published
             h == queue \o processing
  <2>1. queue \in Seq(S) /\ processing \in Seq(S) /\ dead \in Seq(S)
    BY ListSets
  <2> HIDE DEF S
  <2>2. /\ h \in Seq(S) /\ Len(h) = a + b
        /\ \A i \in 1..a + b : h[i] = IF i <= a THEN queue[i] ELSE processing[i - a]
    BY <2>1, JoinFacts
  <2>3. s = h \o dead
    OBVIOUS
  <2> HIDE DEF h
  <2>4. /\ Len(s) = Len(h) + d
        /\ \A i \in 1..Len(h) + d : s[i] = IF i <= Len(h) THEN h[i] ELSE dead[i - Len(h)]
    <3>0. h \in Seq(S) /\ dead \in Seq(S)
      BY <2>1, <2>2
    <3>1. /\ Len(h \o dead) = Len(h) + Len(dead)
          /\ \A i \in 1..Len(h) + Len(dead) :
                (h \o dead)[i] = IF i <= Len(h) THEN h[i] ELSE dead[i - Len(h)]
      BY <3>0, JoinFacts
    <3> QED
      BY <2>3, <3>1
  <2> HIDE DEF a, b, d
  <2>5. /\ Len(s) = a + b + d
        /\ \A i \in 1..a + b + d : s[i] = IF i <= a + b THEN h[i] ELSE dead[i - (a + b)]
    BY <2>2, <2>4
  <2>6. \A i \in 1..a + b + d :
           \/ i \in 1..a /\ s[i] = queue[i]
           \/ i - a \in 1..b /\ s[i] = processing[i - a]
           \/ i - (a + b) \in 1..d /\ s[i] = dead[i - (a + b)]
    BY SMTT(30), <1>1, <2>2, <2>5
  <2>7. /\ \A i \in 1..a : s[i] = queue[i]
        /\ \A i \in 1..b : s[a + i] = processing[i]
        /\ \A i \in 1..d : s[a + b + i] = dead[i]
    BY SMTT(60), <1>1, <2>2, <2>5
  <2> QED
    BY <2>5, <2>6, <2>7
<1>3. \A v : Contains(s, v) <=>
                Contains(queue, v) \/ Contains(processing, v) \/ Contains(dead, v)
  <2> DEFINE n == Len(s)
  <2>1. \A v : /\ Contains(s, v) <=> \E i \in 1..n : s[i] = v
               /\ Contains(queue, v) <=> \E i \in 1..a : queue[i] = v
               /\ Contains(processing, v) <=> \E i \in 1..b : processing[i] = v
               /\ Contains(dead, v) <=> \E i \in 1..d : dead[i] = v
    BY DEF Contains
  <2>2. n = a + b + d
    BY <1>2
  <2> HIDE DEF a, b, d, n
  <2>3. \A i \in 1..a : i \in 1..n /\ s[i] = queue[i]
    BY <1>1, <1>2, <2>2
  <2>4. \A i \in 1..b : a + i \in 1..n /\ s[a + i] = processing[i]
    BY <1>1, <1>2, <2>2
  <2>5. \A i \in 1..d : a + b + i \in 1..n /\ s[a + b + i] = dead[i]
    BY <1>1, <1>2, <2>2
  <2>6. ASSUME NEW i \in 1..n
        PROVE  Contains(queue, s[i]) \/ Contains(processing, s[i]) \/ Contains(dead, s[i])
    <3>1. \/ i \in 1..a /\ s[i] = queue[i]
          \/ i - a \in 1..b /\ s[i] = processing[i - a]
          \/ i - (a + b) \in 1..d /\ s[i] = dead[i - (a + b)]
      BY <1>2 DEF n
    <3>2. CASE i \in 1..a /\ s[i] = queue[i]
      BY <2>1, <3>2
    <3>3. CASE i - a \in 1..b /\ s[i] = processing[i - a]
      BY <2>1, <3>3
    <3>4. CASE i - (a + b) \in 1..d /\ s[i] = dead[i - (a + b)]
      BY <2>1, <3>4
    <3> QED
      BY <3>1, <3>2, <3>3, <3>4
  <2> QED
    BY ZenonT(60), <2>1, <2>3, <2>4, <2>5, <2>6
<1>4. /\ b <= 1
      /\ \A i, j \in 1..a : i < j => queue[i] > queue[j]
      /\ \A i \in 1..a : \A j \in 1..b : queue[i] > processing[j]
      /\ \A i \in 1..a : \A j \in 1..d : queue[i] > dead[j]
      /\ \A i \in 1..b : \A j \in 1..d : processing[i] > dead[j]
      /\ \A i, j \in 1..d : i < j => dead[i] > dead[j]
      /\ \A i \in 1..a : \A v \in done : queue[i] > v
      /\ \A i \in 1..b : \A v \in done : processing[i] > v
      /\ \A i \in 1..d : dead[i] \notin done
  BY <1>1 DEF ListInv, LineInv, DeadInv
<1>5. \A i \in 1..Len(s) : s[i] \in 1..published /\ s[i] \notin done
  BY <1>1, <1>2, <1>4
<1>6. ASSUME NEW i \in 1..Len(s), NEW j \in 1..Len(s), s[i] = s[j]
      PROVE  i = j
  <2> HIDE DEF a, b, d
  <2>0. i \in Int /\ j \in Int
    BY <1>1, <1>2
  <2>1. ASSUME NEW k \in 1..Len(s), NEW l \in 1..Len(s), k < l
        PROVE  s[k] > s[l]
    <3>0. /\ k \in Int /\ l \in Int /\ k >= 1 /\ l >= 1
          /\ k <= a + b + d /\ l <= a + b + d
      BY <1>1, <1>2
    <3>1. CASE l <= a
      <4>1. k \in 1..a /\ l \in 1..a
        BY <1>1, <2>1, <3>0, <3>1
      <4> QED
        BY <1>2, <1>4, <2>1, <4>1
    <3>2. CASE l > a /\ l <= a + b
      <4>1. l - a \in 1..b /\ l = a + (l - a)
        BY <1>1, <3>0, <3>2
      <4>2. s[l] = processing[l - a]
        BY <1>2, <4>1
      <4>3. k \in 1..a
        BY <1>1, <1>4, <2>1, <3>0, <3>2
      <4> QED
        BY <1>2, <1>4, <4>1, <4>2, <4>3
    <3>3. CASE l > a + b
      <4>1. l - (a + b) \in 1..d /\ l = a + b + (l - (a + b))
        BY <1>1, <3>0, <3>3
      <4>2. s[l] = dead[l - (a + b)]
        BY <1>2, <4>1
      <4>3. CASE k <= a
        <5>1. k \in 1..a
          BY <1>1, <3>0, <4>3
        <5> QED
          BY <1>2, <1>4, <4>1, <4>2, <5>1
      <4>4. CASE k > a /\ k <= a + b
        <5>1. k - a \in 1..b /\ k = a + (k - a)
          BY <1>1, <3>0, <4>4
        <5>2. s[k] = processing[k - a]
          BY <1>2, <5>1
        <5> QED
          BY <1>4, <4>1, <4>2, <5>1, <5>2
      <4>5. CASE k > a + b
        <5>1. k - (a + b) \in 1..d /\ k = a + b + (k - (a + b))
          BY <1>1, <3>0, <4>5
        <5>2. s[k] = dead[k - (a + b)]
          BY <1>2, <5>1
        <5>3. k - (a + b) < l - (a + b)
          BY <1>1, <2>1, <3>0
        <5> QED
          BY <1>4, <4>1, <4>2, <5>1, <5>2, <5>3
      <4> QED
        BY <1>1, <3>0, <4>3, <4>4, <4>5
    <3> QED
      BY <1>1, <3>0, <3>1, <3>2, <3>3
  <2>2. s[i] \in Int /\ s[j] \in Int
    BY <1>1, <1>5
  <2>3. ~(i < j) /\ ~(j < i)
    BY <1>6, <2>1, <2>2
  <2> QED
    BY <2>0, <2>3
<1>7. Len(s) \in Nat
  BY <1>1, <1>2
<1> QED
  BY <1>3, <1>5, <1>6, <1>7

\* The invariant says that the queue is sound.
LEMMA InvQueueSound ==
    ASSUME Inv
    PROVE  QueueSound
<1> DEFINE s == queue \o processing \o dead
           at(v) == {i \in 1..Len(s) : s[i] = v}
<1>0. TypeOK /\ ListInv
  BY DEF Inv
<1>1. /\ Len(s) \in Nat
      /\ \A v : Contains(s, v) <=>
                    Contains(queue, v) \/ Contains(processing, v) \/ Contains(dead, v)
      /\ \A i, j \in 1..Len(s) : s[i] = s[j] => i = j
      /\ \A i \in 1..Len(s) : s[i] \in 1..published /\ s[i] \notin done
  BY <1>0, ThreeLists
<1>2. EveryPublicationAccounted
  <2> SUFFICES ASSUME NEW v \in 1..published
               PROVE  \/ Places(v) = 1
                      \/ /\ Places(v) = 0 /\ Kind(v) \in {"corrupt", "invalid"}
                         /\ Len(dead) = DeadMax
    BY DEF EveryPublicationAccounted
  <2>1. Places(v) = Cardinality(at(v)) + (IF v \in done THEN 1 ELSE 0)
    BY DEF Places
  <2>2. \/ Contains(queue, v) \/ Contains(processing, v) \/ Contains(dead, v)
        \/ v \in done
        \/ Kind(v) \in Bad /\ Len(dead) = DeadMax
    BY DEF Inv, ListInv, KeptInv
  <2>3. Contains(s, v) <=> at(v) # {}
    BY DEF Contains
  <2> HIDE DEF s
  <2>4. CASE at(v) = {}
    <3>1. Cardinality(at(v)) = 0
      BY <2>4, FS_EmptySet
    <3>2. v \in done \/ (Kind(v) \in Bad /\ Len(dead) = DeadMax)
      BY <1>1, <2>2, <2>3, <2>4
    <3> HIDE DEF at
    <3> QED
      BY <2>1, <3>1, <3>2 DEF Bad
  <2>5. CASE at(v) # {}
    <3>1. PICK i \in 1..Len(s) : s[i] = v
      BY <2>5
    <3>2. at(v) = {i}
      BY <1>1, <3>1
    <3>3. v \notin done
      BY <1>1, <3>1
    <3>4. Cardinality({i}) = 1
      BY FS_Singleton
    <3> HIDE DEF at
    <3> QED
      BY <2>1, <3>2, <3>3, <3>4
  <2> QED
    BY <2>4, <2>5
<1>3. WaitingInputsKept
  <2> SUFFICES ASSUME NEW v \in 1..published, Contains(queue \o processing, v),
                      Kind(v) # "corrupt"
               PROVE  v \in inputs
    BY DEF WaitingInputsKept
  <2> DEFINE h == queue \o processing
             n == Len(queue)
  <2>1. queue \in Seq(1..published) /\ processing \in Seq(1..published)
    BY <1>0, ListSets
  <2>2. /\ Len(h) = n + Len(processing)
        /\ \A i \in 1..n + Len(processing) :
              h[i] = IF i <= n THEN queue[i] ELSE processing[i - n]
    BY <2>1, ConcatProperties
  <2>3. PICK i \in 1..Len(h) : h[i] = v
    BY DEF Contains
  <2>4. n \in Nat /\ Len(processing) \in Nat
    BY <1>0, ListNumbers
  <2> DEFINE m == Len(processing)
  <2>5. /\ \A k \in 1..n : Kind(queue[k]) # "corrupt" => queue[k] \in inputs
        /\ \A k \in 1..m : Kind(processing[k]) # "corrupt" => processing[k] \in inputs
    BY <1>0 DEF ListInv, KeptInv
  <2> HIDE DEF n, m, h
  <2>6. \/ i \in 1..n /\ queue[i] = v
        \/ i - n \in 1..m /\ processing[i - n] = v
    BY <2>2, <2>3, <2>4 DEF m
  <2> QED
    BY <2>5, <2>6
<1>4. OneOpenClaim
  BY <1>0 DEF OneOpenClaim, ListInv, LineInv
<1>5. OneWriterPerUrl
  <2> SUFFICES ASSUME NEW p \in Proc, NEW q \in Proc, p # q,
                      proc[p].pc \in {"load", "write", "finish"},
                      proc[q].pc \in {"load", "write", "finish"},
                      ClaimUrl(p) = ClaimUrl(q)
               PROVE  FALSE
    BY DEF OneWriterPerUrl
  <2>1. Mine(p) = Mine(q)
    BY DEF Inv, LockInv
  <2>2. proc[p].epoch = proc[q].epoch
    BY <2>1 DEF Mine
  <2>3. proc[p].epoch # 0
    BY DEF Inv, ProcInv, Places0
  <2> QED
    BY <2>2, <2>3 DEF Inv, ProcInv
<1> QED
  BY <1>2, <1>3, <1>4, <1>5 DEF QueueSound

\* However processes overlap, crash and lose their lock: every publication is
\* in one place, the inputs of the waiting ones exist, at most one claim is
\* open and no two processes write the state of one URL.
THEOREM QueueStaysSound == Spec => []QueueSound
  BY InvHolds, InvQueueSound, PTL

-----------------------------------------------------------------------------
(* The queue of the page indexer implements OwnedQueue. *)

\* A step of a process is a step of its queue, or none.
LEMMA EffectIsQueueStep ==
    ASSUME Inv, NEW p \in Proc, QueueEffect(p)
    PROVE  [Queue!QueueNext]_(Queue!queueVars)
<1> DEFINE e == proc[p].epoch
           v == proc[p].claim
<1>1. Queue!Holds(e) => e \in 1..epoch
  <2>1. e \in Nat /\ epoch \in Nat
    BY AboutProcess
  <2> QED
    BY <2>1 DEF Queue!Holds
<1>2. Contains(processing, v) => v \in Pub
  <2> SUFFICES ASSUME Contains(processing, v)
               PROVE  v \in Pub
    OBVIOUS
  <2>1. v \in 1..published
    BY OutOfLine DEF Inv
  <2>2. published \in 0..NPub /\ NPub \in Nat
    BY PubFields, WorkloadAssumption DEF Inv
  <2> QED
    BY <2>1, <2>2 DEF Pub
<1>3. CASE Unmoved
  BY <1>3 DEF Unmoved, queueVars, Queue!queueVars
<1>4. CASE Queue!AcquireLock
  BY <1>4 DEF Queue!QueueNext
<1>5. CASE Queue!DropLock(e) \/ Queue!ClaimScript(e) \/ Queue!RecoverScript(e)
  <2>1. e \in 1..epoch
    BY <1>1, <1>5 DEF Queue!DropLock, Queue!ClaimScript, Queue!RecoverScript
  <2> QED
    BY <1>5, <2>1 DEF Queue!QueueNext
<1>6. CASE Queue!ReleaseScript(e, v) \/ Queue!QuarantineScript(e, v) \/ Queue!FinishScript(e, v)
  <2>1. Queue!Holds(e) /\ Contains(processing, v)
    BY <1>6, SameOperators
       DEF Queue!ReleaseScript, Queue!QuarantineScript, Queue!FinishScript
  <2>2. e \in 1..epoch /\ v \in Pub
    BY <1>1, <1>2, <2>1
  <2> QED
    BY <1>6, <2>2 DEF Queue!QueueNext
<1> QED
  BY <1>3, <1>4, <1>5, <1>6 DEF QueueEffect, HandOn

\* Every step of the page queue is a step of the owned queue or leaves it as it was.
LEMMA QueueRefines ==
    ASSUME Inv, [Next]_vars
    PROVE  [Queue!QueueNext]_(Queue!queueVars)
<1>1. ASSUME NEW p \in Proc, Start(p) \/ Terminate(p) \/ Crash(p) \/ RunIndexer(p)
      PROVE  [Queue!QueueNext]_(Queue!queueVars)
  <2>1. QueueEffect(p)
    BY ZenonT(60), <1>1, ProcessFits DEF Fits, Sound
  <2> QED
    BY <2>1, EffectIsQueueStep
<1>2. CASE Publish
  <2> DEFINE n == published + 1
             s == queue \o processing \o dead
  <2>1. Queue!Push(n)
    BY <1>2 DEF Publish
  <2>2. published \in Nat /\ n \in Pub
    <3>1. Len(workload.pubs) <= NPub /\ NPub \in Nat /\ Len(workload.pubs) \in Nat
          /\ published < Len(workload.pubs) /\ published \in Nat
      BY <1>2, WorkloadAssumption, ListSets DEF Inv, TypeOK, Publish
    <3> QED
      BY <3>1 DEF Pub
  <2>3. n \notin done /\ ~Contains(s, n)
    <3>1. \A i \in 1..Len(s) : s[i] \in 1..published
      BY ThreeLists DEF Inv
    <3>2. n \notin 1..published
      BY <2>2
    <3> HIDE DEF s, n
    <3>3. ~Contains(s, n)
      BY <3>1, <3>2 DEF Contains
    <3>4. n \notin done
      BY <3>2, ListSets DEF Inv
    <3> QED
      BY <3>3, <3>4
  <2>4. Queue!Fresh(n)
    BY <2>3, SameOperators DEF Queue!Fresh
  <2> QED
    BY <2>1, <2>2, <2>4 DEF Queue!QueueNext
<1>3. CASE LockExpires
  BY <1>3 DEF LockExpires, Queue!QueueNext
<1>4. ASSUME UNCHANGED queueVars
      PROVE  [Queue!QueueNext]_(Queue!queueVars)
  BY <1>4 DEF queueVars, Queue!queueVars
<1>5. ASSUME NEW u \in Url, OperatorClears(u)
      PROVE  UNCHANGED queueVars
  BY <1>5 DEF OperatorClears
<1>6. ASSUME NEW op \in late, WriteLands(op)
      PROVE  UNCHANGED queueVars
  BY <1>6 DEF WriteLands
<1>7. CASE UNCHANGED vars
  BY <1>4, <1>7 DEF vars
<1> QED
  BY <1>1, <1>2, <1>3, <1>4, <1>5, <1>6, <1>7 DEF Next

\* The queue that the processes drive through their scripts is the owner-
\* fenced queue: only the holder of the lock moves values, no value is
\* published twice, and each leaves the claims the way OwnedQueue says.
THEOREM PageQueueImplementsOwnedQueue == Spec => ImplementsOwnedQueue
<1>1. Init => Queue!QueueInit
  BY DEF Init
<1> QED
  BY <1>1, InvHolds, QueueRefines, PTL DEF Spec, ImplementsOwnedQueue, Queue!QueueSpec

-----------------------------------------------------------------------------
(***************************************************************************)
(* Proofs about the searchable state that the page indexer keeps.          *)
(*                                                                         *)
(* A document and a write that is still to be made carry a stamp: the      *)
(* publication they are of and the epoch they are fenced with.  The fence  *)
(* compares epochs only, and the state is about publications: what makes   *)
(* the fence enough is that publications are claimed in their order, so    *)
(* that the order of the epochs is the order of the publications.          *)
(***************************************************************************)
AtWork   == {"claimed", "load", "write"}
Handling == {"load", "write", "finish"}

Waits(x) == Contains(queue, x) \/ Contains(processing, x)

\* The stamps of the documents, and of the writes that may still be made: by
\* a process at work, or by the server on behalf of a caller that gave up.
Docs ==
    {store.meta[u] : u \in Url} \cup {store.links[u] : u \in Url}
        \cup {store.artifact[u] : u \in Url}
        \cup {store.words[u][w] : u \in Url, w \in Word}
Stamp(v, e) == [pub |-> v, epoch |-> e]
Working == {Stamp(proc[p].claim, proc[p].epoch) : p \in {q \in Proc : proc[q].pc \in AtWork}}
Pending == Working \cup {Stamp(op.pub, op.epoch) : op \in late}
Stamps  == Docs \cup Pending

\* A later epoch never works on an older publication.
Follows(d, o) == d.epoch <= o.epoch => d.pub <= o.pub

\* A process that makes no write any more in its epoch.
Quiet(pc, outcome) ==
    \/ pc \in {"down", "acquire", "release", "exit"}
    \/ pc = "unlock" /\ outcome = "failed"

\* Stamps are of epochs that were given and of publications that are not newer
\* than anything that waits.
StampInv ==
    /\ \A d \in Stamps : d \in Doc /\ d.epoch <= epoch /\ d.pub <= published
    /\ \A d \in Stamps : \A x \in 1..published : Waits(x) => d.pub <= x
    /\ \A d \in Stamps : \A o \in Pending : Follows(d, o)
    /\ \A op \in late : \A p \in Proc :
          op.epoch = proc[p].epoch => Quiet(proc[p].pc, proc[p].outcome)

\* From the lock to the hand-on, the claim is newer than everything of its URL
\* that was handed on before.
NewerInv ==
    \A p \in Proc : proc[p].pc \in Handling =>
        \A x \in done : UrlOf(x) = ClaimUrl(p) => x < proc[p].claim

\* Only publications that can be indexed or skipped are written.
KindInv ==
    \A p \in Proc : proc[p].pc \in {"write", "finish"} =>
        Kind(proc[p].claim) \in Readable

PromptInv == workload.late \/ late = {}

\* What a call leaves in the searchable state of the publication's URL.
Made(s, k, v) ==
    LET u == UrlOf(v) IN
    /\ k = "artifact" => s.artifact[u].pub = v
    /\ k = "stale" => \A w \in Word \ WordsOf(v) : s.words[u][w].pub = 0
    /\ k = "words" => \A w \in WordsOf(v) : s.words[u][w].pub = v
    /\ k = "metadata" => s.meta[u].pub = v
    /\ k = "outlinks" => s.links[u].pub = v
    /\ k = "no words" => \A w \in Word : s.words[u][w].pub = 0
    /\ k = "no metadata" => s.meta[u].pub = 0
    /\ k = "no outlinks" => s.links[u].pub = 0

\* Of a publication being written, every call is still to be made or has left
\* its trace; none is left when the publication is handed on.
MadeInv ==
    workload.late \/
    \A p \in Proc : proc[p].pc \in {"write", "finish"} =>
        /\ proc[p].pc = "finish" => proc[p].todo = <<>>
        /\ \A k \in CallNames :
              Contains(proc[p].todo, k) => Contains(Calls(proc[p].claim), k)
        /\ \A k \in CallNames : Contains(Calls(proc[p].claim), k) =>
              Contains(proc[p].todo, k) \/ Made(store, k, proc[p].claim)

\* A URL shows the last publication handed on, or one that can be indexed or
\* skipped still waits.
Awaited(u) == \E x \in 1..published : Waits(x) /\ UrlOf(x) = u /\ Kind(x) \notin Bad
WholeInv ==
    workload.late \/ \A u \in Url : \A v \in LastDone(u) : IsState(u, v) \/ Awaited(u)

StateInv == Inv /\ StampInv /\ NewerInv /\ KindInv /\ PromptInv /\ MadeInv /\ WholeInv

-----------------------------------------------------------------------------
(* What one step of a process does, seen from its own program. *)

Call(p) == [call |-> Head(proc[p].todo), pub |-> proc[p].claim, epoch |-> proc[p].epoch]

Same(p) == proc'[p].epoch = proc[p].epoch /\ proc'[p].claim = proc[p].claim

\* Where it goes: away from its work, or one place further in it.
Goes(p) ==
    \/ proc'[p].pc \notin AtWork \cup {"finish"}
    \/ /\ Same(p) /\ proc'[p].pc = proc[p].pc /\ proc'[p].todo = proc[p].todo
       /\ store' = store
    \/ /\ proc[p].pc = "claim" /\ proc'[p].pc = "claimed"
       /\ proc'[p].epoch = proc[p].epoch /\ proc'[p].claim = Last(queue)
       /\ Queue!ClaimScript(proc[p].epoch)
    \/ Same(p) /\ proc[p].pc = "claimed" /\ proc'[p].pc = "load" /\ Owner(p)
    \/ /\ Same(p) /\ proc[p].pc = "load" /\ proc'[p].pc = "write"
       /\ proc'[p].todo = Calls(proc[p].claim) /\ proc[p].claim \in inputs
    \/ /\ Same(p) /\ proc[p].pc = "write" /\ proc'[p].pc \in {"write", "finish"}
       /\ proc'[p].todo = Tail(proc[p].todo)
       /\ proc'[p].pc = "finish" => proc'[p].todo = <<>>
       /\ store' = Apply(store, Call(p)) /\ ~Conflicts(store, Call(p)) /\ OwnerCheck(p)

\* What it writes: a call of its plan, or one that is left to the server.
Writes(p) ==
    \/ store' = store /\ late' = late
    \/ proc[p].pc = "write" /\ store' \in {store, Apply(store, Call(p))} /\ late' = late
    \/ /\ proc[p].pc = "write" /\ store' = store /\ late' = late \cup {Call(p)}
       /\ workload.late
       /\ proc'[p].pc = "unlock" /\ proc'[p].outcome = "failed" /\ Same(p)

\* What it hands on.
Settles(p) ==
    \/ done' = done
    \/ /\ proc[p].pc = "finish" /\ done' = done \cup {proc[p].claim}
       /\ proc'[p].pc = "unlock"

\* Once it rests, it rests until it has a new epoch.
Rests(p) ==
    Quiet(proc[p].pc, proc[p].outcome) =>
        \/ Quiet(proc'[p].pc, proc'[p].outcome) /\ proc'[p].epoch \in {0, proc[p].epoch}
        \/ proc'[p].epoch = epoch + 1
Keeps(p) ==
    \/ proc'[p].epoch = proc[p].epoch
    \/ proc'[p].epoch = epoch + 1
    \/ Quiet(proc'[p].pc, proc'[p].outcome)

Path(p) ==
    /\ Goes(p) /\ Writes(p) /\ Settles(p) /\ Rests(p) /\ Keeps(p)
    /\ QueueEffect(p) /\ UNCHANGED <<published, workload>>
    /\ \A q \in Proc \ {p} : proc'[q] = proc[q]

\* The fields of a record after the updates that the program makes.
LEMMA Alterations ==
    ASSUME NEW r \in ProcRecord, NEW l, NEW x, NEW y, NEW z
    PROVE  /\ [r EXCEPT !.running = x].pc = r.pc
           /\ [r EXCEPT !.running = x].epoch = r.epoch
           /\ [r EXCEPT !.running = x].claim = r.claim
           /\ [r EXCEPT !.running = x].todo = r.todo
           /\ [r EXCEPT !.running = x].outcome = r.outcome
           /\ [r EXCEPT !.pc = l, !.epoch = x].pc = l
           /\ [r EXCEPT !.pc = l, !.epoch = x].epoch = x
           /\ [r EXCEPT !.pc = l, !.sent = x].pc = l
           /\ [r EXCEPT !.pc = l, !.sent = x].epoch = r.epoch
           /\ [r EXCEPT !.pc = l, !.claim = x].pc = l
           /\ [r EXCEPT !.pc = l, !.claim = x].epoch = r.epoch
           /\ [r EXCEPT !.pc = l, !.claim = x, !.sent = y].pc = l
           /\ [r EXCEPT !.pc = l, !.claim = x, !.sent = y].epoch = r.epoch
           /\ [r EXCEPT !.pc = l, !.claim = x, !.sent = y].claim = x
           /\ [r EXCEPT !.pc = l, !.todo = x].pc = l
           /\ [r EXCEPT !.pc = l, !.todo = x].epoch = r.epoch
           /\ [r EXCEPT !.pc = l, !.todo = x].claim = r.claim
           /\ [r EXCEPT !.pc = l, !.todo = x].todo = x
           /\ [r EXCEPT !.pc = l, !.claim = x, !.outcome = y].pc = l
           /\ [r EXCEPT !.pc = l, !.claim = x, !.outcome = y].epoch = r.epoch
BY DEF ProcRecord

\* The common part of the steps: the queue, and the other processes.
LEMMA StepFrame ==
    ASSUME Inv, NEW p \in Proc, Start(p) \/ Terminate(p) \/ Crash(p) \/ RunIndexer(p)
    PROVE  /\ QueueEffect(p) /\ UNCHANGED <<published, workload>>
           /\ \A q \in Proc \ {p} : proc'[q] = proc[q]
<1>1. PICK l, c, t, o : \E e \in Nat : Sound(p, l, e, c, t, o)
  BY ProcessFits DEF Fits
<1> QED
  BY <1>1 DEF Sound, Moves

\* The places that the program tells apart.
LEMMA PlaceNames ==
    /\ \A l \in {"down", "acquire", "recover", "loop", "signal", "claim", "unlock",
                 "release", "exit"} : l \in PcNames /\ l \notin AtWork \cup {"finish"}
    /\ \A l \in AtWork \cup {"finish"} : l \in PcNames /\ \A o : ~Quiet(l, o)
    /\ \A l \in {"recover", "loop", "signal", "claim"}, o \in Outcomes : ~Quiet(l, o)
    /\ \A o : Quiet("down", o) /\ Quiet("acquire", o) /\ Quiet("release", o) /\ Quiet("exit", o)
BY DEF PcNames, Places0, Busy, AtWork, Quiet, Outcomes

\* Steps that leave the work, or were not at it, and write nothing.
LEMMA AwayPath ==
    ASSUME Inv, NEW p \in Proc, QueueEffect(p), UNCHANGED <<published, workload>>,
           \A q \in Proc \ {p} : proc'[q] = proc[q],
           proc'[p].pc \notin AtWork \cup {"finish"}, store' = store, late' = late,
           done' = done, Rests(p), Keeps(p)
    PROVE  Path(p)
BY DEF Path, Goes, Writes, Settles

\* The end of a process.
LEMMA StoppedPath ==
    ASSUME Inv, NEW p \in Proc, QueueEffect(p), UNCHANGED <<published, workload>>,
           \A q \in Proc \ {p} : proc'[q] = proc[q],
           proc' = [proc EXCEPT ![p] = Stopped], store' = store, late' = late, done' = done
    PROVE  Path(p)
<1>1. proc'[p].pc = "down" /\ proc'[p].epoch = 0
  BY StoppedMoves DEF Moves, Inv
<1>2. Rests(p) /\ Keeps(p) /\ proc'[p].pc \notin AtWork \cup {"finish"}
  BY <1>1, PlaceNames DEF Rests, Keeps
<1> QED
  BY <1>2, AwayPath

\* A jump out of the work.
LEMMA JumpPath ==
    ASSUME Inv, NEW p \in Proc, QueueEffect(p), UNCHANGED <<published, workload>>,
           \A q \in Proc \ {p} : proc'[q] = proc[q],
           NEW l \in {"acquire", "recover", "loop", "signal", "claim", "release", "exit"},
           Goto(p, l), store' = store, late' = late, done' = done,
           Quiet(proc[p].pc, proc[p].outcome) => l \in {"acquire", "release", "exit"}
    PROVE  Path(p)
<1>1. l \in PcNames /\ l \notin AtWork \cup {"finish"}
  BY PlaceNames
<1>2. proc'[p].pc = l /\ proc'[p].epoch = proc[p].epoch
  BY <1>1, GotoMoves DEF Moves, Inv
<1>3. Rests(p) /\ Keeps(p)
  BY <1>2, PlaceNames DEF Rests, Keeps
<1> QED
  BY <1>1, <1>2, <1>3, AwayPath

\* The supervisor.
LEMMA SupervisorPath ==
    ASSUME Inv, NEW p \in Proc, Start(p) \/ Terminate(p) \/ Crash(p)
    PROVE  Path(p)
<1>1. /\ QueueEffect(p) /\ UNCHANGED <<published, workload>>
      /\ \A q \in Proc \ {p} : proc'[q] = proc[q]
      /\ store' = store /\ late' = late /\ done' = done
  BY StepFrame DEF Start, Terminate, Crash, queueVars, mongoVars
<1>2. CASE Start(p)
  <2>1. Goto(p, "acquire")
    BY <1>2 DEF Start
  <2> QED
    BY <1>1, <2>1, JumpPath
<1>3. CASE Terminate(p)
  <2> DEFINE r == proc[p]
  <2>1. r \in ProcRecord /\ proc'[p] = [r EXCEPT !.running = FALSE]
    BY <1>3, Fields DEF Terminate, Inv, TypeOK
  <2> HIDE DEF r
  <2>2. /\ proc'[p].pc = r.pc /\ proc'[p].epoch = r.epoch /\ proc'[p].claim = r.claim
        /\ proc'[p].todo = r.todo /\ proc'[p].outcome = r.outcome
    BY <2>1, Alterations
  <2> QED
    BY <1>1, <2>2 DEF Path, Goes, Writes, Settles, Rests, Keeps, Same, r
<1>4. CASE Crash(p)
  BY <1>1, <1>4, StoppedPath DEF Crash
<1> QED
  BY <1>2, <1>3, <1>4

\* The acquisition of the owner lock.
LEMMA AcquirePath ==
    ASSUME Inv, NEW p \in Proc, AcquireOwner(p)
    PROVE  Path(p)
<1>1. /\ QueueEffect(p) /\ UNCHANGED <<published, workload>>
      /\ \A q \in Proc \ {p} : proc'[q] = proc[q]
      /\ store' = store /\ late' = late /\ done' = done
  BY StepFrame DEF RunIndexer, AcquireOwner, Unmoved, NoMongo, queueVars, mongoVars,
                   Queue!AcquireLock
<1>2. CASE proc' = [proc EXCEPT ![p].pc = "recover", ![p].epoch = epoch + 1]
  <2> DEFINE r == proc[p]
  <2>1. r \in ProcRecord /\ proc'[p] = [r EXCEPT !.pc = "recover", !.epoch = epoch + 1]
    BY <1>2, Fields DEF Inv, TypeOK
  <2> HIDE DEF r
  <2>2. proc'[p].pc = "recover" /\ proc'[p].epoch = epoch + 1
    BY <2>1, Alterations
  <2>3. Rests(p) /\ Keeps(p) /\ proc'[p].pc \notin AtWork \cup {"finish"}
    BY <2>2, PlaceNames DEF Rests, Keeps
  <2> QED
    BY <1>1, <2>3, AwayPath
<1>3. CASE proc' = [proc EXCEPT ![p] = Stopped]
  BY <1>1, <1>3, StoppedPath
<1> QED
  BY <1>2, <1>3 DEF AcquireOwner

\* The loop, up to the claim.
LEMMA LoopPath ==
    ASSUME Inv, NEW p \in Proc, RecoverClaims(p) \/ Inspect(p) \/ SignalCrawler(p)
    PROVE  Path(p)
<1> DEFINE r == proc[p]
<1>1. /\ QueueEffect(p) /\ UNCHANGED <<published, workload>>
      /\ \A q \in Proc \ {p} : proc'[q] = proc[q]
      /\ store' = store /\ late' = late /\ done' = done
      /\ r.pc \in {"recover", "loop", "signal"} /\ r \in ProcRecord /\ r.outcome \in Outcomes
  BY StepFrame, Fields
     DEF RunIndexer, RecoverClaims, Inspect, SignalCrawler, Unmoved, NoMongo, queueVars,
         mongoVars, Queue!RecoverScript, Inv
<1>2. ~Quiet(r.pc, r.outcome)
  BY <1>1, PlaceNames
<1>3. CASE \E l \in {"recover", "loop", "signal", "exit"} : Goto(p, l)
  BY <1>1, <1>2, <1>3, JumpPath
<1>4. CASE \E x : proc' = [proc EXCEPT ![p].pc = "claim", ![p].sent = x]
  <2>1. PICK x : proc' = [proc EXCEPT ![p].pc = "claim", ![p].sent = x]
    BY <1>4
  <2>2. proc'[p] = [r EXCEPT !.pc = "claim", !.sent = x]
    BY <2>1 DEF Inv, TypeOK
  <2> HIDE DEF r
  <2>3. proc'[p].pc = "claim" /\ proc'[p].epoch = r.epoch
    BY <1>1, <2>2, Alterations
  <2>4. Rests(p) /\ Keeps(p) /\ proc'[p].pc \notin AtWork \cup {"finish"}
    BY <1>2, <2>3, PlaceNames DEF Rests, Keeps, r
  <2> QED
    BY <1>1, <2>4, AwayPath
<1>5. RecoverClaims(p) => \E l \in {"recover", "loop", "signal", "exit"} : Goto(p, l)
  BY DEF RecoverClaims, Quit
<1>6. Inspect(p) => \/ \E l \in {"recover", "loop", "signal", "exit"} : Goto(p, l)
                    \/ \E x : proc' = [proc EXCEPT ![p].pc = "claim", ![p].sent = x]
  BY DEF Inspect, Quit
<1>7. SignalCrawler(p) => \/ \E l \in {"recover", "loop", "signal", "exit"} : Goto(p, l)
                          \/ \E x : proc' = [proc EXCEPT ![p].pc = "claim", ![p].sent = x]
  BY DEF SignalCrawler, Quit
<1> QED
  BY <1>3, <1>4, <1>5, <1>6, <1>7

\* The claim.
LEMMA ClaimPath ==
    ASSUME Inv, NEW p \in Proc, ClaimPage(p)
    PROVE  Path(p)
<1> DEFINE r == proc[p]
<1>1. /\ QueueEffect(p) /\ UNCHANGED <<published, workload>>
      /\ \A q \in Proc \ {p} : proc'[q] = proc[q]
      /\ store' = store /\ late' = late /\ done' = done
      /\ r.pc = "claim" /\ r \in ProcRecord /\ r.outcome \in Outcomes
  BY StepFrame, Fields
     DEF RunIndexer, ClaimPage, Unmoved, NoMongo, queueVars, mongoVars,
         Queue!ClaimScript, Inv
<1>2. ~Quiet(r.pc, r.outcome)
  BY <1>1, PlaceNames
<1>3. CASE \E l \in {"loop", "exit"} : Goto(p, l)
  BY <1>1, <1>2, <1>3, JumpPath
<1>4. CASE /\ Queue!ClaimScript(r.epoch)
           /\ proc' = [proc EXCEPT ![p].pc = "claimed", ![p].claim = Last(queue),
                                   ![p].sent = FALSE]
  <2>1. proc'[p] = [r EXCEPT !.pc = "claimed", !.claim = Last(queue), !.sent = FALSE]
    BY <1>4 DEF Inv, TypeOK
  <2> HIDE DEF r
  <2>2. proc'[p].pc = "claimed" /\ proc'[p].epoch = r.epoch /\ proc'[p].claim = Last(queue)
    BY <1>1, <2>1, Alterations
  <2>3. Goes(p) /\ Writes(p) /\ Settles(p) /\ Rests(p) /\ Keeps(p)
    BY <1>1, <1>2, <1>4, <2>2 DEF Goes, Writes, Settles, Rests, Keeps, r
  <2> QED
    BY <1>1, <2>3 DEF Path
<1> QED
  BY <1>3, <1>4 DEF ClaimPage, Quit

\* A claim left during shutdown, given back, or of a value that is no key; the
\* end of the process.
LEMMA LeavePath ==
    ASSUME Inv, NEW p \in Proc,
           LeaveClaim(p) \/ QuarantineInvalid(p) \/ ReleasePage(p) \/ ReleaseOwner(p)
    PROVE  Path(p)
<1> DEFINE r == proc[p]
<1>1. /\ QueueEffect(p) /\ UNCHANGED <<published, workload>>
      /\ \A q \in Proc \ {p} : proc'[q] = proc[q]
      /\ store' = store /\ late' = late /\ done' = done
      /\ r \in ProcRecord
  BY StepFrame, Fields
     DEF RunIndexer, LeaveClaim, QuarantineInvalid, ReleasePage, ReleaseOwner, Unmoved,
         NoMongo, queueVars, mongoVars, Queue!ReleaseScript, Queue!QuarantineScript,
         Queue!DropLock, Queue!listVars, Inv
<1>2. CASE Goto(p, "exit")
  BY <1>1, <1>2, JumpPath
<1>3. CASE r.pc = "claimed" /\ proc' = [proc EXCEPT ![p].pc = "loop", ![p].claim = 0]
  <2>1. proc'[p] = [r EXCEPT !.pc = "loop", !.claim = 0]
    BY <1>3 DEF Inv, TypeOK
  <2>2. ~Quiet(r.pc, r.outcome)
    BY <1>3, PlaceNames DEF AtWork
  <2> HIDE DEF r
  <2>3. proc'[p].pc = "loop" /\ proc'[p].epoch = r.epoch
    BY <1>1, <2>1, Alterations
  <2>4. Rests(p) /\ Keeps(p) /\ proc'[p].pc \notin AtWork \cup {"finish"}
    BY <2>2, <2>3, PlaceNames DEF Rests, Keeps, r
  <2> QED
    BY <1>1, <2>4, AwayPath
<1>4. CASE proc' = [proc EXCEPT ![p] = Stopped]
  BY <1>1, <1>4, StoppedPath
<1>5. /\ LeaveClaim(p) => Goto(p, "exit")
      /\ ReleasePage(p) => Goto(p, "exit")
      /\ ReleaseOwner(p) => proc' = [proc EXCEPT ![p] = Stopped]
  BY DEF LeaveClaim, ReleasePage, ReleaseOwner, Quit
<1>6. QuarantineInvalid(p) =>
          \/ Goto(p, "exit")
          \/ r.pc = "claimed" /\ proc' = [proc EXCEPT ![p].pc = "loop", ![p].claim = 0]
  BY DEF QuarantineInvalid, Quit
<1> QED
  BY <1>2, <1>3, <1>4, <1>5, <1>6

\* The canonical lock.
LEMMA AcquireCanonicalPath ==
    ASSUME Inv, NEW p \in Proc, AcquireCanonical(p)
    PROVE  Path(p)
<1>1. /\ QueueEffect(p) /\ UNCHANGED <<published, workload>>
      /\ \A q \in Proc \ {p} : proc'[q] = proc[q]
      /\ store' = store /\ late' = late /\ done' = done
      /\ proc[p].pc = "claimed" /\ proc[p].pc \in AtWork
  BY StepFrame
     DEF RunIndexer, ProcessClaim, AcquireCanonical, Unmoved, queueVars, AtWork
<1>2. ~Quiet(proc[p].pc, proc[p].outcome)
  BY <1>1, PlaceNames
<1>3. CASE Goto(p, "release")
  BY <1>1, <1>2, <1>3, JumpPath
<1>4. CASE Goto(p, "load") /\ Owner(p)
  <2>1. "load" \in PcNames
    BY PlaceNames DEF AtWork
  <2>2. Moves(p, "load", proc[p].epoch, proc[p].claim, proc[p].todo, proc[p].outcome)
    BY <1>4, <2>1, GotoMoves DEF Inv
  <2>3. Goes(p) /\ Writes(p) /\ Settles(p) /\ Rests(p) /\ Keeps(p)
    BY <1>1, <1>2, <1>4, <2>2 DEF Goes, Writes, Settles, Rests, Keeps, Moves, Same
  <2> QED
    BY <1>1, <2>3 DEF Path
<1> QED
  BY <1>3, <1>4 DEF AcquireCanonical

\* The page is read.
LEMMA LoadPath ==
    ASSUME Inv, NEW p \in Proc, LoadPage(p)
    PROVE  Path(p)
<1> DEFINE r == proc[p]
<1>1. /\ QueueEffect(p) /\ UNCHANGED <<published, workload>>
      /\ \A q \in Proc \ {p} : proc'[q] = proc[q]
      /\ store' = store /\ late' = late /\ done' = done
      /\ r.pc = "load" /\ r.pc \in AtWork /\ r \in ProcRecord
  BY StepFrame, Fields
     DEF RunIndexer, ProcessClaim, LoadPage, Unmoved, NoMongo, queueVars, mongoVars, AtWork,
         Queue!QuarantineScript, Inv
<1>2. ~Quiet(r.pc, r.outcome)
  BY <1>1, PlaceNames
<1>3. CASE \E res \in Outcomes : Finished(p, res)
  <2>1. proc'[p].pc = "unlock" /\ proc'[p].epoch = r.epoch
    BY <1>3, FinishedMoves DEF Moves, Inv
  <2>2. Rests(p) /\ Keeps(p) /\ proc'[p].pc \notin AtWork \cup {"finish"}
    BY <1>2, <2>1, PlaceNames DEF Rests, Keeps
  <2> QED
    BY <1>1, <2>2, AwayPath
<1>4. CASE /\ r.claim \in inputs
           /\ proc' = [proc EXCEPT ![p].pc = "write", ![p].todo = Calls(r.claim)]
  <2>1. proc'[p] = [r EXCEPT !.pc = "write", !.todo = Calls(r.claim)]
    BY <1>4 DEF Inv, TypeOK
  <2> HIDE DEF r
  <2>2. /\ proc'[p].pc = "write" /\ proc'[p].epoch = r.epoch /\ proc'[p].claim = r.claim
        /\ proc'[p].todo = Calls(r.claim)
    BY <1>1, <2>1, Alterations
  <2>3. Goes(p) /\ Writes(p) /\ Settles(p) /\ Rests(p) /\ Keeps(p)
    BY <1>1, <1>2, <1>4, <2>2 DEF Goes, Writes, Settles, Rests, Keeps, Same, r
  <2> QED
    BY <1>1, <2>3 DEF Path
<1>5. "dead" \in Outcomes /\ "failed" \in Outcomes
  BY DEF Outcomes
<1> QED
  BY <1>3, <1>4, <1>5 DEF LoadPage

\* One call of the plan.
LEMMA WritePath ==
    ASSUME Inv, NEW p \in Proc, Write(p)
    PROVE  Path(p)
<1> DEFINE r == proc[p]
           rest == Tail(r.todo)
           next == IF rest = <<>> THEN "finish" ELSE "write"
<1>1. /\ QueueEffect(p) /\ UNCHANGED <<published, workload>>
      /\ \A q \in Proc \ {p} : proc'[q] = proc[q]
      /\ done' = done
      /\ r.pc = "write" /\ r.pc \in AtWork /\ r \in ProcRecord
  BY StepFrame, Fields
     DEF RunIndexer, ProcessClaim, Write, Unmoved, queueVars, AtWork, Inv
<1>2. ~Quiet(r.pc, r.outcome) /\ Settles(p)
  BY <1>1, PlaceNames DEF Settles
<1>3. Finished(p, "failed") => /\ proc'[p].pc = "unlock" /\ Same(p)
                               /\ proc'[p].outcome = "failed"
  BY FinishedMoves DEF Moves, Inv, Same, Outcomes
<1>4. Finished(p, "failed") => Goes(p) /\ Rests(p) /\ Keeps(p)
  BY <1>2, <1>3, PlaceNames DEF Goes, Rests, Keeps, Same
<1>5. CASE /\ store' = Apply(store, Call(p)) /\ late' = late
           /\ ~Conflicts(store, Call(p)) /\ OwnerCheck(p)
           /\ proc' = [proc EXCEPT ![p].pc = next, ![p].todo = rest]
  <2>1. proc'[p] = [r EXCEPT !.pc = next, !.todo = rest]
    BY <1>5 DEF Inv, TypeOK
  <2>2. next \in {"write", "finish"} /\ (next = "finish" => rest = <<>>)
    OBVIOUS
  <2> HIDE DEF r, next, rest
  <2>3. /\ proc'[p].pc = next /\ proc'[p].epoch = r.epoch /\ proc'[p].claim = r.claim
        /\ proc'[p].todo = rest
    BY <1>1, <2>1, Alterations
  <2>4. Goes(p)
    BY <1>1, <1>5, <2>2, <2>3 DEF Goes, Same, r, rest
  <2>5. Writes(p) /\ Rests(p) /\ Keeps(p)
    BY <1>1, <1>2, <1>5, <2>3 DEF Writes, Rests, Keeps, r
  <2> QED
    BY <1>1, <1>2, <2>4, <2>5 DEF Path
<1>6. CASE Finished(p, "failed") /\ store' \in {store, Apply(store, Call(p))} /\ late' = late
  <2>1. Writes(p)
    BY <1>1, <1>6 DEF Writes
  <2> QED
    BY <1>1, <1>2, <1>4, <1>6, <2>1 DEF Path
<1>7. CASE /\ Finished(p, "failed") /\ store' = store /\ late' = late \cup {Call(p)}
           /\ workload.late
  <2>1. Writes(p)
    BY <1>1, <1>3, <1>7 DEF Writes
  <2> QED
    BY <1>1, <1>2, <1>4, <1>7, <2>1 DEF Path
<1> QED
  BY <1>5, <1>6, <1>7 DEF Write, Call

\* The completion and the skip.
LEMMA FinishPath ==
    ASSUME Inv, NEW p \in Proc, CompletePage(p) \/ SkipPage(p)
    PROVE  Path(p)
<1>1. /\ QueueEffect(p) /\ UNCHANGED <<published, workload>>
      /\ \A q \in Proc \ {p} : proc'[q] = proc[q]
      /\ store' = store /\ late' = late
      /\ proc[p].pc = "finish" /\ FinishPage(p)
  BY StepFrame
     DEF RunIndexer, ProcessClaim, CompletePage, SkipPage, NoMongo, mongoVars
<1>2. ~Quiet(proc[p].pc, proc[p].outcome)
  BY <1>1, PlaceNames
<1>3. PICK res \in Outcomes : Finished(p, res)
  BY <1>1 DEF FinishPage, Outcomes
<1>4. proc'[p].pc = "unlock" /\ proc'[p].epoch = proc[p].epoch
  BY <1>3, FinishedMoves DEF Moves, Inv
<1>5. done' = done \/ done' = done \cup {proc[p].claim}
  BY <1>1 DEF FinishPage, HandOn, Unmoved, queueVars, Queue!FinishScript
<1>6. Goes(p) /\ Writes(p) /\ Settles(p) /\ Rests(p) /\ Keeps(p)
  BY <1>1, <1>2, <1>4, <1>5, PlaceNames DEF Goes, Writes, Settles, Rests, Keeps
<1> QED
  BY <1>1, <1>6 DEF Path

\* The release of the canonical lock.
LEMMA UnlockPath ==
    ASSUME Inv, NEW p \in Proc, UnlockCanonical(p)
    PROVE  Path(p)
<1> DEFINE r == proc[p]
           next == IF r.outcome = "failed" THEN "release" ELSE "loop"
           c == IF r.outcome = "failed" THEN r.claim ELSE 0
<1>1. /\ QueueEffect(p) /\ UNCHANGED <<published, workload>>
      /\ \A q \in Proc \ {p} : proc'[q] = proc[q]
      /\ store' = store /\ late' = late /\ done' = done
      /\ r.pc = "unlock" /\ r \in ProcRecord
  BY StepFrame, Fields
     DEF RunIndexer, ProcessClaim, UnlockCanonical, Unmoved, queueVars, Inv
<1>2. proc'[p] = [r EXCEPT !.pc = next, !.claim = c, !.outcome = "none"]
  BY DEF UnlockCanonical, Inv, TypeOK
<1>3. /\ Quiet(r.pc, r.outcome) => next = "release"
      /\ next \in {"release", "loop"}
  BY <1>1 DEF Quiet
<1> HIDE DEF r, next, c
<1>4. proc'[p].pc = next /\ proc'[p].epoch = r.epoch
  BY <1>1, <1>2, Alterations
<1>5. Rests(p) /\ Keeps(p) /\ proc'[p].pc \notin AtWork \cup {"finish"}
  BY <1>3, <1>4, PlaceNames DEF Rests, Keeps, r
<1> QED
  BY <1>1, <1>5, AwayPath

\* Every step of a process.
LEMMA ProcessPath ==
    ASSUME Inv, NEW p \in Proc, Start(p) \/ Terminate(p) \/ Crash(p) \/ RunIndexer(p)
    PROVE  Path(p)
BY SupervisorPath, AcquirePath, LoopPath, ClaimPath, LeavePath, AcquireCanonicalPath,
   LoadPath, WritePath, FinishPath, UnlockPath DEF RunIndexer, ProcessClaim

-----------------------------------------------------------------------------
(* What a write does to the documents. *)

\* The fence: a document changes only for a caller whose epoch is not below
\* its own, and then carries the caller's stamp or is gone.
DocStep(d, n, op) ==
    n = d \/ (d.epoch <= op.epoch /\ n \in {NoDoc, Stamp(op.pub, op.epoch)})

AllDocStep(s, t, op) ==
    /\ \A u \in Url : /\ DocStep(s.meta[u], t.meta[u], op)
                      /\ DocStep(s.links[u], t.links[u], op)
                      /\ DocStep(s.artifact[u], t.artifact[u], op)
    /\ \A u \in Url : \A w \in Word : DocStep(s.words[u][w], t.words[u][w], op)

SameUrl(s, t, u) ==
    /\ t.words[u] = s.words[u] /\ t.meta[u] = s.meta[u]
    /\ t.links[u] = s.links[u] /\ t.artifact[u] = s.artifact[u]

\* One document.
LEMMA FencedStep ==
    ASSUME NEW d, NEW op
    PROVE  DocStep(d, d, op) /\ DocStep(d, UpsertDoc(d, op), op) /\ DocStep(d, DeleteDoc(d, op), op)
BY DEF DocStep, UpsertDoc, DeleteDoc, Fenced, Stamp

\* Any call changes the documents of its URL only, each within the fence.
LEMMA ApplyDocs ==
    ASSUME TypeOK, NEW op \in WriteOp, NEW t, t = Apply(store, op)
    PROVE  AllDocStep(store, t, op) /\ \A u \in Url : u # UrlOf(op.pub) => SameUrl(store, t, u)
<1> DEFINE u == UrlOf(op.pub)
<1>1. /\ store \in StoreType /\ op.pub \in Nat /\ op.epoch \in Nat /\ op.call \in CallNames
      /\ u \in Url /\ WordsOf(op.pub) \subseteq Word
  BY ApplyTypes DEF TypeOK, MongoOK
<1>2. \A d : DocStep(d, d, op) /\ DocStep(d, UpsertDoc(d, op), op) /\ DocStep(d, DeleteDoc(d, op), op)
  BY FencedStep
<1> HIDE DEF u
<1>3. ASSUME NEW f, Elsewhere(store, t, u, f),
             f = "words" => \A w \in Word : DocStep(store.words[u][w], t.words[u][w], op),
             f = "meta" => DocStep(store.meta[u], t.meta[u], op),
             f = "links" => DocStep(store.links[u], t.links[u], op),
             f = "artifact" => DocStep(store.artifact[u], t.artifact[u], op)
      PROVE  AllDocStep(store, t, op) /\ \A x \in Url : x # u => SameUrl(store, t, x)
  <2>1. \A x \in Url : x # u => SameUrl(store, t, x)
    BY <1>3 DEF Elsewhere, SameUrl
  <2>2. ASSUME NEW x \in Url
        PROVE  /\ DocStep(store.meta[x], t.meta[x], op)
               /\ DocStep(store.links[x], t.links[x], op)
               /\ DocStep(store.artifact[x], t.artifact[x], op)
               /\ \A w \in Word : DocStep(store.words[x][w], t.words[x][w], op)
    BY <1>2, <1>3 DEF Elsewhere
  <2> QED
    BY <2>1, <2>2 DEF AllDocStep
<1>4. \E f : /\ Elsewhere(store, t, u, f)
             /\ f = "words" => \A w \in Word : DocStep(store.words[u][w], t.words[u][w], op)
             /\ f = "meta" => DocStep(store.meta[u], t.meta[u], op)
             /\ f = "links" => DocStep(store.links[u], t.links[u], op)
             /\ f = "artifact" => DocStep(store.artifact[u], t.artifact[u], op)
  <2>00. CallEffect(store, t, u, op)
    BY <1>1, CallEffects DEF u
  <2>0. op.call \in {"artifact", "stale", "words", "dictionary", "metadata", "outlinks",
                     "no words", "no metadata", "no outlinks"}
    BY <1>1 DEF CallNames
  <2>1. CASE op.call = "artifact"
    <3>1. Elsewhere(store, t, u, "artifact") /\ DocStep(store.artifact[u], t.artifact[u], op)
      BY <1>1, <1>2, <2>1, <2>00 DEF CallEffect
    <3> QED
      BY <3>1
  <2>2. CASE op.call \in {"stale", "words", "no words"}
    <3>1. /\ Elsewhere(store, t, u, "words")
          /\ \A w \in Word : t.words[u][w] \in {store.words[u][w], UpsertDoc(store.words[u][w], op),
                                               DeleteDoc(store.words[u][w], op)}
      BY <1>1, <2>2, <2>00 DEF CallEffect
    <3>2. \A w \in Word : DocStep(store.words[u][w], t.words[u][w], op)
      BY <1>2, <3>1
    <3> QED
      BY <3>1, <3>2
  <2>3. CASE op.call = "dictionary"
    <3>1. Elsewhere(store, t, u, "dictionary")
      BY <1>1, <2>3, <2>00 DEF CallEffect
    <3> QED
      BY <3>1
  <2>4. CASE op.call \in {"metadata", "no metadata"}
    <3>1. Elsewhere(store, t, u, "meta") /\ DocStep(store.meta[u], t.meta[u], op)
      BY <1>1, <1>2, <2>4, <2>00 DEF CallEffect
    <3> QED
      BY <3>1
  <2>5. CASE op.call \in {"outlinks", "no outlinks"}
    <3>1. Elsewhere(store, t, u, "links") /\ DocStep(store.links[u], t.links[u], op)
      BY <1>1, <1>2, <2>5, <2>00 DEF CallEffect
    <3> QED
      BY <3>1
  <2> QED
    BY <2>0, <2>1, <2>2, <2>3, <2>4, <2>5
<1> QED
  BY <1>3, <1>4 DEF u

\* The documents after a write are documents of before, gone, or its own.
LEMMA DocsAfter ==
    ASSUME NEW op, AllDocStep(store, store', op)
    PROVE  Docs' \subseteq Docs \cup {NoDoc, Stamp(op.pub, op.epoch)}
<1>1. \A u \in Url : /\ store.meta[u] \in Docs /\ store.links[u] \in Docs
                     /\ store.artifact[u] \in Docs
  BY DEF Docs
<1>2. \A u \in Url : \A w \in Word : store.words[u][w] \in Docs
  BY DEF Docs
<1> SUFFICES ASSUME NEW n \in Docs'
             PROVE  n \in Docs \cup {NoDoc, Stamp(op.pub, op.epoch)}
  OBVIOUS
<1>3. \/ \E u \in Url : n \in {store'.meta[u], store'.links[u], store'.artifact[u]}
      \/ \E u \in Url : \E w \in Word : n = store'.words[u][w]
  BY DEF Docs
<1> QED
  BY <1>1, <1>2, <1>3 DEF AllDocStep, DocStep

-----------------------------------------------------------------------------
(* What waits. *)

\* Membership in the lists, by index.
LEMMA WaitingNumbers ==
    ASSUME TypeOK, NEW x
    PROVE  /\ Waits(x) <=> \/ \E i \in 1..Len(queue) : queue[i] = x
                           \/ \E i \in 1..Len(processing) : processing[i] = x
           /\ Waits(x) => x \in 1..published
BY ListNumbers DEF Waits, Contains

\* No script puts anything in that did not wait before.
LEMMA WaitsShrink ==
    ASSUME TypeOK, ListInv, NEW p \in Proc, QueueEffect(p),
           NEW x, Contains(queue', x) \/ Contains(processing', x)
    PROVE  Waits(x)
<1> DEFINE e == proc[p].epoch
           c == proc[p].claim
<1>0. processing' = <<>> => ~Contains(processing', x)
  BY DEF Contains
<1>1. CASE Unmoved \/ Queue!AcquireLock \/ Queue!DropLock(e)
  <2>1. queue' = queue /\ processing' = processing
    BY <1>1 DEF Unmoved, queueVars, Queue!AcquireLock, Queue!DropLock, Queue!listVars
  <2> QED
    BY <2>1 DEF Waits
<1>2. CASE Queue!ClaimScript(e) /\ processing = <<>>
  <2> DEFINE n == Len(queue)
  <2>1. /\ processing' = <<Last(queue)>> /\ Last(queue) = queue[n]
        /\ n \in Nat \ {0} /\ Len(queue') = n - 1
        /\ \A i \in 1..n - 1 : queue'[i] = queue[i]
    BY <1>2, ClaimMoves
  <2> HIDE DEF n
  <2>2. CASE Contains(processing', x)
    <3>1. x = queue[n] /\ n \in 1..n
      BY <2>1, <2>2 DEF Contains
    <3> QED
      BY <3>1 DEF Waits, Contains, n
  <2>3. CASE Contains(queue', x)
    <3>1. PICK i \in 1..n - 1 : queue'[i] = x
      BY <2>1, <2>3 DEF Contains
    <3>2. i \in 1..n /\ queue[i] = x
      BY <2>1, <3>1
    <3> QED
      BY <3>2 DEF Waits, Contains, n
  <2> QED
    BY <2>2, <2>3
<1>3. CASE Queue!RecoverScript(e) \/ Queue!ReleaseScript(e, c)
  <2> DEFINE a == Len(queue)
             b == Len(processing)
             S == 1..published
  <2>1. queue' = queue \o processing /\ processing' = <<>>
    BY <1>3, RecoverMoves, ReleaseMoves DEF ListInv, LineInv
  <2>2. queue \in Seq(S) /\ processing \in Seq(S) /\ a \in Nat /\ b \in Nat
    BY ListSets
  <2> HIDE DEF S
  <2>3. /\ Len(queue') = a + b
        /\ \A i \in 1..a + b : queue'[i] = IF i <= a THEN queue[i] ELSE processing[i - a]
    BY <2>1, <2>2, JoinFacts
  <2>4. PICK i \in 1..a + b : queue'[i] = x
    BY <1>0, <2>1, <2>3 DEF Contains
  <2> HIDE DEF a, b
  <2>5. \/ i \in 1..a /\ queue[i] = x
        \/ i - a \in 1..b /\ processing[i - a] = x
    BY <2>2, <2>3, <2>4
  <2> QED
    BY <2>5 DEF Waits, Contains, a, b
<1>4. CASE \/ Queue!QuarantineScript(e, c)
           \/ HandOn(p)
  <2>1. queue' = queue /\ processing' = <<>>
    <3>1. queue' = queue /\ Contains(processing, c) /\ processing' = RemoveFirst(processing, c)
      BY <1>4, SameOperators DEF HandOn, Queue!QuarantineScript, Queue!FinishScript
    <3> QED
      BY <3>1, OutOfLine
  <2> QED
    BY <1>0, <2>1 DEF Waits
<1> QED
  BY <1>1, <1>2, <1>3, <1>4 DEF QueueEffect

\* The claim takes the oldest of what waits.
LEMMA ClaimsOldest ==
    ASSUME TypeOK, ListInv, NEW e, Queue!ClaimScript(e), processing = <<>>,
           NEW x, Waits(x)
    PROVE  Last(queue) <= x
<1> DEFINE n == Len(queue)
<1>1. n \in Nat \ {0} /\ Last(queue) = queue[n] /\ \A i \in 1..n : queue[i] \in Nat
  BY ClaimMoves, ListNumbers
<1>2. PICK i \in 1..n : queue[i] = x
  BY WaitingNumbers
<1>3. \A j \in 1..n : i < j => queue[i] > queue[j]
  BY DEF ListInv, LineInv
<1> HIDE DEF n
<1> QED
  BY <1>1, <1>2, <1>3

\* What can be indexed or skipped waits until it is handed on.
LEMMA WaitsUntilDone ==
    ASSUME ListInv', workload' = workload,
           NEW x \in 1..published', Kind(x) \notin Bad, x \notin done'
    PROVE  Waits(x)'
<1>1. \/ Contains(queue', x) \/ Contains(processing', x) \/ Contains(dead', x)
      \/ x \in done'
      \/ Kind(x)' \in Bad /\ Len(dead') = DeadMax
  BY DEF ListInv, KeptInv
<1>2. Kind(x)' = Kind(x)
  BY DEF Kind
<1>3. Contains(dead', x) => Kind(x)' \in Bad
  BY DEF ListInv, DeadInv, Contains
<1> QED
  BY <1>1, <1>2, <1>3 DEF Waits

-----------------------------------------------------------------------------
(* The stamps. *)

\* A stamp that fits among those there are.
FitsIn(d) ==
    /\ d \in Doc /\ d.epoch <= epoch /\ d.pub <= published
    /\ \A x \in 1..published : Waits(x) => d.pub <= x
    /\ \A s \in Stamps : Follows(s, d)
    /\ \A o \in Pending : Follows(d, o)

\* Stamps come from stamps, or from a claim, and what waits is what waited or
\* is newly published.
LEMMA StampStep ==
    ASSUME Inv, StampInv,
           epoch \in Nat, epoch' \in Nat, epoch <= epoch',
           published \in Nat, published' \in Nat, published <= published',
           NEW N, \A d \in N : FitsIn(d), \A d, o \in N : d = o,
           Docs' \subseteq Docs \cup Pending \cup {NoDoc},
           Pending' \subseteq Pending \cup N,
           \A x \in 1..published' : Waits(x)' => (x \in 1..published /\ Waits(x)) \/ x > published,
           \A op \in late' : \A p \in Proc :
              op.epoch = proc'[p].epoch => Quiet(proc'[p].pc, proc'[p].outcome)
    PROVE  StampInv'
<1>1. /\ \A d \in Stamps : d \in Doc /\ d.epoch \in Nat /\ d.pub \in Nat
      /\ \A d \in Stamps : d.epoch <= epoch /\ d.pub <= published
      /\ \A d \in N : d.epoch \in Nat /\ d.pub \in Nat
  BY DEF StampInv, Doc, FitsIn
<1>2. NoDoc \in Doc /\ NoDoc.epoch = 0 /\ NoDoc.pub = 0
  BY DEF NoDoc, Doc
<1>3. Stamps' \subseteq Stamps \cup N \cup {NoDoc}
  BY DEF Stamps
<1>4. \A d \in Stamps' : d \in Doc /\ d.epoch <= epoch' /\ d.pub <= published'
  BY <1>1, <1>2, <1>3 DEF FitsIn
<1>5. ASSUME NEW d \in Stamps', NEW x \in 1..published', Waits(x)'
      PROVE  d.pub <= x
  <2>1. d.pub \in Nat /\ d.pub <= published
    BY <1>1, <1>2, <1>3 DEF FitsIn
  <2>2. CASE x > published
    BY <2>1, <2>2
  <2>3. CASE x \in 1..published /\ Waits(x)
    BY <1>2, <1>3, <2>3 DEF StampInv, FitsIn
  <2> QED
    BY <1>5, <2>2, <2>3
<1>6. ASSUME NEW d \in Stamps', NEW o \in Pending'
      PROVE  Follows(d, o)
  <2>1. o \in Pending \cup N /\ d \in Stamps \cup N \cup {NoDoc} /\ Pending \subseteq Stamps
    BY <1>3 DEF Stamps
  <2>2. o.pub \in Nat /\ o.epoch \in Nat
    BY <1>1, <2>1
  <2>3. CASE d = NoDoc
    BY <1>2, <2>2, <2>3 DEF Follows
  <2>4. CASE d \in Stamps
    BY <2>1, <2>4 DEF StampInv, FitsIn
  <2>5. CASE d \in N
    <3>1. CASE o \in N
      <4>1. d = o
        BY <2>5, <3>1
      <4> QED
        BY <2>2, <4>1 DEF Follows
    <3> QED
      BY <2>1, <2>5, <3>1 DEF FitsIn
  <2> QED
    BY <2>1, <2>3, <2>4, <2>5
<1> QED
  BY <1>4, <1>5, <1>6 DEF StampInv

\* The call that a process is about to make.
LEMMA CallType ==
    ASSUME Inv, NEW p \in Proc, proc[p].pc = "write"
    PROVE  /\ Call(p) \in WriteOp /\ Call(p).pub = proc[p].claim
           /\ Call(p).epoch = proc[p].epoch /\ Call(p).call = Head(proc[p].todo)
           /\ proc[p].todo \in Seq(CallNames) /\ proc[p].todo # <<>>
           /\ Stamp(proc[p].claim, proc[p].epoch) \in Working
<1>1. /\ proc[p].claim \in 1..published /\ proc[p].epoch \in Nat
      /\ proc[p].todo \in Seq(CallNames) /\ proc[p].todo # <<>>
  BY Fields DEF Inv, ProcInv, Busy
<1>2. Head(proc[p].todo) \in CallNames
  BY <1>1
<1> QED
  BY <1>1, <1>2 DEF Call, WriteOp, Working, AtWork

\* A step of a process brings a stamp of its own only with a claim.
LEMMA PathStamps ==
    ASSUME Inv, NEW p \in Proc, Path(p)
    PROVE  /\ Docs' \subseteq Docs \cup Pending \cup {NoDoc}
           /\ Working' \subseteq Working \cup
                 (IF proc[p].pc = "claim" /\ proc'[p].pc = "claimed"
                  THEN {Stamp(proc'[p].claim, proc'[p].epoch)} ELSE {})
           /\ \A op \in late' : Stamp(op.pub, op.epoch) \in Pending
<1>1. /\ Goes(p) /\ Writes(p) /\ \A q \in Proc \ {p} : proc'[q] = proc[q]
  BY DEF Path
<1>2. Docs' \subseteq Docs \cup Pending \cup {NoDoc}
  <2>1. CASE store' = store
    BY <2>1 DEF Docs
  <2>2. CASE proc[p].pc = "write" /\ store' = Apply(store, Call(p))
    <3>1. Call(p) \in WriteOp /\ Stamp(Call(p).pub, Call(p).epoch) \in Working
      BY <2>2, CallType
    <3>2. AllDocStep(store, store', Call(p))
      BY <2>2, <3>1, ApplyDocs DEF Inv
    <3> QED
      BY <3>1, <3>2, DocsAfter DEF Pending
  <2> QED
    BY <1>1, <2>1, <2>2 DEF Writes
<1>3. ASSUME NEW q \in Proc, proc'[q].pc \in AtWork, ~(q = p /\ proc[p].pc = "claim")
      PROVE  Stamp(proc'[q].claim, proc'[q].epoch) \in Working
  <2>1. CASE q # p
    <3>1. proc'[q] = proc[q]
      BY <1>1, <2>1
    <3> QED
      BY <1>3, <3>1 DEF Working
  <2>2. CASE q = p
    <3>1. proc[p].pc \in AtWork /\ Same(p)
      BY <1>1, <1>3, <2>2 DEF Goes, AtWork
    <3> QED
      BY <2>2, <3>1 DEF Working, Same
  <2> QED
    BY <2>1, <2>2
<1>4. proc[p].pc = "claim" /\ proc'[p].pc \in AtWork => proc'[p].pc = "claimed"
  BY <1>1 DEF Goes, AtWork
<1>5. Working' \subseteq Working \cup
          (IF proc[p].pc = "claim" /\ proc'[p].pc = "claimed"
           THEN {Stamp(proc'[p].claim, proc'[p].epoch)} ELSE {})
  <2> SUFFICES ASSUME NEW q \in Proc, proc'[q].pc \in AtWork
               PROVE  Stamp(proc'[q].claim, proc'[q].epoch) \in Working \cup
                        (IF proc[p].pc = "claim" /\ proc'[p].pc = "claimed"
                         THEN {Stamp(proc'[p].claim, proc'[p].epoch)} ELSE {})
    BY DEF Working, Stamp
  <2> QED
    BY <1>3, <1>4
<1>6. ASSUME NEW op \in late'
      PROVE  Stamp(op.pub, op.epoch) \in Pending
  <2>1. CASE op \in late
    BY <2>1 DEF Pending
  <2>2. CASE proc[p].pc = "write" /\ op = Call(p)
    BY <2>2, CallType DEF Pending
  <2> QED
    BY <1>1, <2>1, <2>2 DEF Writes
<1> QED
  BY <1>2, <1>5, <1>6

\* A claim is taken by the process of the last epoch, which has no other write
\* ahead of it, and what it takes is the oldest of what waits.
LEMMA ClaimFitsIn ==
    ASSUME Inv, StampInv, NEW p \in Proc, proc[p].pc = "claim",
           Queue!ClaimScript(proc[p].epoch), QueueEffect(p)
    PROVE  FitsIn(Stamp(Last(queue), proc[p].epoch))
<1> DEFINE e == proc[p].epoch
           v == Last(queue)
           d == Stamp(v, e)
<1>1. e # 0 /\ epoch = e /\ owner = e /\ e \in Nat /\ epoch \in Nat
  BY Fields DEF Queue!ClaimScript, Queue!Holds, Inv
<1>2. processing = <<>>
  BY <1>1 DEF Inv, ClaimInv, OwnClaims
<1>3. v \in 1..published /\ published \in Nat
  BY <1>2, ClaimMoves, ListNumbers DEF Inv
<1>4. Waits(v)
  <2>1. Len(queue) \in Nat \ {0} /\ v = queue[Len(queue)]
    BY <1>2, ClaimMoves DEF Inv
  <2>2. Len(queue) \in 1..Len(queue)
    BY <2>1
  <2> QED
    BY <2>1, <2>2 DEF Waits, Contains
<1> HIDE DEF v
<1>5. d \in Doc /\ d.epoch = epoch /\ d.pub = v
  BY <1>1, <1>3 DEF Stamp, Doc
<1>6. \A x \in 1..published : Waits(x) => v <= x
  BY <1>2, ClaimsOldest DEF Inv, v
<1>7. \A s \in Stamps : s.pub <= v /\ s.epoch <= epoch /\ s.epoch \in Nat
  BY <1>3, <1>4 DEF StampInv, Doc
<1>8. \A o \in Pending : o.epoch # epoch
  <2>1. ASSUME NEW q \in Proc, proc[q].pc \in AtWork, proc[q].epoch = epoch
        PROVE  FALSE
    <3>1. q = p
      BY <1>1, <2>1 DEF Inv, ProcInv
    <3> QED
      BY <2>1, <3>1 DEF AtWork
  <2>2. ASSUME NEW op \in late, op.epoch = epoch
        PROVE  FALSE
    <3>1. Quiet(proc[p].pc, proc[p].outcome)
      BY <1>1, <2>2 DEF StampInv
    <3> QED
      BY <3>1 DEF Quiet
  <2> QED
    BY <2>1, <2>2 DEF Pending, Working, Stamp
<1>9. \A s \in Stamps : Follows(s, d)
  BY <1>5, <1>7 DEF Follows
<1>10. \A o \in Pending : Follows(d, o)
  <2>1. Pending \subseteq Stamps
    BY DEF Stamps
  <2>2. \A o \in Pending : o.epoch < epoch
    BY <1>1, <1>7, <1>8, <2>1
  <2> HIDE DEF d
  <2> QED
    BY <1>1, <1>5, <1>7, <2>1, <2>2 DEF Follows
<1> QED
  BY <1>1, <1>3, <1>5, <1>6, <1>9, <1>10 DEF FitsIn, v

\* A process that left a write behind makes no other in its epoch.
LEMMA PathRests ==
    ASSUME Inv, StampInv, NEW p \in Proc, Path(p), NEW op \in late', NEW q \in Proc,
           op.epoch = proc'[q].epoch
    PROVE  Quiet(proc'[q].pc, proc'[q].outcome)
<1>1. /\ Writes(p) /\ Rests(p) /\ Keeps(p) /\ \A r \in Proc \ {p} : proc'[r] = proc[r]
  BY DEF Path
<1>2. CASE op \in late
  <2>1. op.epoch \in Nat /\ op.epoch <= epoch /\ epoch \in Nat
    <3>1. Stamp(op.pub, op.epoch) \in Stamps
      BY <1>2 DEF Stamps, Pending
    <3> QED
      BY <1>2, <3>1 DEF StampInv, Stamp, Doc, Inv, TypeOK
  <2>2. op.epoch # epoch + 1
    BY <2>1
  <2>3. CASE q # p
    BY <1>1, <1>2, <2>3 DEF StampInv
  <2>4. CASE q = p
    <3>1. CASE proc'[p].epoch = proc[p].epoch
      <4>1. Quiet(proc[p].pc, proc[p].outcome)
        BY <1>2, <2>4, <3>1 DEF StampInv
      <4> QED
        BY <1>1, <2>2, <2>4, <4>1 DEF Rests
    <3> QED
      BY <1>1, <2>2, <2>4, <3>1 DEF Keeps
  <2> QED
    BY <2>3, <2>4
<1>3. CASE op \notin late
  <2>1. /\ proc[p].pc = "write" /\ op = Call(p)
        /\ proc'[p].pc = "unlock" /\ proc'[p].outcome = "failed"
    BY <1>1, <1>3 DEF Writes
  <2>2. op.epoch = proc[p].epoch /\ proc[p].epoch # 0
    BY <2>1 DEF Call, Inv, ProcInv, Places0
  <2>3. q = p
    BY <1>1, <2>2 DEF Inv, ProcInv
  <2> QED
    BY <2>1, <2>3 DEF Quiet
<1> QED
  BY <1>2, <1>3

\* The steps of the processes keep the stamps in order.
LEMMA ProcessStamps ==
    ASSUME Inv, StampInv, Inv', NEW p \in Proc, Path(p)
    PROVE  StampInv'
<1> DEFINE N == IF proc[p].pc = "claim" /\ proc'[p].pc = "claimed"
                THEN {Stamp(proc'[p].claim, proc'[p].epoch)} ELSE {}
<1>1. /\ QueueEffect(p) /\ UNCHANGED <<published, workload>> /\ Goes(p)
  BY DEF Path
<1>2. /\ epoch \in Nat /\ epoch' \in Nat /\ epoch <= epoch'
      /\ published \in Nat /\ published' \in Nat /\ published <= published'
  <2>1. epoch \in Nat /\ epoch' \in Nat /\ published \in Nat /\ published' = published
    BY <1>1, ListNumbers DEF Inv, TypeOK
  <2>2. \/ UNCHANGED <<owner, epoch, processing>>
        \/ owner' = epoch + 1 /\ epoch' = epoch + 1 /\ processing' = processing
        \/ Owner(p) /\ owner' \in {owner, 0} /\ epoch' = epoch
    BY <1>1, EffectKeeps DEF Inv
  <2> QED
    BY <2>1, <2>2
<1>3. \A d \in N : FitsIn(d)
  <2> SUFFICES ASSUME proc[p].pc = "claim", proc'[p].pc = "claimed"
               PROVE  FitsIn(Stamp(proc'[p].claim, proc'[p].epoch))
    OBVIOUS
  <2>1. /\ proc'[p].epoch = proc[p].epoch /\ proc'[p].claim = Last(queue)
        /\ Queue!ClaimScript(proc[p].epoch)
    BY <1>1 DEF Goes, AtWork
  <2> QED
    BY <1>1, <2>1, ClaimFitsIn
<1>4. \A d, o \in N : d = o
  OBVIOUS
<1>5. Docs' \subseteq Docs \cup Pending \cup {NoDoc} /\ Pending' \subseteq Pending \cup N
  <2>1. /\ Docs' \subseteq Docs \cup Pending \cup {NoDoc} /\ Working' \subseteq Working \cup N
        /\ \A op \in late' : Stamp(op.pub, op.epoch) \in Pending
    BY PathStamps
  <2> HIDE DEF N
  <2> QED
    BY <2>1 DEF Pending, Stamp
<1>6. \A x \in 1..published' :
         Waits(x)' => (x \in 1..published /\ Waits(x)) \/ x > published
  BY <1>1, WaitsShrink DEF Waits, Inv
<1>7. \A op \in late' : \A q \in Proc :
         op.epoch = proc'[q].epoch => Quiet(proc'[q].pc, proc'[q].outcome)
  BY PathRests
<1> HIDE DEF N
<1> QED
  BY <1>2, <1>3, <1>4, <1>5, <1>6, <1>7, StampStep

\* So do the spider, the clock and the operator, who write nothing.
LEMMA OutsideStamps ==
    ASSUME Inv, StampInv, Inv', Publish \/ LockExpires \/ \E u \in Url : OperatorClears(u)
    PROVE  StampInv'
<1>1. UNCHANGED <<store, late, proc, epoch>>
  BY DEF Publish, LockExpires, OperatorClears, mongoVars, queueVars, envVars, Queue!Push,
         Queue!LockExpires
<1>2. Docs' = Docs /\ Pending' = Pending
  BY <1>1 DEF Docs, Pending, Working
<1>3. epoch \in Nat /\ published \in Nat /\ published' \in Nat /\ published <= published'
  BY ListNumbers DEF Inv, TypeOK, Publish, LockExpires, OperatorClears, envVars
<1>4. ASSUME NEW x \in 1..published', Waits(x)'
      PROVE  (x \in 1..published /\ Waits(x)) \/ x > published
  <2>1. CASE Publish
    <3>1. queue' = <<published + 1>> \o queue /\ processing' = processing
          /\ published' = published + 1
      BY <2>1 DEF Publish, Queue!Push
    <3>2. \/ x = published + 1
          \/ Contains(queue, x)
          \/ Contains(processing, x)
      <4> DEFINE a == Len(queue)
                 n == published + 1
      <4>1. queue \in Seq(1..n) /\ a \in Nat /\ n \in 1..n
        BY <1>3, ListSets, SeqMonotonic DEF Inv
      <4>2. /\ Len(queue') = a + 1 /\ queue'[1] = n
            /\ \A i \in 1..a + 1 : i # 1 => queue'[i] = queue[i - 1]
        BY <3>1, <4>1, PrependFacts
      <4>3. CASE Contains(queue', x)
        <5>1. PICK i \in 1..Len(queue') : queue'[i] = x
          BY <4>3 DEF Contains
        <5>2. i \in 1..a + 1
          BY <4>2, <5>1
        <5> HIDE DEF a
        <5>3. i = 1 \/ (i - 1 \in 1..a /\ queue[i - 1] = x)
          BY <4>1, <4>2, <5>1, <5>2
        <5> QED
          BY <4>2, <5>1, <5>3 DEF Contains, a
      <4> QED
        BY <1>4, <3>1, <4>3 DEF Waits
    <3> QED
      BY <1>3, <3>1, <3>2 DEF Waits
  <2>2. CASE ~Publish
    <3>1. queue' = queue /\ processing' = processing /\ published' = published
      BY <2>2 DEF LockExpires, OperatorClears, queueVars, envVars, Queue!LockExpires,
                  Queue!listVars
    <3> QED
      BY <1>4, <3>1 DEF Waits
  <2> QED
    BY <2>1, <2>2
<1>5. \A op \in late' : \A p \in Proc :
         op.epoch = proc'[p].epoch => Quiet(proc'[p].pc, proc'[p].outcome)
  BY <1>1 DEF StampInv
<1>6. epoch' = epoch /\ epoch <= epoch' /\ epoch' \in Nat
  BY <1>1, <1>3
<1> DEFINE N == {}
<1>7. /\ \A d \in N : FitsIn(d)
      /\ \A d, o \in N : d = o
      /\ Docs' \subseteq Docs \cup Pending \cup {NoDoc}
      /\ Pending' \subseteq Pending \cup N
  BY <1>2
<1> HIDE DEF N
<1> QED
  BY <1>3, <1>4, <1>5, <1>6, <1>7, StampStep

\* So does a write that lands late.
LEMMA LandingStamps ==
    ASSUME Inv, StampInv, Inv', NEW op \in late, WriteLands(op)
    PROVE  StampInv'
<1>1. /\ UNCHANGED <<proc, epoch, published, queue, processing>>
      /\ late' = late \ {op} /\ store' = Apply(store, op)
  BY DEF WriteLands, queueVars, envVars
<1>2. Docs' \subseteq Docs \cup Pending \cup {NoDoc}
  <2>1. op \in WriteOp
    BY DEF Inv, TypeOK, MongoOK
  <2>2. AllDocStep(store, store', op)
    BY <1>1, <2>1, ApplyDocs DEF Inv
  <2>3. Stamp(op.pub, op.epoch) \in Pending
    BY DEF Pending
  <2> QED
    BY <2>2, <2>3, DocsAfter
<1>3. Pending' \subseteq Pending
  BY <1>1 DEF Pending, Working
<1>4. /\ epoch \in Nat /\ epoch' \in Nat /\ epoch <= epoch'
      /\ published \in Nat /\ published' \in Nat /\ published <= published'
  BY <1>1, ListNumbers DEF Inv, TypeOK
<1>5. \A x \in 1..published' :
         Waits(x)' => (x \in 1..published /\ Waits(x)) \/ x > published
  BY <1>1 DEF Waits
<1>6. \A s \in late' : \A p \in Proc :
         s.epoch = proc'[p].epoch => Quiet(proc'[p].pc, proc'[p].outcome)
  BY <1>1 DEF StampInv
<1> DEFINE N == {}
<1>7. /\ \A d \in N : FitsIn(d)
      /\ \A d, o \in N : d = o
      /\ Pending' \subseteq Pending \cup N
  BY <1>3
<1> HIDE DEF N
<1> QED
  BY <1>2, <1>4, <1>5, <1>6, <1>7, StampStep

-----------------------------------------------------------------------------
(* The claims being handled. *)

\* Two processes that handle claims handle claims of different URLs.
LEMMA OneHandler ==
    ASSUME Inv, NEW p \in Proc, NEW q \in Proc, p # q,
           proc[p].pc \in Handling, proc[q].pc \in Handling
    PROVE  ClaimUrl(p) # ClaimUrl(q)
<1>1. proc[p].epoch # 0 /\ proc[p].epoch # proc[q].epoch
  BY DEF Inv, ProcInv, Handling, Places0
<1>2. canonical[ClaimUrl(p)] = Mine(p) /\ canonical[ClaimUrl(q)] = Mine(q)
  BY DEF Inv, LockInv, Handling
<1>3. Mine(p) # Mine(q)
  BY <1>1 DEF Mine
<1> QED
  BY <1>2, <1>3

\* A claim that is being handled is known, and was not handed on.
LEMMA HandledOpen ==
    ASSUME Inv, NewerInv, NEW p \in Proc, proc[p].pc \in Handling
    PROVE  /\ proc[p].claim \in 1..published /\ proc[p].claim \in Nat
           /\ ClaimUrl(p) \in Url /\ WordsOf(proc[p].claim) \subseteq Word
           /\ proc[p].claim \notin done
<1>1. proc[p].claim \in 1..published /\ proc[p].claim \in Nat
  BY Fields DEF Inv, ProcInv, Handling, Busy
<1>2. ClaimUrl(p) \in Url /\ WordsOf(proc[p].claim) \subseteq Word
  BY <1>1, PubFields DEF Inv, ClaimUrl
<1>3. ~(proc[p].claim < proc[p].claim)
  BY <1>1
<1> QED
  BY <1>1, <1>2, <1>3 DEF NewerInv, ClaimUrl

\* The steps of the processes keep the claims newer than what was handed on.
LEMMA ProcessNewer ==
    ASSUME Inv, NewerInv, NEW p \in Proc, Path(p)
    PROVE  NewerInv'
<1>1. /\ Goes(p) /\ Settles(p) /\ \A q \in Proc \ {p} : proc'[q] = proc[q]
      /\ workload' = workload
  BY DEF Path
<1>2. \A v : UrlOf(v)' = UrlOf(v)
  BY <1>1 DEF UrlOf
<1> SUFFICES ASSUME NEW q \in Proc, proc'[q].pc \in Handling, NEW x \in done',
                    UrlOf(x) = UrlOf(proc'[q].claim)
             PROVE  x < proc'[q].claim
  BY <1>1 DEF NewerInv, ClaimUrl, UrlOf
<1>3. CASE x \in done
  <2>1. CASE q # p
    BY <1>1, <1>3, <2>1 DEF NewerInv, ClaimUrl
  <2>2. CASE q = p
    <3>1. CASE proc[p].pc \in Handling /\ Same(p)
      BY <1>3, <2>2, <3>1 DEF NewerInv, ClaimUrl, Same
    <3>2. CASE proc[p].pc = "claimed" /\ Same(p) /\ Owner(p)
      <4>1. proc[p].epoch # 0 /\ owner = proc[p].epoch /\ epoch = proc[p].epoch
        BY <3>2 DEF Owner, Queue!Holds
      <4>2. processing = <<proc[p].claim>>
        BY <3>2, <4>1 DEF Inv, ClaimInv, OwnClaims, Busy
      <4>3. Len(processing) = 1 /\ processing[1] = proc[p].claim /\ 1 \in 1..Len(processing)
        BY <4>2
      <4>4. x < processing[1]
        BY <1>3, <4>3 DEF Inv, ListInv, LineInv
      <4> QED
        BY <2>2, <3>2, <4>3, <4>4 DEF Same
    <3> QED
      BY <1>1, <2>2, <3>1, <3>2 DEF Goes, Handling, AtWork
  <2> QED
    BY <2>1, <2>2
<1>4. CASE x \notin done
  <2>1. proc[p].pc = "finish" /\ x = proc[p].claim /\ proc'[p].pc = "unlock"
    BY <1>1, <1>4 DEF Settles
  <2>2. q # p /\ proc'[q] = proc[q]
    BY <1>1, <2>1 DEF Handling
  <2>3. ClaimUrl(p) # ClaimUrl(q)
    BY <2>1, <2>2, OneHandler DEF Handling
  <2> QED
    BY <2>1, <2>2, <2>3 DEF ClaimUrl
<1> QED
  BY <1>3, <1>4

\* They keep to publications that can be indexed or skipped.
LEMMA ProcessKinds ==
    ASSUME Inv, KindInv, NEW p \in Proc, Path(p)
    PROVE  KindInv'
<1>1. /\ Goes(p) /\ \A q \in Proc \ {p} : proc'[q] = proc[q] /\ workload' = workload
  BY DEF Path
<1>2. \A v : Kind(v)' = Kind(v)
  BY DEF Kind, Path
<1> SUFFICES ASSUME NEW q \in Proc, proc'[q].pc \in {"write", "finish"}
             PROVE  Kind(proc'[q].claim) \in Readable
  BY DEF KindInv, Kind, Path
<1>3. CASE q # p
  BY <1>1, <1>3 DEF KindInv
<1>4. CASE q = p
  <2>1. CASE proc[p].pc \in {"write", "finish"} /\ Same(p)
    BY <1>4, <2>1 DEF KindInv, Same
  <2>2. CASE proc[p].pc = "load" /\ Same(p) /\ proc[p].claim \in inputs
    <3>1. proc[p].claim \in 1..published
      BY <2>2 DEF Inv, ProcInv, Busy
    <3>2. Kind(proc[p].claim) \in Readable \cup Bad
      BY <3>1, PubFields DEF Inv
    <3>3. Kind(proc[p].claim) # "corrupt" /\ Kind(proc[p].claim) # "invalid"
      BY <2>2 DEF Inv, InputsInv, ProcInv
    <3> QED
      BY <1>4, <2>2, <3>2, <3>3 DEF Same, Bad
  <2> QED
    BY <1>1, <1>4, <2>1, <2>2 DEF Goes, AtWork
<1> QED
  BY <1>3, <1>4

\* Without late writes none is ever pending.
LEMMA ProcessPrompt ==
    ASSUME PromptInv, NEW p \in Proc, Path(p)
    PROVE  PromptInv'
BY DEF PromptInv, Path, Writes

-----------------------------------------------------------------------------
(* The calls of a plan. *)

Writing == {"artifact", "stale", "words", "dictionary", "metadata", "outlinks"}
Removing == {"artifact", "no words", "no metadata", "no outlinks"}

\* What a sequence that is written out contains.
LEMMA WrittenOut ==
    ASSUME NEW k, NEW a, NEW b, NEW c, NEW d, NEW e
    PROVE  /\ ~Contains(<<>>, k)
           /\ Contains(<<a>>, k) <=> k = a
           /\ Contains(<<a, b, c>>, k) <=> k \in {a, b, c}
           /\ Contains(<<a, b, c, d, e>>, k) <=> k \in {a, b, c, d, e}
<1>1. \A s : Contains(s, k) <=> \E i \in 1..Len(s) : s[i] = k
  BY DEF Contains
<1>2. 1..3 = {1, 2, 3} /\ 1..5 = {1, 2, 3, 4, 5} /\ 1..1 = {1} /\ 1..0 = {}
  OBVIOUS
<1>3. ~Contains(<<>>, k)
  BY <1>1, <1>2
<1>4. Contains(<<a>>, k) <=> k = a
  BY <1>1, <1>2
<1>5. Contains(<<a, b, c>>, k) <=> k \in {a, b, c}
  BY <1>1, <1>2
<1>6. Contains(<<a, b, c, d, e>>, k) <=> k \in {a, b, c, d, e}
  BY <1>1, <1>2
<1> QED
  BY <1>3, <1>4, <1>5, <1>6

\* The calls of a plan.
LEMMA PlanLists ==
    ASSUME NEW k
    PROVE  /\ Contains(<<"stale", "metadata", "outlinks">>, k) <=>
                  k \in {"stale", "metadata", "outlinks"}
           /\ Contains(<<"stale", "words", "dictionary", "metadata", "outlinks">>, k) <=>
                  k \in {"stale", "words", "dictionary", "metadata", "outlinks"}
           /\ Contains(<<"artifact">>, k) <=> k = "artifact"
           /\ Contains(<<"no words", "no metadata", "no outlinks">>, k) <=>
                  k \in {"no words", "no metadata", "no outlinks"}
BY WrittenOut

\* What two lists in a row contain.
LEMMA JoinContains ==
    ASSUME NEW S, NEW u \in Seq(S), NEW w \in Seq(S), NEW k
    PROVE  Contains(u \o w, k) <=> Contains(u, k) \/ Contains(w, k)
<1> DEFINE a == Len(u)
           b == Len(w)
           s == u \o w
<1>1. /\ a \in Nat /\ b \in Nat /\ Len(s) = a + b
      /\ \A i \in 1..a + b : s[i] = IF i <= a THEN u[i] ELSE w[i - a]
  BY JoinFacts
<1>2. /\ Contains(s, k) <=> \E i \in 1..Len(s) : s[i] = k
      /\ Contains(u, k) <=> \E i \in 1..a : u[i] = k
      /\ Contains(w, k) <=> \E i \in 1..b : w[i] = k
  BY DEF Contains
<1> HIDE DEF a, b, s
<1>3. ASSUME NEW i \in 1..a + b, s[i] = k
      PROVE  Contains(u, k) \/ Contains(w, k)
  <2>1. (i \in 1..a /\ u[i] = k) \/ (i - a \in 1..b /\ w[i - a] = k)
    BY <1>1, <1>3
  <2> QED
    BY <1>2, <2>1
<1>4. ASSUME NEW i \in 1..a, u[i] = k
      PROVE  Contains(s, k)
  <2>1. i \in 1..a + b /\ s[i] = k
    BY <1>1, <1>4
  <2> QED
    BY <1>1, <1>2, <2>1
<1>5. ASSUME NEW i \in 1..b, w[i] = k
      PROVE  Contains(s, k)
  <2>1. a + i \in 1..a + b /\ s[a + i] = k
    BY <1>1, <1>5
  <2> QED
    BY <1>1, <1>2, <2>1
<1>6. Contains(s, k) <=> Contains(u, k) \/ Contains(w, k)
  BY <1>1, <1>2, <1>3, <1>4, <1>5
<1> QED
  BY <1>6 DEF s

\* What a list contains, its head apart.
LEMMA HeadAndTail ==
    ASSUME NEW S, NEW s \in Seq(S), s # <<>>, NEW k
    PROVE  Contains(s, k) <=> k = Head(s) \/ Contains(Tail(s), k)
<1> DEFINE n == Len(s)
           t == Tail(s)
<1>1. /\ n \in Nat \ {0} /\ Len(t) = n - 1 /\ Head(s) = s[1]
      /\ \A i \in 1..n - 1 : t[i] = s[i + 1]
  OBVIOUS
<1>2. /\ Contains(s, k) <=> \E i \in 1..n : s[i] = k
      /\ Contains(t, k) <=> \E i \in 1..Len(t) : t[i] = k
  BY DEF Contains
<1> HIDE DEF n, t
<1>3. ASSUME NEW i \in 1..n, s[i] = k
      PROVE  k = Head(s) \/ Contains(t, k)
  <2>1. i = 1 \/ (i - 1 \in 1..n - 1 /\ t[i - 1] = k)
    BY <1>1, <1>3
  <2> QED
    BY <1>1, <1>2, <1>3, <2>1
<1>4. ASSUME NEW i \in 1..n - 1, t[i] = k
      PROVE  Contains(s, k)
  <2>1. i + 1 \in 1..n /\ s[i + 1] = k
    BY <1>1, <1>4
  <2> QED
    BY <1>2, <2>1
<1>5. Contains(s, k) <=> k = Head(s) \/ Contains(t, k)
  BY <1>1, <1>2, <1>3, <1>4
<1> QED
  BY <1>5 DEF t

\* A plan either writes or removes, and is complete.
LEMMA PlanCalls ==
    ASSUME NEW v, Kind(v) \in Readable
    PROVE  /\ Indexable(v) =>
                 /\ \A k : Contains(Calls(v), k) => k \in Writing
                 /\ \A k \in {"stale", "metadata", "outlinks"} : Contains(Calls(v), k)
                 /\ WordsOf(v) # {} => Contains(Calls(v), "words")
           /\ ~Indexable(v) =>
                 /\ \A k : Contains(Calls(v), k) => k \in Removing
                 /\ \A k \in {"no words", "no metadata", "no outlinks"} : Contains(Calls(v), k)
           /\ Rendered(v) => Contains(Calls(v), "artifact")
<1>1. ASSUME NEW k
      PROVE  Contains(RemoveSearchState, k) <=> k \in {"no words", "no metadata", "no outlinks"}
  BY PlanLists DEF RemoveSearchState
<1>2. ASSUME NEW k
      PROVE  /\ Contains(ReplaceSearchState(v), k) => k \in Writing
             /\ k \in {"stale", "metadata", "outlinks"} => Contains(ReplaceSearchState(v), k)
             /\ WordsOf(v) # {} /\ k = "words" => Contains(ReplaceSearchState(v), k)
  <2>1. CASE WordsOf(v) = {}
    <3>1. ReplaceSearchState(v) = <<"stale", "metadata", "outlinks">>
      BY <2>1 DEF ReplaceSearchState
    <3> QED
      BY <2>1, <3>1, PlanLists DEF Writing
  <2>2. CASE WordsOf(v) # {}
    <3>1. ReplaceSearchState(v) = <<"stale", "words", "dictionary", "metadata", "outlinks">>
      BY <2>2 DEF ReplaceSearchState
    <3> QED
      BY <2>2, <3>1, PlanLists DEF Writing
  <2> QED
    BY <2>1, <2>2
<1> DEFINE a == IF Rendered(v) THEN <<"artifact">> ELSE <<>>
           b == IF Indexable(v) THEN ReplaceSearchState(v) ELSE RemoveSearchState
<1>3. a \in Seq(CallNames) /\ b \in Seq(CallNames) /\ Calls(v) = a \o b
  <2>1. /\ <<"stale", "metadata", "outlinks">> \in Seq(CallNames)
        /\ <<"stale", "words", "dictionary", "metadata", "outlinks">> \in Seq(CallNames)
        /\ <<"no words", "no metadata", "no outlinks">> \in Seq(CallNames)
        /\ <<"artifact">> \in Seq(CallNames) /\ <<>> \in Seq(CallNames)
    BY DEF CallNames
  <2>2. ReplaceSearchState(v) \in Seq(CallNames) /\ RemoveSearchState \in Seq(CallNames)
    BY <2>1 DEF ReplaceSearchState, RemoveSearchState
  <2> QED
    BY <2>1, <2>2 DEF Calls
<1>4. ASSUME NEW k
      PROVE  Contains(a, k) <=> Rendered(v) /\ k = "artifact"
  <2>1. Contains(<<"artifact">>, k) <=> k = "artifact"
    BY PlanLists
  <2>2. ~Contains(<<>>, k)
    BY WrittenOut
  <2> QED
    BY <2>1, <2>2
<1>5. ASSUME NEW k
      PROVE  Contains(b, k) <=> IF Indexable(v) THEN Contains(ReplaceSearchState(v), k)
                                ELSE Contains(RemoveSearchState, k)
  OBVIOUS
<1> HIDE DEF a, b
<1>6. ASSUME NEW k
      PROVE  Contains(Calls(v), k) <=> Contains(a, k) \/ Contains(b, k)
  BY <1>3, JoinContains
<1>7. "artifact" \in Writing /\ "artifact" \in Removing
      /\ {"no words", "no metadata", "no outlinks"} \subseteq Removing
  BY DEF Writing, Removing
<1>8. CASE Indexable(v)
  BY <1>2, <1>4, <1>5, <1>6, <1>7, <1>8
<1>9. CASE ~Indexable(v)
  BY <1>1, <1>4, <1>5, <1>6, <1>7, <1>9
<1> QED
  BY <1>8, <1>9

\* A call leaves the trace it is for, when no document is fenced off, and it
\* does not undo the trace of another call of the same plan.
LEMMA CallMakes ==
    ASSUME NEW s, NEW t, NEW op, op.pub \in Nat, op.call \in CallNames,
           WordsOf(op.pub) \subseteq Word, NEW u, u = UrlOf(op.pub), u \in Url,
           CallEffect(s, t, u, op),
           \A w \in Word : Fenced(s.words[u][w], op.epoch),
           Fenced(s.meta[u], op.epoch), Fenced(s.links[u], op.epoch),
           Fenced(s.artifact[u], op.epoch)
    PROVE  Made(t, op.call, op.pub)
<1>1. \A d : Fenced(d, op.epoch) => UpsertDoc(d, op).pub = op.pub /\ DeleteDoc(d, op).pub = 0
  BY DEF UpsertDoc, DeleteDoc, NoDoc
<1>2. op.call = "artifact" => t.artifact[u].pub = op.pub
  BY <1>1 DEF CallEffect
<1>3. op.call = "stale" => \A w \in Word \ WordsOf(op.pub) : t.words[u][w].pub = 0
  BY <1>1 DEF CallEffect
<1>4. op.call = "words" => \A w \in WordsOf(op.pub) : t.words[u][w].pub = op.pub
  BY <1>1 DEF CallEffect
<1>5. op.call = "metadata" => t.meta[u].pub = op.pub
  BY <1>1 DEF CallEffect
<1>6. op.call = "outlinks" => t.links[u].pub = op.pub
  BY <1>1 DEF CallEffect
<1>7. op.call = "no words" => \A w \in Word : t.words[u][w].pub = 0
  BY ZenonT(60), <1>1 DEF CallEffect
<1>8. op.call = "no metadata" => t.meta[u].pub = 0
  BY <1>1 DEF CallEffect
<1>9. op.call = "no outlinks" => t.links[u].pub = 0
  BY <1>1 DEF CallEffect
<1> QED
  BY <1>2, <1>3, <1>4, <1>5, <1>6, <1>7, <1>8, <1>9 DEF Made

\* The trace of a call survives the other calls of the plan.
LEMMA CallKeepsMade ==
    ASSUME NEW s, NEW t, NEW op, op.pub \in Nat, WordsOf(op.pub) \subseteq Word,
           NEW u, u = UrlOf(op.pub), u \in Url, CallEffect(s, t, u, op),
           NEW k, Made(s, k, op.pub),
           (op.call \in Writing /\ k \in Writing) \/ (op.call \in Removing /\ k \in Removing)
    PROVE  Made(t, k, op.pub)
<1>1. \A d : /\ d.pub = op.pub => UpsertDoc(d, op).pub = op.pub
             /\ d.pub = 0 => DeleteDoc(d, op).pub = 0
  BY DEF UpsertDoc, DeleteDoc, NoDoc
<1>2. CASE op.call \in Writing /\ k \in Writing
  <2>1. op.call \in {"artifact", "stale", "words", "dictionary", "metadata", "outlinks"}
    BY <1>2 DEF Writing
  <2>2. /\ t.artifact[u] \in {s.artifact[u], UpsertDoc(s.artifact[u], op)}
        /\ t.meta[u] \in {s.meta[u], UpsertDoc(s.meta[u], op)}
        /\ t.links[u] \in {s.links[u], UpsertDoc(s.links[u], op)}
    BY <2>1 DEF CallEffect, Elsewhere
  <2>3. \A w \in Word :
           t.words[u][w] \in {s.words[u][w], IF w \in WordsOf(op.pub)
                                            THEN UpsertDoc(s.words[u][w], op)
                                            ELSE DeleteDoc(s.words[u][w], op)}
    <3>1. CASE op.call \in {"artifact", "dictionary", "metadata", "outlinks"}
      BY <3>1 DEF CallEffect, Elsewhere
    <3>2. CASE op.call = "stale"
      BY <3>2 DEF CallEffect
    <3>3. CASE op.call = "words"
      BY <3>3 DEF CallEffect
    <3> QED
      BY <2>1, <3>1, <3>2, <3>3
  <2>4. k = "artifact" => t.artifact[u].pub = op.pub
    BY <1>1, <2>2 DEF Made
  <2>5. k = "stale" => \A w \in Word \ WordsOf(op.pub) : t.words[u][w].pub = 0
    BY <1>1, <2>3 DEF Made
  <2>6. k = "words" => \A w \in WordsOf(op.pub) : t.words[u][w].pub = op.pub
    BY <1>1, <2>3 DEF Made
  <2>7. (k = "metadata" => t.meta[u].pub = op.pub) /\ (k = "outlinks" => t.links[u].pub = op.pub)
    <3>1. k = "metadata" => s.meta[u].pub = op.pub
      BY DEF Made
    <3>2. k = "outlinks" => s.links[u].pub = op.pub
      BY DEF Made
    <3>3. k = "metadata" => t.meta[u].pub = op.pub
      BY ZenonT(60), <1>1, <2>2, <3>1
    <3>4. k = "outlinks" => t.links[u].pub = op.pub
      BY ZenonT(60), <1>1, <2>2, <3>2
    <3> QED
      BY <3>3, <3>4
  <2>8. k \notin {"no words", "no metadata", "no outlinks"}
    BY <1>2 DEF Writing
  <2> QED
    BY <2>4, <2>5, <2>6, <2>7, <2>8 DEF Made
<1>3. CASE op.call \in Removing /\ k \in Removing
  <2>1. op.call \in {"artifact", "no words", "no metadata", "no outlinks"}
    BY <1>3 DEF Removing
  <2>2. /\ t.artifact[u] \in {s.artifact[u], UpsertDoc(s.artifact[u], op)}
        /\ t.meta[u] \in {s.meta[u], DeleteDoc(s.meta[u], op)}
        /\ t.links[u] \in {s.links[u], DeleteDoc(s.links[u], op)}
        /\ \A w \in Word : t.words[u][w] \in {s.words[u][w], DeleteDoc(s.words[u][w], op)}
    BY <2>1 DEF CallEffect, Elsewhere
  <2>3. k = "no words" => \A w \in Word : t.words[u][w].pub = 0
    BY <1>1, <2>2 DEF Made
  <2>4. (k = "no metadata" => t.meta[u].pub = 0) /\ (k = "no outlinks" => t.links[u].pub = 0)
    <3>1. k = "no metadata" => s.meta[u].pub = 0
      BY DEF Made
    <3>2. k = "no outlinks" => s.links[u].pub = 0
      BY DEF Made
    <3>3. k = "no metadata" => t.meta[u].pub = 0
      BY ZenonT(60), <1>1, <2>2, <3>1
    <3>4. k = "no outlinks" => t.links[u].pub = 0
      BY ZenonT(60), <1>1, <2>2, <3>2
    <3> QED
      BY <3>3, <3>4
  <2>5. k = "artifact" => t.artifact[u].pub = op.pub
    BY <1>1, <2>2 DEF Made
  <2>6. k \notin {"stale", "words", "metadata", "outlinks"}
    BY <1>3 DEF Removing
  <2> QED
    BY <2>3, <2>4, <2>5, <2>6 DEF Made
<1> QED
  BY <1>2, <1>3

\* The traces of a whole plan are the state that the publication asks for.
LEMMA AllMade ==
    ASSUME NEW v, Kind(v) \in Readable, WordsOf(v) \subseteq Word,
           \A k \in CallNames : Contains(Calls(v), k) => Made(store, k, v)
    PROVE  IsState(UrlOf(v), v)
<1> DEFINE u == UrlOf(v)
<1>1. Writing \cup Removing \subseteq CallNames
  BY DEF Writing, Removing, CallNames
<1>2. Rendered(v) => store.artifact[u].pub = v
  <2> SUFFICES ASSUME Rendered(v)
               PROVE  store.artifact[u].pub = v
    OBVIOUS
  <2>1. Made(store, "artifact", v)
    BY <1>1, PlanCalls DEF Writing
  <2> QED
    BY <2>1 DEF Made
<1>3. CASE ~Indexable(v)
  <2>1. Made(store, "no words", v) /\ Made(store, "no metadata", v) /\ Made(store, "no outlinks", v)
    <3>1. \A k \in {"no words", "no metadata", "no outlinks"} :
             k \in CallNames /\ Contains(Calls(v), k)
      BY <1>1, <1>3, PlanCalls DEF Removing
    <3> QED
      BY <3>1
  <2>2. /\ \A w \in Word : store.words[u][w].pub = 0
        /\ store.meta[u].pub = 0 /\ store.links[u].pub = 0
    BY <2>1 DEF Made
  <2> QED
    BY <1>2, <1>3, <2>2 DEF IsState
<1>4. CASE Indexable(v)
  <2>1. Made(store, "stale", v) /\ Made(store, "metadata", v) /\ Made(store, "outlinks", v)
    BY <1>1, <1>4, PlanCalls DEF Writing
  <2>2. /\ \A w \in Word \ WordsOf(v) : store.words[u][w].pub = 0
        /\ store.meta[u].pub = v /\ store.links[u].pub = v
    BY <2>1 DEF Made
  <2>3. \A w \in WordsOf(v) : store.words[u][w].pub = v
    <3>1. CASE WordsOf(v) = {}
      BY <3>1
    <3>2. CASE WordsOf(v) # {}
      <4>1. Made(store, "words", v)
        BY <1>1, <1>4, <3>2, PlanCalls DEF Writing
      <4> QED
        BY <4>1 DEF Made
    <3> QED
      BY <3>1, <3>2
  <2> QED
    BY <1>2, <1>4, <2>2, <2>3 DEF IsState
<1> QED
  BY <1>3, <1>4

-----------------------------------------------------------------------------
(* The state of the URLs being written, and of those at rest. *)

\* The state of a URL is what its documents say.
LEMMA SameUrlFacts ==
    ASSUME NEW t, NEW u, SameUrl(store, t, u), NEW k, NEW v, UrlOf(v) = u
    PROVE  Made(store, k, v) => Made(t, k, v)
BY DEF SameUrl, Made

\* A write changes the state of its own URL only.
LEMMA PathElsewhere ==
    ASSUME Inv, NEW p \in Proc, Path(p), NEW u \in Url
    PROVE  \/ SameUrl(store, store', u)
           \/ proc[p].pc = "write" /\ u = ClaimUrl(p)
<1>1. CASE store' = store
  BY <1>1 DEF SameUrl
<1>2. CASE proc[p].pc = "write" /\ store' = Apply(store, Call(p))
  <2>1. Call(p) \in WriteOp /\ Call(p).pub = proc[p].claim
    BY <1>2, CallType
  <2> QED
    BY <1>2, <2>1, ApplyDocs DEF Inv, ClaimUrl
<1> QED
  BY <1>1, <1>2 DEF Path, Writes

\* The owner of the last epoch is fenced off from no document.
LEMMA OwnerUnfenced ==
    ASSUME Inv, StampInv, NEW p \in Proc, Owner(p), NEW u \in Url
    PROVE  /\ \A w \in Word : Fenced(store.words[u][w], proc[p].epoch)
           /\ Fenced(store.meta[u], proc[p].epoch) /\ Fenced(store.links[u], proc[p].epoch)
           /\ Fenced(store.artifact[u], proc[p].epoch)
<1>1. proc[p].epoch = epoch
  BY DEF Owner, Queue!Holds
<1>2. \A d \in Docs : d.epoch <= epoch
  BY DEF StampInv, Stamps
<1>3. store.meta[u] \in Docs /\ store.links[u] \in Docs /\ store.artifact[u] \in Docs
  BY DEF Docs
<1>4. \A w \in Word : store.words[u][w] \in Docs
  BY DEF Docs
<1> QED
  BY <1>1, <1>2, <1>3, <1>4 DEF Fenced

\* The plan of a process that goes on.
LEMMA CallDone ==
    ASSUME Inv, StampInv, NewerInv, KindInv, NEW p \in Proc, proc[p].pc = "write",
           store' = Apply(store, Call(p)), OwnerCheck(p),
           \A k \in CallNames : Contains(proc[p].todo, k) => Contains(Calls(proc[p].claim), k)
    PROVE  /\ Made(store', Head(proc[p].todo), proc[p].claim)
           /\ \A k \in CallNames :
                 Contains(Calls(proc[p].claim), k) /\ Made(store, k, proc[p].claim)
                     => Made(store', k, proc[p].claim)
<1> DEFINE op == Call(p)
           u == ClaimUrl(p)
           c == proc[p].claim
<1>1. /\ op \in WriteOp /\ op.pub = c /\ op.epoch = proc[p].epoch
      /\ op.call = Head(proc[p].todo)
      /\ proc[p].todo \in Seq(CallNames) /\ proc[p].todo # <<>>
  BY CallType
<1>2. /\ op.pub \in Nat /\ op.epoch \in Nat /\ op.call \in CallNames
      /\ u = UrlOf(op.pub) /\ u \in Url /\ WordsOf(op.pub) \subseteq Word
      /\ store \in StoreType
  BY <1>1, ApplyTypes DEF Inv, ClaimUrl, TypeOK, MongoOK
<1>3. CallEffect(store, store', u, op)
  BY <1>2, CallEffects
<1>4. /\ \A w \in Word : Fenced(store.words[u][w], op.epoch)
      /\ Fenced(store.meta[u], op.epoch) /\ Fenced(store.links[u], op.epoch)
      /\ Fenced(store.artifact[u], op.epoch)
  BY <1>1, <1>2, OwnerUnfenced DEF OwnerCheck
<1>5. Contains(Calls(c), op.call)
  <2>1. Contains(proc[p].todo, Head(proc[p].todo))
    <3>1. 1 \in 1..Len(proc[p].todo) /\ Head(proc[p].todo) = proc[p].todo[1]
      BY <1>1
    <3> QED
      BY <3>1 DEF Contains
  <2> QED
    BY <1>1, <1>2, <2>1
<1>6. Kind(c) \in Readable
  BY DEF KindInv
<1> HIDE DEF op, u, c
<1>7. Made(store', op.call, op.pub)
  BY <1>2, <1>3, <1>4, CallMakes
<1>8. ASSUME NEW k \in CallNames, Contains(Calls(c), k), Made(store, k, c)
      PROVE  Made(store', k, c)
  <2>1. (op.call \in Writing /\ k \in Writing) \/ (op.call \in Removing /\ k \in Removing)
    BY <1>5, <1>6, <1>8, PlanCalls
  <2> QED
    BY <1>1, <1>2, <1>3, <1>8, <2>1, CallKeepsMade
<1> QED
  BY <1>1, <1>7, <1>8 DEF c

\* The plans, and the traces they ask for, are the workload's.
LEMMA SamePlans ==
    ASSUME workload' = workload
    PROVE  /\ \A v : Calls(v)' = Calls(v)
           /\ \A k, v : Made(store, k, v)' <=> Made(store', k, v)
<1>1. \A v : UrlOf(v)' = UrlOf(v) /\ Kind(v)' = Kind(v) /\ WordsOf(v)' = WordsOf(v)
  BY DEF UrlOf, Kind, WordsOf
<1>2. \A v : ReplaceSearchState(v)' = ReplaceSearchState(v)
  BY <1>1 DEF ReplaceSearchState
<1>3. \A v : Calls(v)' = Calls(v)
  BY <1>1, <1>2 DEF Calls, RemoveSearchState, Rendered, Indexable
<1>4. ASSUME NEW k, NEW v
      PROVE  Made(store, k, v)' <=> Made(store', k, v)
  BY <1>1 DEF Made
<1> QED
  BY <1>3, <1>4

\* The steps of the processes keep the plans and their traces.
LEMMA ProcessMade ==
    ASSUME Inv, StampInv, NewerInv, KindInv, MadeInv, NEW p \in Proc, Path(p)
    PROVE  MadeInv'
<1>1. /\ Goes(p) /\ Writes(p) /\ workload' = workload
      /\ \A q \in Proc \ {p} : proc'[q] = proc[q]
  BY DEF Path
<1>2. (\A v : Calls(v)' = Calls(v)) /\ (\A k, v : Made(store, k, v)' <=> Made(store', k, v))
  BY <1>1, SamePlans
<1> DEFINE Kept(q) ==
              /\ proc'[q].pc = "finish" => proc'[q].todo = <<>>
              /\ \A k \in CallNames :
                    Contains(proc'[q].todo, k) => Contains(Calls(proc'[q].claim), k)
              /\ \A k \in CallNames : Contains(Calls(proc'[q].claim), k) =>
                    Contains(proc'[q].todo, k) \/ Made(store', k, proc'[q].claim)
<1> SUFFICES ASSUME ~workload.late, NEW q \in Proc, proc'[q].pc \in {"write", "finish"}
             PROVE  Kept(q)
  BY <1>1, <1>2 DEF MadeInv
<1>3. ASSUME proc[q].pc \in {"write", "finish"}
      PROVE  /\ proc[q].pc = "finish" => proc[q].todo = <<>>
             /\ \A k \in CallNames : Contains(proc[q].todo, k) => Contains(Calls(proc[q].claim), k)
             /\ \A k \in CallNames : Contains(Calls(proc[q].claim), k) =>
                   Contains(proc[q].todo, k) \/ Made(store, k, proc[q].claim)
             /\ ClaimUrl(q) \in Url
  BY <1>3, HandledOpen DEF MadeInv, Handling
<1>4. CASE q # p
  <2>1. proc'[q] = proc[q] /\ proc[q].pc \in {"write", "finish"}
    BY <1>1, <1>4
  <2>2. SameUrl(store, store', ClaimUrl(q))
    <3>1. proc[p].pc = "write" => ClaimUrl(p) # ClaimUrl(q)
      BY <1>4, <2>1, OneHandler DEF Handling
    <3> QED
      BY <1>3, <2>1, <3>1, PathElsewhere
  <2>3. \A k : Made(store, k, proc[q].claim) => Made(store', k, proc[q].claim)
    BY <2>2, SameUrlFacts DEF ClaimUrl
  <2> QED
    BY <1>3, <2>1, <2>3
<1>5. CASE q = p
  <2>1. CASE Same(p) /\ proc'[p].pc = proc[p].pc /\ proc'[p].todo = proc[p].todo /\ store' = store
    BY <1>3, <1>5, <2>1 DEF Same
  <2>2. CASE /\ Same(p) /\ proc'[p].pc = "write" /\ proc'[p].todo = Calls(proc[p].claim)
    BY <1>5, <2>2 DEF Same
  <2>3. CASE /\ Same(p) /\ proc[p].pc = "write"
             /\ proc'[p].todo = Tail(proc[p].todo)
             /\ proc'[p].pc = "finish" => proc'[p].todo = <<>>
             /\ store' = Apply(store, Call(p)) /\ OwnerCheck(p)
    <3>1. /\ \A k \in CallNames : Contains(proc[p].todo, k) => Contains(Calls(proc[p].claim), k)
          /\ \A k \in CallNames : Contains(Calls(proc[p].claim), k) =>
                 Contains(proc[p].todo, k) \/ Made(store, k, proc[p].claim)
      BY <1>3, <1>5, <2>3
    <3>2. /\ Made(store', Head(proc[p].todo), proc[p].claim)
          /\ \A k \in CallNames :
                Contains(Calls(proc[p].claim), k) /\ Made(store, k, proc[p].claim)
                    => Made(store', k, proc[p].claim)
      BY <2>3, <3>1, CallDone
    <3>3. \A k : Contains(proc[p].todo, k) <=>
                    k = Head(proc[p].todo) \/ Contains(Tail(proc[p].todo), k)
      <4>1. proc[p].todo \in Seq(CallNames) /\ proc[p].todo # <<>>
        BY <2>3, CallType
      <4> QED
        BY <4>1, HeadAndTail
    <3> QED
      BY <1>5, <2>3, <3>1, <3>2, <3>3 DEF Same
  <2> QED
    BY <1>1, <1>5, <2>1, <2>2, <2>3 DEF Goes, AtWork
<1> QED
  BY <1>4, <1>5

\* What waits has not been handed on.
LEMMA WaitingOpen ==
    ASSUME Inv, NEW u, Awaited(u)
    PROVE  \E x \in 1..published : UrlOf(x) = u /\ Kind(x) \notin Bad /\ x \notin done
<1>1. PICK x \in 1..published : Waits(x) /\ UrlOf(x) = u /\ Kind(x) \notin Bad
  BY DEF Awaited
<1>2. \/ \E i \in 1..Len(queue) : queue[i] = x
      \/ \E i \in 1..Len(processing) : processing[i] = x
  BY <1>1, WaitingNumbers DEF Inv
<1>3. x \in Nat /\ ~(x < x)
  BY ListNumbers DEF Inv, TypeOK
<1>4. x \notin done
  BY <1>2, <1>3 DEF Inv, ListInv, LineInv
<1> QED
  BY <1>1, <1>4

\* A publication that can be handed on and has not been is awaited.
LEMMA OpenAwaited ==
    ASSUME ListInv', workload' = workload, published' \in Nat,
           NEW x \in 1..published', Kind(x) \notin Bad, x \notin done', NEW u, UrlOf(x) = u
    PROVE  Awaited(u)'
<1>1. Waits(x)'
  BY WaitsUntilDone
<1>2. UrlOf(x)' = UrlOf(x) /\ Kind(x)' = Kind(x)
  BY DEF UrlOf, Kind
<1> QED
  BY <1>1, <1>2 DEF Awaited

\* The state of a URL that no step has touched.
LEMMA SameState ==
    ASSUME workload' = workload, NEW u, SameUrl(store, store', u), NEW v, IsState(u, v)
    PROVE  IsState(u, v)'
<1>1. Kind(v)' = Kind(v) /\ WordsOf(v)' = WordsOf(v)
  BY DEF Kind, WordsOf
<1>2. Indexable(v)' = Indexable(v) /\ Rendered(v)' = Rendered(v)
  BY <1>1 DEF Indexable, Rendered
<1> QED
  BY <1>1, <1>2 DEF IsState, SameUrl

\* A publication that is handed on has left its whole state.
LEMMA FinishedWhole ==
    ASSUME Inv, NewerInv, KindInv, MadeInv, ~workload.late, NEW p \in Proc, proc[p].pc = "finish"
    PROVE  IsState(ClaimUrl(p), proc[p].claim)
<1>1. /\ proc[p].todo = <<>>
      /\ \A k \in CallNames : Contains(Calls(proc[p].claim), k) =>
            Contains(proc[p].todo, k) \/ Made(store, k, proc[p].claim)
  BY DEF MadeInv
<1>2. \A k : ~Contains(proc[p].todo, k)
  BY ZenonT(60), <1>1, WrittenOut
<1>3. Kind(proc[p].claim) \in Readable /\ WordsOf(proc[p].claim) \subseteq Word
  BY HandledOpen DEF KindInv, Handling
<1>4. \A k \in CallNames : Contains(Calls(proc[p].claim), k) => Made(store, k, proc[p].claim)
  BY <1>1, <1>2
<1> QED
  BY <1>3, <1>4, AllMade DEF ClaimUrl

\* The steps of the processes leave the URLs whole, or awaited.
LEMMA ProcessWhole ==
    ASSUME Inv, Inv', NewerInv, KindInv, MadeInv, WholeInv, NEW p \in Proc, Path(p)
    PROVE  WholeInv'
<1>1. /\ Writes(p) /\ Settles(p) /\ workload' = workload /\ published' = published
  BY DEF Path
<1>2. \A v : UrlOf(v)' = UrlOf(v)
  BY <1>1 DEF UrlOf
<1>3. ListInv' /\ published \in Nat /\ published' \in Nat
  BY <1>1, ListNumbers DEF Inv, TypeOK
<1> DEFINE c == proc[p].claim
<1> SUFFICES ASSUME ~workload.late, NEW u \in Url, NEW v \in LastDone(u)'
             PROVE  IsState(u, v)' \/ Awaited(u)'
  BY <1>1 DEF WholeInv
<1>4. v \in done' /\ UrlOf(v) = u /\ \A x \in done' : UrlOf(x) = u => x <= v
  BY <1>2 DEF LastDone
<1>5. ASSUME v \in LastDone(u), SameUrl(store, store', u),
             \A x \in done' : x \in done \/ UrlOf(x) # u
      PROVE  IsState(u, v)' \/ Awaited(u)'
  <2>1. CASE IsState(u, v)
    BY <1>1, <1>5, <2>1, SameState
  <2>2. CASE Awaited(u)
    <3>1. PICK x \in 1..published : UrlOf(x) = u /\ Kind(x) \notin Bad /\ x \notin done
      BY <2>2, WaitingOpen
    <3>2. x \in 1..published' /\ x \notin done'
      BY <1>1, <1>5, <3>1
    <3> QED
      BY <1>1, <1>3, <3>1, <3>2, OpenAwaited
  <2> QED
    BY <1>5, <2>1, <2>2 DEF WholeInv
<1>6. CASE done' = done
  <2>1. v \in LastDone(u)
    BY <1>4, <1>6 DEF LastDone
  <2>2. CASE SameUrl(store, store', u)
    BY <1>5, <1>6, <2>1, <2>2
  <2>3. CASE proc[p].pc = "write" /\ u = ClaimUrl(p)
    <3>1. /\ c \in 1..published' /\ c \notin done' /\ UrlOf(c) = u
      BY <1>1, <1>6, <2>3, HandledOpen DEF Handling, ClaimUrl
    <3>2. Kind(c) \notin Bad
      BY <2>3 DEF KindInv, Bad, Readable
    <3>3. PICK x \in 1..published' : x \notin done' /\ UrlOf(x) = u /\ Kind(x) \notin Bad
      BY <3>1, <3>2
    <3> QED
      BY <1>1, <1>3, <3>3, OpenAwaited
  <2> QED
    BY <2>2, <2>3, PathElsewhere
<1>7. CASE proc[p].pc = "finish" /\ done' = done \cup {c}
  <2>1. store' = store /\ SameUrl(store, store', u)
    BY <1>1, <1>7 DEF Writes, SameUrl
  <2>2. CASE UrlOf(c) # u
    <3>1. v \in LastDone(u)
      BY <1>4, <1>7, <2>2 DEF LastDone
    <3> QED
      BY <1>5, <1>7, <2>1, <2>2, <3>1
  <2>3. CASE UrlOf(c) = u
    <3>1. c \in Nat /\ \A x \in done : UrlOf(x) = u => x < c
      BY <1>7, <2>3, HandledOpen DEF NewerInv, ClaimUrl, Handling
    <3>2. c <= v /\ v \in Nat
      <4>1. v \in 1..published'
        BY <1>4 DEF Inv, TypeOK
      <4>2. c \in done' /\ UrlOf(c) = u
        BY <1>7, <2>3
      <4>3. c <= v
        BY <1>4, <4>2
      <4> QED
        BY <1>3, <4>1, <4>3
    <3>3. v = c
      <4>1. v \in done => v < c
        BY <1>4, <3>1
      <4>2. ~(v < c)
        BY <3>1, <3>2
      <4> QED
        BY <1>4, <1>7, <4>1, <4>2
    <3>4. IsState(u, v)
      BY <1>7, <2>3, <3>3, FinishedWhole DEF ClaimUrl
    <3> QED
      BY <1>1, <2>1, <3>4, SameState
  <2> QED
    BY <2>2, <2>3
<1> QED
  BY <1>1, <1>6, <1>7 DEF Settles

-----------------------------------------------------------------------------
(* The searchable state in every behaviour. *)

\* Steps that neither write nor hand on keep what is said of the claims and of
\* the URLs.
LEMMA BystanderKeeps ==
    ASSUME Inv, Inv', NewerInv, KindInv, PromptInv, MadeInv, WholeInv,
           UNCHANGED <<store, late, proc, workload, done>>, published <= published'
    PROVE  NewerInv' /\ KindInv' /\ PromptInv' /\ MadeInv' /\ WholeInv'
<1>1. NewerInv'
  BY DEF NewerInv, ClaimUrl, UrlOf
<1>2. KindInv' /\ PromptInv'
  BY DEF KindInv, Kind, PromptInv
<1>3. MadeInv'
  <2>1. (\A v : Calls(v)' = Calls(v)) /\ (\A k, v : Made(store, k, v)' <=> Made(store', k, v))
    BY SamePlans
  <2>2. \A k, v : Made(store', k, v) <=> Made(store, k, v)
    OBVIOUS
  <2> QED
    BY <2>1, <2>2 DEF MadeInv
<1>4. WholeInv'
  <2> SUFFICES ASSUME ~workload.late, NEW u \in Url, NEW v \in LastDone(u)'
               PROVE  IsState(u, v)' \/ Awaited(u)'
    BY DEF WholeInv
  <2>1. v \in LastDone(u)
    BY DEF LastDone, UrlOf
  <2>2. CASE IsState(u, v)
    <3>1. SameUrl(store, store', u)
      BY DEF SameUrl
    <3> QED
      BY <2>2, <3>1, SameState
  <2>3. CASE Awaited(u)
    <3>1. PICK x \in 1..published : UrlOf(x) = u /\ Kind(x) \notin Bad /\ x \notin done
      BY <2>3, WaitingOpen
    <3>2. published \in Nat /\ published' \in Nat /\ ListInv'
      BY ListNumbers DEF Inv, TypeOK
    <3>3. x \in 1..published' /\ x \notin done'
      BY <3>1, <3>2
    <3> QED
      BY <3>1, <3>2, <3>3, OpenAwaited
  <2> QED
    BY <2>1, <2>2, <2>3 DEF WholeInv
<1> QED
  BY <1>1, <1>2, <1>3, <1>4

\* A write lands late only in a workload that has late writes.
LEMMA LandingKeepsState ==
    ASSUME NewerInv, KindInv, PromptInv, NEW op \in late, WriteLands(op)
    PROVE  NewerInv' /\ KindInv' /\ PromptInv' /\ MadeInv' /\ WholeInv'
<1>1. UNCHANGED <<proc, workload, done>> /\ workload.late
  BY DEF WriteLands, queueVars, envVars, PromptInv
<1>2. NewerInv' /\ KindInv'
  BY <1>1 DEF NewerInv, ClaimUrl, UrlOf, KindInv, Kind
<1> QED
  BY <1>1, <1>2 DEF PromptInv, MadeInv, WholeInv

\* At the start there is no document, no claim and no publication.
LEMMA StateInvInit == Init => StateInv
<1> SUFFICES ASSUME Init
             PROVE  StateInv
  OBVIOUS
<1>1. Inv
  BY InvInit
<1>2. /\ proc = [p \in Proc |-> Stopped] /\ late = {} /\ done = {} /\ epoch = 0
      /\ published = 0 /\ 1..published = {}
  BY DEF Init, Queue!QueueInit
<1>3. \A p \in Proc : proc[p].pc = "down"
  BY <1>2 DEF Stopped
<1>4. Stamps \subseteq {NoDoc} /\ Pending = {}
  <2>1. Pending = {}
    BY <1>2, <1>3 DEF Pending, Working, AtWork
  <2>2. Docs \subseteq {NoDoc}
    BY DEF Init, Docs
  <2> QED
    BY <2>1, <2>2 DEF Stamps
<1>5. StampInv
  <2>1. NoDoc \in Doc /\ NoDoc.epoch = 0 /\ NoDoc.pub = 0
    BY DEF NoDoc, Doc
  <2> QED
    BY <1>2, <1>4, <2>1 DEF StampInv
<1>6. NewerInv /\ KindInv /\ PromptInv /\ MadeInv
  BY <1>2, <1>3 DEF NewerInv, KindInv, PromptInv, MadeInv, Handling
<1>7. WholeInv
  BY <1>2 DEF WholeInv, LastDone
<1> QED
  BY <1>1, <1>5, <1>6, <1>7 DEF StateInv

\* Every step keeps the invariant of the searchable state.
LEMMA StateInvNext ==
    ASSUME StateInv, [Next]_vars
    PROVE  StateInv'
<1>1. /\ Inv /\ StampInv /\ NewerInv /\ KindInv /\ PromptInv /\ MadeInv /\ WholeInv
  BY DEF StateInv
<1>2. Inv'
  BY <1>1, InvNext
<1>3. ASSUME NEW p \in Proc, Start(p) \/ Terminate(p) \/ Crash(p) \/ RunIndexer(p)
      PROVE  StateInv'
  <2>1. Path(p)
    BY <1>1, <1>3, ProcessPath
  <2>2. StampInv' /\ NewerInv' /\ KindInv' /\ PromptInv'
    BY <1>1, <1>2, <2>1, ProcessStamps, ProcessNewer, ProcessKinds, ProcessPrompt
  <2>3. MadeInv' /\ WholeInv'
    BY <1>1, <1>2, <2>1, ProcessMade, ProcessWhole
  <2> QED
    BY <1>2, <2>2, <2>3 DEF StateInv
<1>4. ASSUME UNCHANGED <<store, late, proc, workload, done>>, published <= published', StampInv'
      PROVE  StateInv'
  BY <1>1, <1>2, <1>4, BystanderKeeps DEF StateInv
<1>5. CASE Publish \/ LockExpires \/ \E u \in Url : OperatorClears(u)
  <2>1. UNCHANGED <<store, late, proc, workload, done>>
    BY <1>5 DEF Publish, LockExpires, OperatorClears, mongoVars, queueVars, envVars,
                Queue!Push, Queue!LockExpires, Queue!listVars
  <2>2. published \in Nat /\ published' \in {published, published + 1}
    BY <1>1, <1>5, ListNumbers DEF Inv, TypeOK, Publish, LockExpires, OperatorClears, envVars
  <2>3. StampInv'
    BY <1>1, <1>2, <1>5, OutsideStamps
  <2> QED
    BY <1>4, <2>1, <2>2, <2>3
<1>6. ASSUME NEW op \in late, WriteLands(op)
      PROVE  StateInv'
  BY <1>1, <1>2, <1>6, LandingStamps, LandingKeepsState DEF StateInv
<1>7. CASE UNCHANGED vars
  <2>1. UNCHANGED <<store, late, proc, workload, done, published, queue, processing, epoch>>
    BY <1>7 DEF vars, mongoVars, queueVars, envVars
  <2>2. published <= published'
    BY <1>1, <2>1, ListNumbers DEF Inv, TypeOK
  <2>3. StampInv'
    BY <1>1, <2>1 DEF StampInv, Stamps, Docs, Pending, Working, Waits
  <2> QED
    BY <1>4, <2>1, <2>2, <2>3
<1> QED
  BY <1>3, <1>5, <1>6, <1>7 DEF Next

\* The inductive invariant of the searchable state.
THEOREM StateInvHolds == Spec => []StateInv
  BY StateInvInit, StateInvNext, PTL DEF Spec

\* A write that is pending is of no older publication than what it may change.
LEMMA WriteForward ==
    ASSUME StampInv, NEW op, Stamp(op.pub, op.epoch) \in Pending, AllDocStep(store, store', op)
    PROVE  NeverBackwards
<1>1. ASSUME NEW d \in Docs, NEW n, DocStep(d, n, op)
      PROVE  n.pub = 0 \/ n.pub >= d.pub
  <2>1. d \in Doc /\ Follows(d, Stamp(op.pub, op.epoch)) /\ Stamp(op.pub, op.epoch) \in Doc
    BY DEF StampInv, Stamps
  <2>2. d.pub \in Nat /\ d.epoch \in Nat /\ op.pub \in Nat /\ op.epoch \in Nat
    BY <2>1 DEF Doc, Stamp
  <2>3. CASE n = d
    BY <2>2, <2>3
  <2>4. CASE n = NoDoc
    BY <2>4 DEF NoDoc
  <2>5. CASE d.epoch <= op.epoch /\ n = Stamp(op.pub, op.epoch)
    BY <2>1, <2>2, <2>5 DEF Follows, Stamp
  <2> QED
    BY <1>1, <2>3, <2>4, <2>5 DEF DocStep
<1>2. \A u \in Url : store.meta[u] \in Docs /\ store.links[u] \in Docs
  BY DEF Docs
<1>3. \A u \in Url : \A w \in Word : store.words[u][w] \in Docs
  BY DEF Docs
<1>4. \A u \in Url : store'.meta[u].pub = 0 \/ store'.meta[u].pub >= store.meta[u].pub
  BY <1>1, <1>2 DEF AllDocStep
<1>5. \A u \in Url : store'.links[u].pub = 0 \/ store'.links[u].pub >= store.links[u].pub
  BY <1>1, <1>2 DEF AllDocStep
<1>6. \A u \in Url : \A w \in Word :
         store'.words[u][w].pub = 0 \/ store'.words[u][w].pub >= store.words[u][w].pub
  BY <1>1, <1>3 DEF AllDocStep
<1> QED
  BY <1>4, <1>5, <1>6 DEF NeverBackwards

\* A step that writes nothing takes nothing back.
LEMMA RestForward ==
    ASSUME StampInv, store' = store
    PROVE  NeverBackwards /\ NoWorkAfterHandOn
<1>1. \A d \in Docs : d.pub >= d.pub
  <2>1. \A d \in Docs : d.pub \in Nat
    BY DEF StampInv, Stamps, Doc
  <2> QED
    BY <2>1
<1>2. \A u \in Url : store.meta[u] \in Docs /\ store.links[u] \in Docs
  BY DEF Docs
<1>3. \A u \in Url : \A w \in Word : store.words[u][w] \in Docs
  BY DEF Docs
<1>4. NeverBackwards
  BY <1>1, <1>2, <1>3 DEF NeverBackwards
<1>5. NoWorkAfterHandOn
  BY DEF NoWorkAfterHandOn
<1> QED
  BY <1>4, <1>5

\* A process changes the state of a URL only for a publication that is newer
\* than what was handed on.
LEMMA ProcessForward ==
    ASSUME StateInv, NEW p \in Proc, Path(p)
    PROVE  NeverBackwards /\ NoWorkAfterHandOn
<1>1. Inv /\ StampInv /\ NewerInv
  BY DEF StateInv
<1>2. CASE store' = store
  BY <1>1, <1>2, RestForward
<1>3. CASE proc[p].pc = "write" /\ store' = Apply(store, Call(p))
  <2>1. Call(p) \in WriteOp /\ Call(p).pub = proc[p].claim /\ Call(p).epoch = proc[p].epoch
    BY <1>1, <1>3, CallType
  <2>2. Stamp(Call(p).pub, Call(p).epoch) \in Pending
    BY <1>3, <2>1 DEF Pending, Working, AtWork
  <2>3. AllDocStep(store, store', Call(p))
    BY <1>1, <1>3, <2>1, ApplyDocs DEF Inv
  <2>4. NeverBackwards
    BY <1>1, <2>2, <2>3, WriteForward
  <2>5. ASSUME NEW u \in Url, NEW v \in LastDone(u)
        PROVE  \/ <<store.words[u], store.meta[u], store.links[u]>>'
                     = <<store.words[u], store.meta[u], store.links[u]>>
               \/ \E q \in Proc : proc[q].claim > v /\ ClaimUrl(q) = u
    <3>1. CASE SameUrl(store, store', u)
      BY <3>1 DEF SameUrl
    <3>2. CASE u = ClaimUrl(p)
      <4>1. v \in done /\ UrlOf(v) = u
        BY DEF LastDone
      <4>2. v < proc[p].claim
        BY <1>1, <1>3, <3>2, <4>1 DEF NewerInv, Handling
      <4>3. v \in Nat /\ proc[p].claim \in Nat
        BY <1>1, <1>3, <4>1, ListNumbers, HandledOpen DEF Inv, TypeOK, Handling
      <4>4. proc[p].claim > v
        BY <4>2, <4>3
      <4> QED
        BY <3>2, <4>4
    <3> QED
      BY <1>1, <3>1, <3>2, PathElsewhere
  <2> QED
    BY <2>4, <2>5 DEF NoWorkAfterHandOn
<1> QED
  BY <1>2, <1>3 DEF Path, Writes

\* Every step moves the searchable state forward.
LEMMA StepForward ==
    ASSUME StateInv, [Next]_vars
    PROVE  [NeverBackwards /\ (workload.late \/ NoWorkAfterHandOn)]_vars
<1>1. Inv /\ StampInv /\ PromptInv
  BY DEF StateInv
<1>2. ASSUME NEW p \in Proc, Start(p) \/ Terminate(p) \/ Crash(p) \/ RunIndexer(p)
      PROVE  NeverBackwards /\ NoWorkAfterHandOn
  BY <1>1, <1>2, ProcessPath, ProcessForward
<1>3. CASE Publish \/ LockExpires \/ \E u \in Url : OperatorClears(u)
  <2>1. store' = store
    BY <1>3 DEF Publish, LockExpires, OperatorClears, mongoVars
  <2> QED
    BY <1>1, <2>1, RestForward
<1>4. ASSUME NEW op \in late, WriteLands(op)
      PROVE  NeverBackwards /\ workload.late
  <2>1. op \in WriteOp
    BY <1>1 DEF Inv, TypeOK, MongoOK
  <2>2. AllDocStep(store, store', op)
    BY <1>1, <1>4, <2>1, ApplyDocs DEF Inv, WriteLands
  <2>3. Stamp(op.pub, op.epoch) \in Pending
    BY DEF Pending
  <2>4. workload.late
    BY <1>1 DEF PromptInv
  <2> QED
    BY <1>1, <2>2, <2>3, <2>4, WriteForward
<1> QED
  BY <1>2, <1>3, <1>4 DEF Next

\* Postings, metadata and outlinks of a URL never return to an older
\* publication, and what was handed on is only changed for a newer one
\* (fenced_filter and owner_check of the page indexer).
THEOREM StateAlwaysMovesForward == Spec => StateMovesForward
<1>1. StateInv /\ [Next]_vars => [NeverBackwards /\ (workload.late \/ NoWorkAfterHandOn)]_vars
  BY StepForward
<1> QED
  BY <1>1, StateInvHolds, PTL DEF Spec, StateMovesForward

\* A URL of which nothing waits is not awaited.
LEMMA InvSettled == StateInv => SettledStateIsWhole
<1> SUFFICES ASSUME StateInv, ~workload.late, NEW u \in Url, Settled(u), NEW v \in LastDone(u)
             PROVE  IsState(u, v)
  BY DEF SettledStateIsWhole
<1>1. ASSUME NEW x \in 1..published, Waits(x), UrlOf(x) = u
      PROVE  FALSE
  <2>1. queue \in Seq(1..published) /\ processing \in Seq(1..published)
    BY DEF StateInv, Inv, TypeOK
  <2>2. Contains(queue \o processing, x)
    BY <1>1, <2>1, JoinContains DEF Waits
  <2> QED
    BY <1>1, <2>2 DEF Settled
<1>2. ~Awaited(u)
  BY <1>1 DEF Awaited
<1> QED
  BY <1>2 DEF StateInv, WholeInv

\* When nothing of a URL waits, its searchable state is the whole state of the
\* last publication handed on (replace_search_state and remove_search_state,
\* call by call, with owner_check after each).
THEOREM SettledStateStaysWhole == Spec => []SettledStateIsWhole
  BY StateInvHolds, InvSettled, PTL
=============================================================================

---------------------------- MODULE SeedingProofs ----------------------------
(***************************************************************************)
(* Proofs about the crawl queue, and about the queue and the seed catalog  *)
(* as one specification.                                                   *)
(*                                                                         *)
(* A feed writes what it read before: the ids to remove and to add, with   *)
(* their scores.  What it has still to do is compared with the catalog     *)
(* only for the records that nothing has touched since the feed began; of  *)
(* the others nothing is claimed until the next feed.                      *)
(***************************************************************************)
EXTENDS Seeding, SeedCatalogProofs

MaybeNat == Nat \cup {-1}

WorkerRecord == [pc : {"idle", "inspected", "crawl", "push"}, id : Nat, score : Nat,
                 depth : Nat, link : Nat, linkScore : Nat]

RedisTypes ==
    /\ queue \in [QueueId -> MaybeNat]
    /\ urls \in [QueueId -> {"none", "own", "other"}]
    /\ depths \in [QueueId -> MaybeNat]

QueueTypes ==
    /\ records \in [QueueId -> [enabled : BOOLEAN, priority : 1..3]]
    /\ worker \in [Worker -> WorkerRecord]
    /\ \A w \in Worker : /\ worker[w].pc # "idle" => worker[w].id \in QueueId
                         /\ worker[w].pc = "push" => worker[w].link \in QueueId
    /\ since \in SUBSET QueueId

\* What a feed has still to do is of valid records, each with the score it had
\* in the catalog if nothing has touched it since.
TodoOK ==
    /\ feed \in [pc : {"off", "disabled", "remove", "enabled", "enqueue", "done", "failed"},
                 todo : Seq([id : QueueId \ Invalid] \cup [id : QueueId \ Invalid, score : Nat])]
    /\ feed.pc = "remove" => feed.todo \in Seq([id : QueueId \ Invalid])
    /\ feed.pc = "enqueue" =>
          /\ feed.todo \in Seq([id : QueueId \ Invalid, score : Nat])
          /\ \A k \in 1..Len(feed.todo) :
                feed.todo[k].id \notin since => feed.todo[k].score = Queue!Score(feed.todo[k].id)

On   == {u \in QueueId : records[u].enabled}
Todo == Queue!Ids(feed.todo)

\* The valid records that nobody has touched since the feed began.
Quiet == QueueId \ (since \cup Invalid)

\* A disabled record is gone, or is still to be removed, and is not added.
RemovedInv ==
    \A u \in Quiet \ On :
        /\ feed.pc = "remove" => u \in Todo \/ u \notin Queue!Queued
        /\ feed.pc \in {"enabled", "enqueue", "done"} => u \notin Queue!Queued
        /\ feed.pc = "enqueue" => u \notin Todo

\* The limit leaves none of the enabled records out.
Room == FeedLimit = 0 \/ Cardinality(since \cup On) <= FeedLimit

Fed(u) == u \in Queue!Queued /\ queue[u] <= Queue!Score(u) /\ depths[u] = 0

\* An enabled record is in the queue as the feed puts it, or is still to be added.
AddedInv ==
    Room => \A u \in Quiet \cap On :
                /\ feed.pc = "enqueue" => u \in Todo \/ Fed(u)
                /\ feed.pc = "done" => Fed(u)

QueueInv == /\ RedisTypes /\ QueueTypes /\ TodoOK /\ Queue!NoOrphans
            /\ RemovedInv /\ AddedInv

\* What no step does to the queue.
QueueMoves == Queue!OnlyImproves /\ Queue!ClaimsCurrent /\ Queue!KeepsInvalidOut

-----------------------------------------------------------------------------
(* The scripts of the crawl queue. *)

\* Counting is the same in the queue's module.
LEMMA SameCount ==
    ASSUME NEW S
    PROVE  Queue!Cardinality(S) = Cardinality(S)
BY DEF Queue!Cardinality, Cardinality

\* What adding the ids of S with the members m does: it leaves the others as
\* they are, and the ids of S pend at their score and depth or at better ones.
Improved(S, m) ==
    /\ RedisTypes' /\ Queue!NoOrphans'
    /\ \A u \in QueueId \ S : queue'[u] = queue[u] /\ depths'[u] = depths[u]
    /\ \A u \in S : /\ queue'[u] \in Nat /\ queue'[u] <= m[u].score
                    /\ depths'[u] \in Nat /\ depths'[u] <= m[u].depth
                    /\ queue[u] # -1 => queue'[u] <= queue[u] /\ depths'[u] <= depths[u]

\* The lower of a value that may be lacking and a number.
LEMMA LowerFacts ==
    ASSUME NEW a \in MaybeNat, NEW b \in Nat
    PROVE  /\ Queue!Lower(a, b) \in Nat /\ Queue!Lower(a, b) <= b
           /\ a # -1 => Queue!Lower(a, b) <= a
BY DEF Queue!Lower, Queue!None, MaybeNat

\* The ENQUEUE script.
LEMMA EnqueueFacts ==
    ASSUME RedisTypes, Queue!NoOrphans, NEW S \in SUBSET QueueId, NEW m,
           \A u \in S : m[u].score \in Nat /\ m[u].depth \in Nat,
           Queue!Enqueued(S, m)
    PROVE  Improved(S, m)
<1>1. /\ urls'  = [u \in QueueId |-> IF u \in S THEN "own" ELSE urls[u]]
      /\ queue' = [u \in QueueId |->
                      IF u \in S THEN Queue!Lower(queue[u], m[u].score) ELSE queue[u]]
      /\ depths' = [u \in QueueId |->
             IF u \notin S THEN depths[u]
             ELSE IF queue[u] = -1 THEN m[u].depth ELSE Queue!Lower(depths[u], m[u].depth)]
  BY DEF Queue!Enqueued, Queue!None
<1>2. \A u \in QueueId : queue[u] \in MaybeNat /\ depths[u] \in MaybeNat
                         /\ urls[u] \in {"none", "own", "other"}
  BY DEF RedisTypes
<1>3. \A u \in QueueId : queue[u] # -1 => urls[u] = "own" /\ depths[u] # -1
  BY DEF Queue!NoOrphans, Queue!Queued, Queue!None
<1>4. \A u \in QueueId \ S : queue'[u] = queue[u] /\ depths'[u] = depths[u] /\ urls'[u] = urls[u]
  BY <1>1
<1>5. ASSUME NEW u \in S
      PROVE  /\ queue'[u] \in Nat /\ queue'[u] <= m[u].score
             /\ depths'[u] \in Nat /\ depths'[u] <= m[u].depth
             /\ queue[u] # -1 => queue'[u] <= queue[u] /\ depths'[u] <= depths[u]
             /\ urls'[u] = "own"
  <2> DEFINE a == queue[u]
             b == m[u].score
             c == depths[u]
             d == m[u].depth
  <2>1. a \in MaybeNat /\ b \in Nat /\ c \in MaybeNat /\ d \in Nat /\ (a # -1 => c # -1)
    BY <1>2, <1>3
  <2>2. /\ queue'[u] = Queue!Lower(a, b) /\ urls'[u] = "own"
        /\ depths'[u] = IF a = -1 THEN d ELSE Queue!Lower(c, d)
    BY <1>1
  <2> HIDE DEF a, b, c, d
  <2>3. /\ Queue!Lower(a, b) \in Nat /\ Queue!Lower(a, b) <= b
        /\ a # -1 => Queue!Lower(a, b) <= a
        /\ Queue!Lower(c, d) \in Nat /\ Queue!Lower(c, d) <= d
        /\ c # -1 => Queue!Lower(c, d) <= c
    BY <2>1, LowerFacts
  <2> QED
    BY <2>1, <2>2, <2>3 DEF a, b, c, d
<1>6. RedisTypes'
  <2>1. \A u \in QueueId : queue'[u] \in MaybeNat /\ depths'[u] \in MaybeNat
                           /\ urls'[u] \in {"none", "own", "other"}
    BY <1>2, <1>4, <1>5 DEF MaybeNat
  <2>2. /\ queue' = [u \in QueueId |-> queue'[u]] /\ urls' = [u \in QueueId |-> urls'[u]]
        /\ depths' = [u \in QueueId |-> depths'[u]]
    BY <1>1
  <2> QED
    BY <2>1, <2>2 DEF RedisTypes
<1>7. Queue!NoOrphans'
  <2>1. \A u \in QueueId : queue'[u] # -1 => urls'[u] = "own" /\ depths'[u] # -1
    <3>1. \A n \in Nat : n # -1
      OBVIOUS
    <3> QED
      BY <1>3, <1>4, <1>5, <3>1
  <2> QED
    BY <2>1 DEF Queue!NoOrphans, Queue!Queued, Queue!None
<1> QED
  BY <1>4, <1>5, <1>6, <1>7 DEF Improved

\* The REMOVE_DISABLED script.
LEMMA RemoveFacts ==
    ASSUME RedisTypes, Queue!NoOrphans, NEW S, Queue!Removed(S)
    PROVE  /\ RedisTypes' /\ Queue!NoOrphans'
           /\ \A u \in QueueId : queue'[u] = IF u \in S THEN -1 ELSE queue[u]
           /\ \A u \in QueueId \ S : depths'[u] = depths[u]
<1>1. /\ queue' = [u \in QueueId |-> IF u \in S THEN -1 ELSE queue[u]]
      /\ urls'  = [u \in QueueId |-> IF u \in S THEN "none" ELSE urls[u]]
      /\ depths' = [u \in QueueId |-> IF u \in S THEN -1 ELSE depths[u]]
  BY DEF Queue!Removed, Queue!None
<1>2. RedisTypes'
  BY <1>1 DEF RedisTypes, MaybeNat
<1>3. Queue!NoOrphans'
  BY <1>1 DEF Queue!NoOrphans, Queue!Queued, Queue!None
<1> QED
  BY <1>1, <1>2, <1>3

-----------------------------------------------------------------------------
(* The feeder's batches. *)

\* The lower of two numbers.
LEMMA MinOfTwo ==
    ASSUME NEW a \in Int, NEW b \in Int
    PROVE  Min({a, b}) = (IF a <= b THEN a ELSE b) /\ Queue!Min({a, b}) = Min({a, b})
<1> DEFINE c == IF a <= b THEN a ELSE b
<1>1. c \in {a, b} /\ \A y \in {a, b} : c <= y
  OBVIOUS
<1>2. \A x \in {a, b} : (\A y \in {a, b} : x <= y) => x = c
  OBVIOUS
<1> HIDE DEF c
<1>3. Min({a, b}) = c
  BY <1>1, <1>2 DEF Min
<1>4. Queue!Min({a, b}) = c
  BY <1>1, <1>2 DEF Queue!Min
<1> QED
  BY <1>3, <1>4 DEF c

\* A sequence cut in two.
LEMMA CutInTwo ==
    ASSUME NEW T, NEW s \in Seq(T), NEW n \in 0..Len(s)
    PROVE  LET a == SubSeq(s, 1, n)
               b == SubSeq(s, n + 1, Len(s))
           IN  /\ a \in Seq(T) /\ b \in Seq(T) /\ Len(a) = n /\ Len(b) = Len(s) - n
               /\ \A k \in 1..n : a[k] = s[k]
               /\ \A k \in 1..(Len(s) - n) : b[k] = s[n + k] /\ n + k \in 1..Len(s)
               /\ \A k \in 1..Len(s) : k \in 1..n \/ k - n \in 1..(Len(s) - n)
<1>1. Len(s) \in Nat /\ n \in Nat /\ n <= Len(s)
  OBVIOUS
<1>2. SubSeq(s, 1, n) \in Seq(T) /\ Len(SubSeq(s, 1, n)) = n
      /\ \A k \in 1..n : SubSeq(s, 1, n)[k] = s[k]
  BY <1>1
<1>3. SubSeq(s, n + 1, Len(s)) \in Seq(T) /\ Len(SubSeq(s, n + 1, Len(s))) = Len(s) - n
      /\ \A k \in 1..(Len(s) - n) : SubSeq(s, n + 1, Len(s))[k] = s[n + k]
  BY <1>1
<1>4. /\ \A k \in 1..(Len(s) - n) : n + k \in 1..Len(s)
      /\ \A k \in 1..Len(s) : k \in 1..n \/ k - n \in 1..(Len(s) - n)
  <2> DEFINE l == Len(s)
  <2> HIDE DEF l
  <2>1. l \in Nat /\ n \in Nat /\ n <= l
    BY <1>1 DEF l
  <2>2. /\ \A k \in 1..(l - n) : n + k \in 1..l
        /\ \A k \in 1..l : k \in 1..n \/ k - n \in 1..(l - n)
    BY <2>1
  <2> QED
    BY <2>2 DEF l
<1> QED
  BY <1>2, <1>3, <1>4

\* The next batch and the rest of what is to do are parts of it, and all of it.
LEMMA BatchAndRest ==
    ASSUME NEW T, feed.todo \in Seq(T), feed.todo # <<>>
    PROVE  /\ Queue!Batch \in Seq(T) /\ Queue!Rest \in Seq(T)
           /\ \A k \in 1..Len(Queue!Batch) : \E j \in 1..Len(feed.todo) :
                  Queue!Batch[k] = feed.todo[j]
           /\ \A k \in 1..Len(Queue!Rest) : \E j \in 1..Len(feed.todo) :
                  Queue!Rest[k] = feed.todo[j]
           /\ Todo = Queue!Ids(Queue!Batch) \cup Queue!Ids(Queue!Rest)
<1> DEFINE s == feed.todo
           l == Len(s)
           n == IF PerFeed <= l THEN PerFeed ELSE l
           a == SubSeq(s, 1, n)
           b == SubSeq(s, n + 1, l)
<1>1. l \in Nat /\ n \in 0..l
  BY QueueAssumption
<1>2. Queue!Min({PerFeed, l}) = n
  <2> HIDE DEF l
  <2>1. PerFeed \in Int /\ l \in Int
    BY <1>1, QueueAssumption
  <2>2. Queue!Min({PerFeed, l}) = IF PerFeed <= l THEN PerFeed ELSE l
    BY <2>1, MinOfTwo
  <2> QED
    BY <2>2
<1>3. Queue!Batch = a
  BY <1>2 DEF Queue!Batch
<1>4. /\ a \in Seq(T) /\ b \in Seq(T) /\ Len(a) = n /\ Len(b) = l - n
      /\ \A k \in 1..n : a[k] = s[k]
      /\ \A k \in 1..(l - n) : b[k] = s[n + k] /\ n + k \in 1..l
      /\ \A k \in 1..l : k \in 1..n \/ k - n \in 1..(l - n)
  <2> HIDE DEF n
  <2> QED
    BY <1>1, CutInTwo
<1>5. Queue!Rest = b
  BY <1>3, <1>4 DEF Queue!Rest
<1> HIDE DEF s, l, n, a, b
<1>6. \A k \in 1..n : k \in 1..l
  BY <1>1
<1>7. \A k \in 1..l : k \notin 1..n => /\ k - n \in 1..(l - n) /\ n + (k - n) = k
  BY <1>1, <1>4
<1>8. Queue!Ids(a) \cup Queue!Ids(b) = Queue!Ids(s)
  <2>1. \A k \in 1..l : \/ k \in 1..n /\ a[k] = s[k]
                        \/ k - n \in 1..(l - n) /\ b[k - n] = s[k]
    BY <1>4, <1>7
  <2>2. /\ Queue!Ids(a) = {a[k].id : k \in 1..n} /\ Queue!Ids(b) = {b[k].id : k \in 1..(l - n)}
        /\ Queue!Ids(s) = {s[k].id : k \in 1..l}
    BY <1>4 DEF Queue!Ids, l
  <2>3. \A k \in 1..n : a[k].id \in Queue!Ids(s)
    BY <1>4, <1>6, <2>2
  <2>4. \A k \in 1..(l - n) : b[k].id \in Queue!Ids(s)
    BY <1>4, <2>2
  <2>5. \A k \in 1..l : s[k].id \in Queue!Ids(a) \cup Queue!Ids(b)
    BY <2>1, <2>2
  <2> QED
    BY <2>2, <2>3, <2>4, <2>5
<1> QED
  BY <1>3, <1>4, <1>5, <1>6, <1>8 DEF Todo, s, l
-----------------------------------------------------------------------------
(* Steps of the operator and of the workers. *)

\* When there is room after a step that only touches what since records, there
\* was room before.
LEMMA RoomBefore ==
    ASSUME since \in SUBSET since', since' \in SUBSET QueueId,
           \A u \in QueueId \ since' : records'[u] = records[u], Room'
    PROVE  Room
<1>1. CASE FeedLimit = 0
  BY <1>1 DEF Room
<1>2. CASE FeedLimit # 0
  <2> DEFINE A == since \cup On
             B == since' \cup On'
  <2>1. A \in SUBSET B /\ B \in SUBSET QueueId
    BY DEF On
  <2>2. IsFiniteSet(B)
    BY <2>1, QueueAssumption, FS_Subset
  <2>3. Cardinality(A) <= Cardinality(B) /\ Cardinality(A) \in Nat /\ Cardinality(B) \in Nat
    <3>1. IsFiniteSet(A) /\ Cardinality(A) <= Cardinality(B)
      BY <2>1, <2>2, FS_Subset
    <3> QED
      BY <2>2, <3>1, FS_CardinalityType
  <2>4. Cardinality(B) <= FeedLimit
    BY <1>2 DEF Room
  <2> HIDE DEF A, B
  <2>5. Cardinality(A) <= FeedLimit
    BY <2>3, <2>4, QueueAssumption
  <2> QED
    BY <2>5 DEF Room, A
<1> QED
  BY <1>1, <1>2

\* A step that leaves the feed and all that since does not record as they are.
LEMMA OutsideKeeps ==
    ASSUME QueueInv, feed' = feed, RedisTypes', Queue!NoOrphans', QueueTypes',
           since \in SUBSET since',
           \A u \in QueueId \ since' : /\ records'[u] = records[u] /\ queue'[u] = queue[u]
                                       /\ depths'[u] = depths[u]
    PROVE  QueueInv'
<1>1. \A u \in QueueId \ since' :
          /\ u \in On' <=> u \in On
          /\ Queue!Score(u)' = Queue!Score(u)
          /\ u \in Queue!Queued' <=> u \in Queue!Queued
          /\ Fed(u)' <=> Fed(u)
  BY DEF On, Queue!Score, Queue!Queued, Fed
<1>2. Todo' = Todo
  BY DEF Todo, Queue!Ids
<1>3. Quiet' \in SUBSET Quiet /\ Quiet' \in SUBSET (QueueId \ since')
  BY DEF Quiet
<1>4. TodoOK'
  <2>1. CASE feed.pc = "enqueue"
    <3>1. /\ feed.todo \in Seq([id : QueueId \ Invalid, score : Nat])
          /\ \A k \in 1..Len(feed.todo) :
                feed.todo[k].id \notin since => feed.todo[k].score = Queue!Score(feed.todo[k].id)
      BY <2>1 DEF QueueInv, TodoOK
    <3>2. \A k \in 1..Len(feed.todo) : feed.todo[k].id \in QueueId
      <4> DEFINE T == [id : QueueId \ Invalid, score : Nat]
      <4>1. feed.todo \in Seq(T)
        BY <3>1
      <4>2. \A k \in 1..Len(feed.todo) : feed.todo[k] \in T
        <5> HIDE DEF T
        <5> QED
          BY <4>1, ElementOfSeq
      <4> QED
        BY <4>2
    <3>3. \A k \in 1..Len(feed.todo) :
              feed.todo[k].id \notin since' => feed.todo[k].score = Queue!Score(feed.todo[k].id)'
      BY <1>1, <3>1, <3>2
    <3> QED
      BY <2>1, <3>1, <3>3 DEF QueueInv, TodoOK
  <2>2. CASE feed.pc # "enqueue"
    BY <2>2 DEF QueueInv, TodoOK
  <2> QED
    BY <2>1, <2>2
<1>5. RemovedInv'
  BY <1>1, <1>2, <1>3 DEF QueueInv, RemovedInv
<1>6. AddedInv'
  <2> SUFFICES ASSUME Room'
               PROVE  \A u \in Quiet' \cap On' :
                          /\ feed.pc = "enqueue" => u \in Todo \/ Fed(u)'
                          /\ feed.pc = "done" => Fed(u)'
    BY <1>2 DEF AddedInv
  <2>1. Room
    <3>1. since' \in SUBSET QueueId
      BY DEF QueueTypes
    <3> QED
      BY <3>1, RoomBefore
  <2> QED
    BY <1>1, <1>3, <2>1 DEF QueueInv, AddedInv
<1> QED
  BY <1>4, <1>5, <1>6 DEF QueueInv

\* The operator's edit.
LEMMA EditKeeps ==
    ASSUME QueueInv, NEW u \in QueueId, Queue!Edit(u)
    PROVE  QueueInv' /\ QueueMoves
<1>1. /\ since' = since \cup {u} /\ UNCHANGED <<queue, urls, depths, feed, worker>>
      /\ \/ records' = [records EXCEPT ![u].enabled = ~@]
         \/ \E p \in 1..3 : records' = [records EXCEPT ![u].priority = p]
  BY DEF Queue!Edit, Queue!redis
<1>2. /\ records' \in [QueueId -> [enabled : BOOLEAN, priority : 1..3]]
      /\ \A x \in QueueId \ {u} : records'[x] = records[x]
  <2> DEFINE T == [enabled : BOOLEAN, priority : 1..3]
  <2>1. records \in [QueueId -> T] /\ records[u] \in T
    BY DEF QueueInv, QueueTypes
  <2>2. CASE records' = [records EXCEPT ![u].enabled = ~@]
    <3> DEFINE r == [records[u] EXCEPT !.enabled = ~@]
    <3>1. r \in T
      BY <2>1
    <3>2. records' = [records EXCEPT ![u] = r]
      BY <2>2
    <3> HIDE DEF T, r
    <3>3. records' \in [QueueId -> T] /\ \A x \in QueueId \ {u} : records'[x] = records[x]
      BY <2>1, <3>1, <3>2
    <3> QED
      BY <3>3 DEF T
  <2>3. ASSUME NEW p \in 1..3, records' = [records EXCEPT ![u].priority = p]
        PROVE  records' \in [QueueId -> T] /\ \A x \in QueueId \ {u} : records'[x] = records[x]
    <3>1. [records[u] EXCEPT !.priority = p] \in T
      BY <2>1
    <3>2. records' = [records EXCEPT ![u] = [records[u] EXCEPT !.priority = p]]
      BY <2>3
    <3> HIDE DEF T
    <3> QED
      BY <2>1, <3>1, <3>2
  <2> QED
    BY <1>1, <2>2, <2>3
<1>3. QueueTypes' /\ RedisTypes' /\ Queue!NoOrphans'
  BY <1>1, <1>2 DEF QueueInv, QueueTypes, RedisTypes, Queue!NoOrphans, Queue!Queued
<1>4. QueueInv'
  BY <1>1, <1>2, <1>3, OutsideKeeps DEF QueueInv
<1>5. QueueMoves
  BY <1>1 DEF QueueInv, RedisTypes, MaybeNat, QueueMoves, Queue!OnlyImproves,
              Queue!ClaimsCurrent, Queue!KeepsInvalidOut
<1> QED
  BY <1>4, <1>5
\* A step of worker w that makes its record r.
LEMMA WorkerKeeps ==
    ASSUME QueueInv, NEW w \in Worker, NEW r \in WorkerRecord,
           r.pc # "idle" => r.id \in QueueId, r.pc = "push" => r.link \in QueueId,
           worker' = [worker EXCEPT ![w] = r], UNCHANGED <<records, feed>>,
           RedisTypes', Queue!NoOrphans',
           since \in SUBSET since', since' \in SUBSET QueueId,
           \A u \in QueueId \ since' : queue'[u] = queue[u] /\ depths'[u] = depths[u],
           worker[w].pc = "inspected" /\ r.pc = "crawl" =>
               /\ queue[worker[w].id] = worker[w].score
               /\ depths[worker[w].id] = worker[w].depth
    PROVE  QueueInv' /\ Queue!ClaimsCurrent
<1>1. worker \in [Worker -> WorkerRecord]
  BY DEF QueueInv, QueueTypes
<1>2. \A x \in Worker : worker'[x] = IF x = w THEN r ELSE worker[x]
  BY <1>1
<1>3. worker' \in [Worker -> WorkerRecord]
  BY <1>1
<1>4. QueueTypes'
  BY <1>2, <1>3 DEF QueueInv, QueueTypes
<1>5. QueueInv'
  BY <1>4, OutsideKeeps DEF QueueInv
<1>6. Queue!ClaimsCurrent
  BY <1>2 DEF Queue!ClaimsCurrent
<1> QED
  BY <1>5, <1>6

\* The fields of a worker that is not idle.
LEMMA WorkerFields ==
    ASSUME QueueInv, NEW w \in Worker
    PROVE  /\ worker[w] \in WorkerRecord
           /\ worker[w].pc \in {"idle", "inspected", "crawl", "push"}
           /\ worker[w].id \in Nat /\ worker[w].score \in Nat /\ worker[w].depth \in Nat
           /\ worker[w].link \in Nat /\ worker[w].linkScore \in Nat
           /\ worker[w].pc # "idle" => worker[w].id \in QueueId
           /\ worker[w].pc = "push" => worker[w].link \in QueueId
           /\ Queue!Off \in WorkerRecord /\ Queue!Off.pc = "idle"
<1>1. worker[w] \in WorkerRecord
  BY DEF QueueInv, QueueTypes
<1>2. /\ worker[w].pc # "idle" => worker[w].id \in QueueId
      /\ worker[w].pc = "push" => worker[w].link \in QueueId
  BY DEF QueueInv, QueueTypes
<1> QED
  BY <1>1, <1>2 DEF WorkerRecord, Queue!Off

\* The queue as it was.
LEMMA QueueStays ==
    ASSUME QueueInv, UNCHANGED <<queue, urls, depths>>
    PROVE  /\ RedisTypes' /\ Queue!NoOrphans'
           /\ Queue!OnlyImproves /\ Queue!KeepsInvalidOut
BY DEF QueueInv, RedisTypes, MaybeNat, Queue!NoOrphans, Queue!Queued, Queue!OnlyImproves,
       Queue!KeepsInvalidOut

\* A push.
LEMMA PushFacts ==
    ASSUME QueueInv, NEW w, NEW u \in QueueId, NEW score \in Nat, NEW depth \in Nat,
           Queue!Push(w, u, score, depth)
    PROVE  /\ RedisTypes' /\ Queue!NoOrphans'
           /\ since' = since \cup {u}
           /\ \A x \in QueueId \ {u} : queue'[x] = queue[x] /\ depths'[x] = depths[x]
           /\ Queue!OnlyImproves /\ Queue!KeepsInvalidOut
<1>1. since' = since \cup {u}
  BY DEF Queue!Push
<1>2. CASE urls[u] = "other"
  <2>1. UNCHANGED <<queue, urls, depths>>
    BY <1>2 DEF Queue!Push, Queue!redis
  <2> QED
    BY <1>1, <2>1, QueueStays
<1>3. CASE urls[u] # "other"
  <2> DEFINE m == [v \in {u} |-> [score |-> score, depth |-> depth]]
  <2>1. Queue!Enqueued({u}, m)
    BY <1>3 DEF Queue!Push
  <2>2. \A x \in {u} : m[x].score \in Nat /\ m[x].depth \in Nat
    OBVIOUS
  <2> HIDE DEF m
  <2>3. Improved({u}, m)
    BY <2>1, <2>2, EnqueueFacts DEF QueueInv
  <2>4. \A x \in QueueId : queue[x] \in MaybeNat /\ depths[x] \in MaybeNat
    BY DEF QueueInv, RedisTypes
  <2>5. Queue!OnlyImproves
    BY <2>3, <2>4 DEF Improved, Queue!OnlyImproves, Queue!None, MaybeNat
  <2>6. Queue!KeepsInvalidOut
    BY <1>1, <2>3, QueueAssumption DEF Improved, Queue!KeepsInvalidOut
  <2> QED
    BY <1>1, <2>3, <2>5, <2>6 DEF Improved
<1> QED
  BY <1>2, <1>3

\* The steps of a worker.
LEMMA InspectKeeps ==
    ASSUME QueueInv, NEW w \in Worker, NEW u \in QueueId, Queue!Inspect(w, u)
    PROVE  QueueInv' /\ QueueMoves
<1> DEFINE r == [Queue!Off EXCEPT !.pc = "inspected", !.id = u,
                                  !.score = queue[u], !.depth = depths[u]]
<1>1. /\ UNCHANGED <<records, feed, since, queue, urls, depths>>
      /\ u \in Queue!Queued /\ depths[u] # -1 /\ worker' = [worker EXCEPT ![w] = r]
  BY DEF Queue!Inspect, Queue!redis, Queue!None
<1>2. queue[u] \in Nat /\ depths[u] \in Nat /\ u \in Nat
  BY <1>1, QueueAssumption DEF QueueInv, RedisTypes, MaybeNat, Queue!Queued, Queue!None
<1>3. r \in WorkerRecord /\ r.pc = "inspected" /\ r.id = u
  BY <1>2 DEF Queue!Off, WorkerRecord
<1> HIDE DEF r
<1>4. since \in SUBSET since' /\ since' \in SUBSET QueueId
  BY <1>1 DEF QueueInv, QueueTypes
<1>5. QueueInv' /\ Queue!ClaimsCurrent
  <2>1. RedisTypes' /\ Queue!NoOrphans'
    BY <1>1, QueueStays
  <2> QED
    BY <1>1, <1>3, <1>4, <2>1, WorkerKeeps
<1> QED
  BY <1>1, <1>5, QueueStays DEF QueueMoves

\* A claim takes only what is still as it was inspected.
LEMMA ClaimKeeps ==
    ASSUME QueueInv, NEW w \in Worker, Queue!Claim(w)
    PROVE  QueueInv' /\ QueueMoves
<1> DEFINE u == worker[w].id
<1>1. /\ worker[w].pc = "inspected" /\ UNCHANGED <<records, feed, urls, depths>>
      /\ \/ /\ queue[u] = worker[w].score /\ depths[u] = worker[w].depth
            /\ worker' = [worker EXCEPT ![w].pc = "crawl"]
            /\ queue' = [queue EXCEPT ![u] = -1] /\ since' = since \cup {u}
         \/ /\ worker' = [worker EXCEPT ![w] = Queue!Off]
            /\ queue' = queue /\ since' = since
  BY DEF Queue!Claim, Queue!None
<1>2. u \in QueueId /\ since \in SUBSET QueueId
  BY <1>1, WorkerFields DEF QueueInv, QueueTypes
<1>3. CASE worker' = [worker EXCEPT ![w] = Queue!Off] /\ queue' = queue /\ since' = since
  <2>1. /\ RedisTypes' /\ Queue!NoOrphans' /\ Queue!OnlyImproves /\ Queue!KeepsInvalidOut
    BY <1>1, <1>3, QueueStays
  <2>2. QueueInv' /\ Queue!ClaimsCurrent
    BY <1>1, <1>2, <1>3, <2>1, WorkerFields, WorkerKeeps
  <2> QED
    BY <2>1, <2>2 DEF QueueMoves
<1>4. CASE /\ queue[u] = worker[w].score /\ depths[u] = worker[w].depth
           /\ worker' = [worker EXCEPT ![w].pc = "crawl"]
           /\ queue' = [queue EXCEPT ![u] = -1] /\ since' = since \cup {u}
  <2> DEFINE r == [worker[w] EXCEPT !.pc = "crawl"]
  <2>1. r \in WorkerRecord /\ r.pc = "crawl" /\ r.id = u
    BY WorkerFields DEF WorkerRecord
  <2>2. worker' = [worker EXCEPT ![w] = r]
    BY <1>4
  <2>3. queue \in [QueueId -> MaybeNat]
    BY DEF QueueInv, RedisTypes
  <2>4. \A x \in QueueId : queue'[x] = IF x = u THEN -1 ELSE queue[x]
    BY <1>4, <2>3
  <2>5. RedisTypes' /\ Queue!NoOrphans'
    <3>1. queue' \in [QueueId -> MaybeNat]
      BY <1>4, <2>3 DEF MaybeNat
    <3>2. RedisTypes'
      BY <1>1, <3>1 DEF QueueInv, RedisTypes
    <3>3. Queue!NoOrphans'
      BY <1>1, <2>4 DEF QueueInv, Queue!NoOrphans, Queue!Queued, Queue!None
    <3> QED
      BY <3>2, <3>3
  <2>6. Queue!OnlyImproves /\ Queue!KeepsInvalidOut
    BY <1>1, <2>4, QueueAssumption
       DEF QueueInv, RedisTypes, MaybeNat, Queue!OnlyImproves, Queue!KeepsInvalidOut, Queue!None
  <2>7. \A x \in QueueId \ since' : queue'[x] = queue[x] /\ depths'[x] = depths[x]
    BY <1>1, <1>4, <2>4
  <2> HIDE DEF r
  <2>8. QueueInv' /\ Queue!ClaimsCurrent
    <3>1. since \in SUBSET since' /\ since' \in SUBSET QueueId /\ UNCHANGED <<records, feed>>
      BY <1>1, <1>2, <1>4
    <3>2. (r.pc # "idle" => r.id \in QueueId) /\ (r.pc = "push" => r.link \in QueueId)
      BY <1>2, <2>1
    <3>3. worker[w].pc = "inspected" /\ r.pc = "crawl" =>
              /\ queue[worker[w].id] = worker[w].score
              /\ depths[worker[w].id] = worker[w].depth
      BY <1>4
    <3> HIDE DEF u
    <3> QED
      BY <2>1, <2>2, <2>5, <2>7, <3>1, <3>2, <3>3, WorkerKeeps
  <2> QED
    BY <2>6, <2>8 DEF QueueMoves
<1> QED
  BY <1>1, <1>3, <1>4

\* A push by a worker that then has record r.
LEMMA PushKeeps ==
    ASSUME QueueInv, NEW w \in Worker, NEW u \in QueueId, NEW score \in Nat, NEW depth \in Nat,
           Queue!Push(w, u, score, depth), NEW r \in WorkerRecord,
           r.pc \in {"idle", "crawl"}, r.pc = "crawl" => r.id \in QueueId,
           worker[w].pc # "inspected",
           worker' = [worker EXCEPT ![w] = r], UNCHANGED <<records, feed>>
    PROVE  QueueInv' /\ QueueMoves
<1>1. /\ RedisTypes' /\ Queue!NoOrphans' /\ since' = since \cup {u}
      /\ \A x \in QueueId \ {u} : queue'[x] = queue[x] /\ depths'[x] = depths[x]
      /\ Queue!OnlyImproves /\ Queue!KeepsInvalidOut
  BY PushFacts
<1>2. since' \in SUBSET QueueId /\ since \in SUBSET since'
  BY <1>1 DEF QueueInv, QueueTypes
<1>3. /\ r.pc # "idle" => r.id \in QueueId
      /\ r.pc = "push" => r.link \in QueueId
      /\ \A x \in QueueId \ since' : queue'[x] = queue[x] /\ depths'[x] = depths[x]
  BY <1>1
<1>4. QueueInv' /\ Queue!ClaimsCurrent
  BY <1>1, <1>2, <1>3, WorkerKeeps
<1> QED
  BY <1>1, <1>4 DEF QueueMoves

\* A crawl that gives its URL back.
LEMMA RequeueKeeps ==
    ASSUME QueueInv, NEW w \in Worker, Queue!Requeue(w)
    PROVE  QueueInv' /\ QueueMoves
<1> DEFINE u == worker[w].id
           score == worker[w].score
           depth == worker[w].depth
<1>1. /\ worker[w].pc = "crawl" /\ Queue!Push(w, u, score, depth)
      /\ worker' = [worker EXCEPT ![w] = Queue!Off] /\ UNCHANGED <<records, feed>>
  BY DEF Queue!Requeue
<1>2. /\ u \in QueueId /\ score \in Nat /\ depth \in Nat
      /\ Queue!Off \in WorkerRecord /\ Queue!Off.pc = "idle"
  BY <1>1, WorkerFields
<1> HIDE DEF u, score, depth
<1> QED
  BY <1>1, <1>2, PushKeeps

\* A link that is pushed.
LEMMA PushLinkKeeps ==
    ASSUME QueueInv, NEW w \in Worker, Queue!PushLink(w)
    PROVE  QueueInv' /\ QueueMoves
<1> DEFINE u == worker[w].link
           score == worker[w].linkScore
           depth == worker[w].depth + 1
           r == [worker[w] EXCEPT !.pc = "crawl", !.link = 0, !.linkScore = 0]
<1>1. /\ worker[w].pc = "push" /\ Queue!Push(w, u, score, depth)
      /\ worker' = [worker EXCEPT ![w] = r] /\ UNCHANGED <<records, feed>>
  BY DEF Queue!PushLink
<1>2. u \in QueueId /\ score \in Nat /\ depth \in Nat
  BY <1>1, WorkerFields
<1>3. r \in WorkerRecord /\ r.pc = "crawl" /\ r.id \in QueueId
  BY <1>1, WorkerFields DEF WorkerRecord
<1> HIDE DEF u, score, depth, r
<1> QED
  BY <1>1, <1>2, <1>3, PushKeeps

\* A link that is found, and a crawl that ends.
LEMMA DiscoverKeeps ==
    ASSUME QueueInv, NEW w \in Worker, NEW v \in QueueId, Queue!Discover(w, v)
    PROVE  QueueInv' /\ QueueMoves
<1> DEFINE score == IF queue[v] # -1 THEN queue[v] ELSE worker[w].score + 1
           low == Queue!Min({score, MaxScore})
           r == [worker[w] EXCEPT !.pc = "push", !.link = v, !.linkScore = low]
<1>1. /\ worker[w].pc = "crawl" /\ UNCHANGED <<records, feed, since, queue, urls, depths>>
      /\ worker' = [worker EXCEPT ![w] = r]
  BY DEF Queue!Discover, Queue!redis, Queue!None
<1>2. low \in Nat
  <2>1. score \in Nat
    BY WorkerFields DEF QueueInv, RedisTypes, MaybeNat
  <2> HIDE DEF score
  <2>2. score \in Int /\ MaxScore \in Int /\ MaxScore \in Nat
    BY <2>1, QueueAssumption
  <2>3. low = IF score <= MaxScore THEN score ELSE MaxScore
    BY <2>2, MinOfTwo
  <2> QED
    BY <2>1, <2>2, <2>3
<1> HIDE DEF low
<1>3. r \in WorkerRecord /\ r.pc = "push" /\ r.id = worker[w].id /\ r.link = v
  BY <1>2, WorkerFields, QueueAssumption DEF WorkerRecord
<1> HIDE DEF r
<1>4. since \in SUBSET since' /\ since' \in SUBSET QueueId
  BY <1>1 DEF QueueInv, QueueTypes
<1>5. QueueInv' /\ Queue!ClaimsCurrent
  <2>1. RedisTypes' /\ Queue!NoOrphans' /\ worker[w].id \in QueueId
    BY <1>1, QueueStays, WorkerFields
  <2> QED
    BY <1>1, <1>3, <1>4, <2>1, WorkerKeeps
<1> QED
  BY <1>1, <1>5, QueueStays DEF QueueMoves

\* The end of a crawl.
LEMMA EndCrawlKeeps ==
    ASSUME QueueInv, NEW w \in Worker, Queue!EndCrawl(w)
    PROVE  QueueInv' /\ QueueMoves
<1>1. /\ UNCHANGED <<records, feed, since, queue, urls, depths>>
      /\ worker' = [worker EXCEPT ![w] = Queue!Off]
  BY DEF Queue!EndCrawl, Queue!redis
<1>2. Queue!Off \in WorkerRecord /\ Queue!Off.pc = "idle"
  BY WorkerFields
<1>3. since \in SUBSET since' /\ since' \in SUBSET QueueId
  BY <1>1 DEF QueueInv, QueueTypes
<1>4. QueueInv' /\ Queue!ClaimsCurrent
  <2>1. RedisTypes' /\ Queue!NoOrphans'
    BY <1>1, QueueStays
  <2> QED
    BY <1>1, <1>2, <1>3, <2>1, WorkerKeeps
<1> QED
  BY <1>1, <1>4, QueueStays DEF QueueMoves
-----------------------------------------------------------------------------
(* Steps of the feeder. *)

ById(S) == Queue!Ordered(S, LAMBDA u, v : u < v)

ByPriority(S) ==
    Queue!Ordered(S, LAMBDA u, v :
        \/ records[u].priority < records[v].priority
        \/ records[u].priority = records[v].priority /\ u < v)

\* Ids in their order.
LEMMA ByIdLists ==
    ASSUME NEW S \in SUBSET QueueId
    PROVE  Lists(ById(S), S)
<1> DEFINE R == {p \in S \X S : p[1] < p[2]}
<1>1. IsFiniteSet(S)
  BY QueueAssumption, FS_Subset
<1>2. \A u, v \in S : <<u, v>> \in R <=> u < v
  OBVIOUS
<1>3. \A u \in S : u \in Nat
  BY QueueAssumption
<1>4. InLine(S, R)
  <2> HIDE DEF R
  <2> QED
    BY <1>2, <1>3 DEF InLine
<1>5. \A u \in S : {v \in S : v < u} = Ahead(S, R, u)
  <2> HIDE DEF R
  <2> QED
    BY <1>2 DEF Ahead
<1> HIDE DEF R
<1> DEFINE q == ById(S)
           n == Cardinality(S)
<1>6. q = [k \in 1..n |-> CHOOSE u \in S : Queue!Cardinality({v \in S : v < u}) = k - 1]
  <2>1. q = [k \in 1..Queue!Cardinality(S) |->
                CHOOSE u \in S : Queue!Cardinality({v \in S : v < u}) = k - 1]
    BY DEF ById, Queue!Ordered
  <2>2. Queue!Cardinality(S) = n
    BY SameCount
  <2> HIDE DEF q, n
  <2> QED
    BY <2>1, <2>2
<1>7. \A k \in 0..(n - 1) : \E u \in S : Cardinality(Ahead(S, R, u)) = k
  BY <1>1, <1>4, Places
<1>8. n \in Nat
  BY <1>1, FS_CardinalityType
<1> HIDE DEF q, n
<1>9. \A k \in 1..n : q[k] \in S /\ Cardinality(Ahead(S, R, q[k])) = k - 1
  <2> SUFFICES ASSUME NEW k \in 1..n
               PROVE  q[k] \in S /\ Cardinality(Ahead(S, R, q[k])) = k - 1
    OBVIOUS
  <2>1. k - 1 \in 0..(n - 1)
    BY <1>8
  <2>2. \A u \in S : Queue!Cardinality({v \in S : v < u}) = Cardinality(Ahead(S, R, u))
    BY <1>5, SameCount
  <2>3. \E u \in S : Queue!Cardinality({v \in S : v < u}) = k - 1
    BY <1>7, <2>1, <2>2
  <2>4. q[k] = CHOOSE u \in S : Queue!Cardinality({v \in S : v < u}) = k - 1
    BY <1>6
  <2>5. q[k] \in S /\ Queue!Cardinality({v \in S : v < q[k]}) = k - 1
    BY <2>3, <2>4
  <2> QED
    BY <2>2, <2>5
<1>10. q = [k \in 1..n |-> q[k]]
  <2> DEFINE F(k) == CHOOSE u \in S : Queue!Cardinality({v \in S : v < u}) = k - 1
  <2>1. q = [k \in 1..n |-> F(k)]
    BY <1>6
  <2> HIDE DEF F
  <2> QED
    BY <2>1
<1>11. Lists(q, S)
  BY <1>1, <1>4, <1>9, <1>10, OrderedLists DEF n
<1> QED
  BY <1>11 DEF q
\* Ids by the priority of their records, then in their order.
LEMMA ByPriorityLists ==
    ASSUME QueueInv, NEW S \in SUBSET QueueId
    PROVE  Lists(ByPriority(S), S)
<1> DEFINE c(v, u) == \/ records[v].priority < records[u].priority
                      \/ records[v].priority = records[u].priority /\ v < u
           R == {p \in S \X S : c(p[1], p[2])}
<1>1. IsFiniteSet(S)
  BY QueueAssumption, FS_Subset
<1>2. \A u, v \in S : <<u, v>> \in R <=> c(u, v)
  OBVIOUS
<1>3. \A u \in S : u \in Nat /\ records[u].priority \in Nat
  <2>1. \A u \in S : records[u].priority \in 1..3
    BY DEF QueueInv, QueueTypes
  <2> QED
    BY <2>1, QueueAssumption
<1>4. InLine(S, R)
  <2> HIDE DEF R
  <2> QED
    BY <1>2, <1>3 DEF InLine
<1>5. \A u \in S : {v \in S : c(v, u)} = Ahead(S, R, u)
  <2> HIDE DEF R, c
  <2> QED
    BY <1>2 DEF Ahead
<1> HIDE DEF R
<1> DEFINE q == ByPriority(S)
           n == Cardinality(S)
<1>6. q = [k \in 1..n |-> CHOOSE u \in S : Queue!Cardinality({v \in S : c(v, u)}) = k - 1]
  <2>1. q = [k \in 1..Queue!Cardinality(S) |->
                CHOOSE u \in S : Queue!Cardinality({v \in S : c(v, u)}) = k - 1]
    BY DEF ByPriority, Queue!Ordered
  <2>2. Queue!Cardinality(S) = n
    BY SameCount
  <2> HIDE DEF q, n, c
  <2> QED
    BY <2>1, <2>2
<1>7. \A k \in 0..(n - 1) : \E u \in S : Cardinality(Ahead(S, R, u)) = k
  BY <1>1, <1>4, Places
<1>8. n \in Nat
  BY <1>1, FS_CardinalityType
<1> HIDE DEF q, n, c
<1>9. \A k \in 1..n : q[k] \in S /\ Cardinality(Ahead(S, R, q[k])) = k - 1
  <2> SUFFICES ASSUME NEW k \in 1..n
               PROVE  q[k] \in S /\ Cardinality(Ahead(S, R, q[k])) = k - 1
    OBVIOUS
  <2>1. k - 1 \in 0..(n - 1)
    BY <1>8
  <2>2. \A u \in S : Queue!Cardinality({v \in S : c(v, u)}) = Cardinality(Ahead(S, R, u))
    BY <1>5, SameCount
  <2>3. \E u \in S : Queue!Cardinality({v \in S : c(v, u)}) = k - 1
    BY <1>7, <2>1, <2>2
  <2>4. q[k] = CHOOSE u \in S : Queue!Cardinality({v \in S : c(v, u)}) = k - 1
    BY <1>6
  <2>5. q[k] \in S /\ Queue!Cardinality({v \in S : c(v, q[k])}) = k - 1
    BY <2>3, <2>4
  <2> QED
    BY <2>2, <2>5
<1>10. q = [k \in 1..n |-> q[k]]
  <2> DEFINE F(k) == CHOOSE u \in S : Queue!Cardinality({v \in S : c(v, u)}) = k - 1
  <2>1. q = [k \in 1..n |-> F(k)]
    BY <1>6
  <2> HIDE DEF F
  <2> QED
    BY <2>1
<1>11. Lists(q, S)
  BY <1>1, <1>4, <1>9, <1>10, OrderedLists DEF n
<1> QED
  BY <1>11 DEF q
\* What the feeder does keeps the invariant if it keeps the parts about the feed.
LEMMA FeedKeeps ==
    ASSUME QueueInv, UNCHANGED <<records, worker, since>>, RedisTypes', Queue!NoOrphans',
           TodoOK', RemovedInv', AddedInv'
    PROVE  QueueInv' /\ Queue!ClaimsCurrent
<1>1. QueueTypes'
  BY DEF QueueInv, QueueTypes
<1>2. Queue!ClaimsCurrent
  BY DEF Queue!ClaimsCurrent
<1> QED
  BY <1>1, <1>2 DEF QueueInv

\* A feed that is over, or that has just begun, promises nothing.
LEMMA FeedIdles ==
    ASSUME QueueInv, NEW pc \in {"disabled", "failed"}, feed' = [pc |-> pc, todo |-> <<>>]
    PROVE  TodoOK' /\ RemovedInv' /\ AddedInv'
<1>1. feed'.pc \in {"disabled", "failed"} /\ feed'.todo = <<>>
  OBVIOUS
<1>2. feed' \in [pc : {"off", "disabled", "remove", "enabled", "enqueue", "done", "failed"},
                 todo : Seq([id : QueueId \ Invalid] \cup [id : QueueId \ Invalid, score : Nat])]
  OBVIOUS
<1> QED
  BY <1>1, <1>2 DEF TodoOK, RemovedInv, AddedInv

\* A feed begins.
LEMMA FeedStartKeeps ==
    ASSUME QueueInv, Queue!FeedStart
    PROVE  QueueInv' /\ QueueMoves
<1>1. /\ feed' = [pc |-> "disabled", todo |-> <<>>] /\ since' = {}
      /\ UNCHANGED <<records, worker, queue, urls, depths>>
  BY DEF Queue!FeedStart, Queue!redis
<1>2. RedisTypes' /\ Queue!NoOrphans' /\ Queue!OnlyImproves /\ Queue!KeepsInvalidOut
  BY <1>1, QueueStays
<1>3. TodoOK' /\ RemovedInv' /\ AddedInv'
  BY <1>1, FeedIdles
<1>4. QueueTypes'
  BY <1>1 DEF QueueInv, QueueTypes
<1>5. Queue!ClaimsCurrent
  BY <1>1 DEF Queue!ClaimsCurrent
<1> QED
  BY <1>2, <1>3, <1>4, <1>5 DEF QueueInv, QueueMoves

\* Records made of the members of a list, in its order.
LEMMA ListedRecords ==
    ASSUME NEW S, NEW t, Lists(t, S), NEW T, NEW r,
           r = [k \in 1..Len(t) |-> r[k]],
           \A k \in 1..Len(t) : r[k] \in T /\ r[k].id = t[k]
    PROVE  r \in Seq(T) /\ Len(r) = Len(t) /\ Queue!Ids(r) = S
<1> DEFINE n == Len(t)
<1>1. n \in Nat /\ (\A k \in 1..n : t[k] \in S) /\ (\A u \in S : \E k \in 1..n : t[k] = u)
  BY DEF Lists
<1>2. \A k \in 1..n : r[k] \in T /\ r[k].id = t[k]
  OBVIOUS
<1>3. r = [k \in 1..n |-> r[k]]
  OBVIOUS
<1> HIDE DEF n
<1>4. r \in Seq(T) /\ Len(r) = n
  <2>1. \A k \in 1..n : r[k] \in T
    BY <1>2
  <2>2. [k \in 1..n |-> r[k]] \in Seq(T) /\ Len([k \in 1..n |-> r[k]]) = n
    BY <1>1, <2>1, ListIsSeq, ZenonT(60)
  <2> QED
    BY <1>3, <2>2
<1>5. Queue!Ids(r) = S
  BY <1>1, <1>2, <1>4 DEF Queue!Ids
<1> QED
  BY <1>4, <1>5 DEF n

\* The feeder looks up the disabled records.
LEMMA FindDisabledKeeps ==
    ASSUME QueueInv, Queue!FindDisabled
    PROVE  QueueInv' /\ QueueMoves
<1> DEFINE ids == {u \in QueueId : ~records[u].enabled} \ Invalid
           t == ById(ids)
           r == [k \in 1..Len(t) |-> [id |-> t[k]]]
           T == [id : QueueId \ Invalid]
<1>1. /\ feed' = [pc |-> "remove", todo |-> r]
      /\ UNCHANGED <<records, worker, since, queue, urls, depths>>
  BY DEF Queue!FindDisabled, Queue!redis, ById
<1>2. Lists(t, ids)
  BY ByIdLists
<1>3. ids = (QueueId \ On) \ Invalid
  BY DEF On
<1> HIDE DEF ids, t
<1>4. r \in Seq(T) /\ Queue!Ids(r) = ids
  <2>1. \A k \in 1..Len(t) : t[k] \in QueueId \ Invalid
    BY <1>2, <1>3 DEF Lists
  <2>2. \A k \in 1..Len(t) : r[k] \in T /\ r[k].id = t[k]
    BY <2>1
  <2>3. r = [k \in 1..Len(t) |-> r[k]]
    OBVIOUS
  <2> HIDE DEF r, T
  <2> QED
    BY <1>2, <2>2, <2>3, ListedRecords
<1> HIDE DEF r
<1>5. feed'.pc = "remove" /\ feed'.todo = r
  BY <1>1
<1>6. TodoOK'
  <2>1. r \in Seq(T \cup [id : QueueId \ Invalid, score : Nat])
    <3> HIDE DEF T
    <3> QED
      BY <1>4
  <2> QED
    BY <1>1, <1>4, <1>5, <2>1 DEF TodoOK
<1>7. RemovedInv' /\ AddedInv'
  <2>1. Todo' = ids
    BY <1>4, <1>5 DEF Todo, Queue!Ids
  <2>2. Quiet' = Quiet /\ On' = On
    BY <1>1 DEF Quiet, On
  <2>3. RemovedInv'
    BY <1>3, <1>5, <2>1, <2>2 DEF RemovedInv, Quiet
  <2>4. AddedInv'
    BY <1>5 DEF AddedInv
  <2> QED
    BY <2>3, <2>4
<1>8. RedisTypes' /\ Queue!NoOrphans' /\ Queue!OnlyImproves /\ Queue!KeepsInvalidOut
  BY <1>1, QueueStays
<1>9. QueueInv' /\ Queue!ClaimsCurrent
  BY <1>1, <1>6, <1>7, <1>8, FeedKeeps
<1> QED
  BY <1>8, <1>9 DEF QueueMoves

\* The script that removes a batch.
LEMMA RemoveBatchFacts ==
    ASSUME QueueInv, Queue!Removed(Queue!Ids(Queue!Batch))
    PROVE  /\ RedisTypes' /\ Queue!NoOrphans' /\ Queue!OnlyImproves /\ Queue!KeepsInvalidOut
           /\ \A u \in QueueId :
                  queue'[u] = IF u \in Queue!Ids(Queue!Batch) THEN -1 ELSE queue[u]
<1> DEFINE S == Queue!Ids(Queue!Batch)
<1>1. /\ RedisTypes' /\ Queue!NoOrphans'
      /\ \A u \in QueueId : queue'[u] = IF u \in S THEN -1 ELSE queue[u]
      /\ \A u \in QueueId \ S : depths'[u] = depths[u]
  BY RemoveFacts DEF QueueInv
<1> HIDE DEF S
<1>2. \A u \in QueueId : queue[u] \in MaybeNat /\ depths[u] \in MaybeNat
  BY DEF QueueInv, RedisTypes
<1>3. Queue!OnlyImproves
  BY <1>1, <1>2 DEF Queue!OnlyImproves, Queue!None, MaybeNat
<1>4. Queue!KeepsInvalidOut
  BY <1>1, QueueAssumption DEF Queue!KeepsInvalidOut, Queue!None
<1> QED
  BY <1>1, <1>3, <1>4 DEF S
\* The script that adds a batch: its records are valid ones, and those that
\* nothing has touched since the feed began get the score of the catalog.
LEMMA AddBatchFacts ==
    ASSUME QueueInv, feed.pc = "enqueue", feed.todo # <<>>,
           Queue!Enqueued(Queue!Ids(Queue!Batch), Queue!Asked(Queue!Batch))
    PROVE  /\ RedisTypes' /\ Queue!NoOrphans' /\ Queue!OnlyImproves /\ Queue!KeepsInvalidOut
           /\ \A u \in QueueId \ Queue!Ids(Queue!Batch) :
                  queue'[u] = queue[u] /\ depths'[u] = depths[u]
           /\ \A u \in Queue!Ids(Queue!Batch) \ since :
                  queue'[u] \in Nat /\ queue'[u] <= Queue!Score(u) /\ depths'[u] = 0
<1> DEFINE T == [id : QueueId \ Invalid, score : Nat]
           b == Queue!Batch
           S == Queue!Ids(b)
           m == Queue!Asked(b)
<1>1. /\ feed.todo \in Seq(T)
      /\ \A k \in 1..Len(feed.todo) :
            feed.todo[k].id \notin since => feed.todo[k].score = Queue!Score(feed.todo[k].id)
  BY DEF QueueInv, TodoOK
<1>2. b \in Seq(T) /\ \A k \in 1..Len(b) : \E j \in 1..Len(feed.todo) : b[k] = feed.todo[j]
  <2> HIDE DEF T
  <2> QED
    BY <1>1, BatchAndRest
<1>3. /\ S = {b[k].id : k \in 1..Len(b)}
      /\ m = [u \in S |-> [score |-> (CHOOSE r \in Queue!Range(b) : r.id = u).score,
                           depth |-> 0]]
      /\ Queue!Range(b) = {b[k] : k \in 1..Len(b)}
  <2>1. DOMAIN b = 1..Len(b)
    <3> HIDE DEF T, b
    <3> QED
      BY <1>2
  <2> QED
    BY <2>1 DEF Queue!Ids, Queue!Asked, Queue!Range
<1> HIDE DEF b, S, m
<1>4. \A k \in 1..Len(b) : /\ b[k] \in T
                           /\ b[k].id \notin since => b[k].score = Queue!Score(b[k].id)
  <2>1. \A k \in 1..Len(b) : b[k] \in T
    <3> HIDE DEF T
    <3> QED
      BY <1>2, ElementOfSeq
  <2> QED
    BY <1>1, <1>2, <2>1
<1>5. S \in SUBSET (QueueId \ Invalid)
  BY <1>3, <1>4
<1>6. ASSUME NEW u \in S
      PROVE  /\ m[u].score \in Nat /\ m[u].depth = 0
             /\ u \notin since => m[u].score = Queue!Score(u)
  <2> DEFINE R == Queue!Range(b)
             r == CHOOSE x \in R : x.id = u
  <2>1. \E x \in R : x.id = u
    BY <1>3
  <2>2. r \in R /\ r.id = u
    <3> HIDE DEF R
    <3> QED
      BY <2>1
  <2>3. m[u].score = r.score /\ m[u].depth = 0
    BY <1>3
  <2> HIDE DEF r
  <2>4. PICK k \in 1..Len(b) : r = b[k]
    BY <1>3, <2>2
  <2> QED
    BY <1>4, <2>2, <2>3, <2>4
<1>7. Improved(S, m)
  <2>1. S \in SUBSET QueueId /\ \A u \in S : m[u].score \in Nat /\ m[u].depth \in Nat
    BY <1>5, <1>6
  <2>2. Queue!Enqueued(S, m)
    BY DEF S, m, b
  <2> QED
    BY <2>1, <2>2, EnqueueFacts DEF QueueInv
<1>8. \A u \in QueueId : queue[u] \in MaybeNat /\ depths[u] \in MaybeNat
  BY DEF QueueInv, RedisTypes
<1>9. Queue!OnlyImproves
  BY <1>5, <1>7, <1>8 DEF Improved, Queue!OnlyImproves, Queue!None, MaybeNat
<1>10. Queue!KeepsInvalidOut
  BY <1>5, <1>7, QueueAssumption DEF Improved, Queue!KeepsInvalidOut
<1>11. \A u \in S \ since : queue'[u] \in Nat /\ queue'[u] <= Queue!Score(u) /\ depths'[u] = 0
  <2> SUFFICES ASSUME NEW u \in S \ since
               PROVE  queue'[u] \in Nat /\ queue'[u] <= Queue!Score(u) /\ depths'[u] = 0
    OBVIOUS
  <2>1. /\ queue'[u] \in Nat /\ queue'[u] <= m[u].score
        /\ depths'[u] \in Nat /\ depths'[u] <= m[u].depth
    BY <1>7 DEF Improved
  <2> QED
    BY <1>6, <2>1
<1>12. \A u \in QueueId \ S : queue'[u] = queue[u] /\ depths'[u] = depths[u]
  BY <1>7 DEF Improved
<1> QED
  BY <1>7, <1>9, <1>10, <1>11, <1>12 DEF Improved, S, b

\* What is left of a feed after a batch is part of it.
LEMMA RestIsTodo ==
    ASSUME QueueInv, feed.pc \in {"remove", "enqueue"}, feed.todo # <<>>,
           feed' = [feed EXCEPT !.todo = Queue!Rest], UNCHANGED <<records, since>>
    PROVE  /\ TodoOK' /\ feed'.pc = feed.pc
           /\ Todo = Queue!Ids(Queue!Batch) \cup Todo'
<1> DEFINE T == IF feed.pc = "remove" THEN [id : QueueId \ Invalid]
                ELSE [id : QueueId \ Invalid, score : Nat]
           A == [id : QueueId \ Invalid] \cup [id : QueueId \ Invalid, score : Nat]
           P == {"off", "disabled", "remove", "enabled", "enqueue", "done", "failed"}
           r == Queue!Rest
<1>1. feed \in [pc : P, todo : Seq(A)] /\ feed.todo \in Seq(T)
  BY DEF QueueInv, TodoOK
<1>2. /\ r \in Seq(T) /\ Todo = Queue!Ids(Queue!Batch) \cup Queue!Ids(r)
      /\ \A k \in 1..Len(r) : \E j \in 1..Len(feed.todo) : r[k] = feed.todo[j]
  <2> HIDE DEF T
  <2> QED
    BY <1>1, BatchAndRest
<1>3. r \in Seq(A)
  <2>1. T \in SUBSET A
    OBVIOUS
  <2> HIDE DEF T, A, r
  <2> QED
    BY <1>2, <2>1
<1> HIDE DEF A, P, r
<1>4. feed'.todo = r /\ feed'.pc = feed.pc /\ feed' \in [pc : P, todo : Seq(A)]
  BY <1>1, <1>3 DEF r
<1>5. Todo' = Queue!Ids(r)
  BY <1>4 DEF Todo, Queue!Ids
<1>6. feed.pc = "enqueue" => \A k \in 1..Len(r) :
          r[k].id \notin since' => r[k].score = records'[r[k].id].priority - 1
  <2>1. feed.pc = "enqueue" => \A k \in 1..Len(feed.todo) :
            feed.todo[k].id \notin since => feed.todo[k].score = Queue!Score(feed.todo[k].id)
    BY DEF QueueInv, TodoOK
  <2> SUFFICES ASSUME feed.pc = "enqueue", NEW k \in 1..Len(r), r[k].id \notin since'
               PROVE  r[k].score = records'[r[k].id].priority - 1
    OBVIOUS
  <2>2. PICK j \in 1..Len(feed.todo) : r[k] = feed.todo[j]
    BY <1>2
  <2>3. r[k].score = Queue!Score(r[k].id)
    BY <2>1, <2>2
  <2> QED
    BY <2>3 DEF Queue!Score
<1>7. /\ feed.pc = "remove" => r \in Seq([id : QueueId \ Invalid])
      /\ feed.pc = "enqueue" => r \in Seq([id : QueueId \ Invalid, score : Nat])
  BY <1>2
<1>8. TodoOK'
  <2>1. feed.pc = "enqueue" => \A k \in 1..Len(feed'.todo) :
            feed'.todo[k].id \notin since' => feed'.todo[k].score = Queue!Score(feed.todo[k].id)'
    BY <1>4, <1>6 DEF Queue!Score
  <2> QED
    BY <1>4, <1>7, <2>1 DEF TodoOK, A, P
<1> QED
  BY <1>2, <1>4, <1>5, <1>8

\* A batch of records to remove.
LEMMA RemoveBatchKeeps ==
    ASSUME QueueInv, Queue!RemoveBatch
    PROVE  QueueInv' /\ QueueMoves
<1>1. /\ feed.pc = "remove" /\ UNCHANGED <<records, worker, since>>
      /\ \/ feed.todo = <<>> /\ feed' = [pc |-> "enabled", todo |-> <<>>]
            /\ UNCHANGED <<queue, urls, depths>>
         \/ feed' = [pc |-> "failed", todo |-> <<>>] /\ UNCHANGED <<queue, urls, depths>>
         \/ /\ feed.todo # <<>> /\ feed' = [feed EXCEPT !.todo = Queue!Rest]
            /\ Queue!Removed(Queue!Ids(Queue!Batch))
  BY DEF Queue!RemoveBatch, Queue!FeedBatch, Queue!redis
<1>2. Quiet' = Quiet /\ On' = On
  BY <1>1 DEF Quiet, On
<1>3. CASE feed.todo = <<>> /\ feed' = [pc |-> "enabled", todo |-> <<>>]
           /\ UNCHANGED <<queue, urls, depths>>
  <2>1. RedisTypes' /\ Queue!NoOrphans' /\ Queue!OnlyImproves /\ Queue!KeepsInvalidOut
    BY <1>3, QueueStays
  <2>2. feed'.pc = "enabled" /\ Todo = {}
    BY <1>3 DEF Todo, Queue!Ids
  <2>3. TodoOK'
    BY <1>3 DEF TodoOK
  <2>4. RemovedInv'
    BY <1>1, <1>2, <1>3, <2>2 DEF QueueInv, RemovedInv, Queue!Queued
  <2>5. AddedInv'
    BY <2>2 DEF AddedInv
  <2>6. QueueInv' /\ Queue!ClaimsCurrent
    BY <1>1, <2>1, <2>3, <2>4, <2>5, FeedKeeps
  <2> QED
    BY <2>1, <2>6 DEF QueueMoves
<1>4. CASE feed' = [pc |-> "failed", todo |-> <<>>] /\ UNCHANGED <<queue, urls, depths>>
  <2>1. RedisTypes' /\ Queue!NoOrphans' /\ Queue!OnlyImproves /\ Queue!KeepsInvalidOut
    BY <1>4, QueueStays
  <2>2. TodoOK' /\ RemovedInv' /\ AddedInv'
    BY <1>4, FeedIdles
  <2>3. QueueInv' /\ Queue!ClaimsCurrent
    BY <1>1, <2>1, <2>2, FeedKeeps
  <2> QED
    BY <2>1, <2>3 DEF QueueMoves
<1>5. CASE /\ feed.todo # <<>> /\ feed' = [feed EXCEPT !.todo = Queue!Rest]
           /\ Queue!Removed(Queue!Ids(Queue!Batch))
  <2>1. /\ RedisTypes' /\ Queue!NoOrphans' /\ Queue!OnlyImproves /\ Queue!KeepsInvalidOut
        /\ \A u \in QueueId :
               queue'[u] = IF u \in Queue!Ids(Queue!Batch) THEN -1 ELSE queue[u]
    BY <1>5, RemoveBatchFacts
  <2>2. TodoOK' /\ feed'.pc = "remove" /\ Todo = Queue!Ids(Queue!Batch) \cup Todo'
    BY <1>1, <1>5, RestIsTodo
  <2>3. RemovedInv'
    BY <1>1, <1>2, <2>1, <2>2
       DEF QueueInv, RemovedInv, Queue!Queued, Queue!None, Quiet
  <2>4. AddedInv'
    BY <2>2 DEF AddedInv
  <2>5. QueueInv' /\ Queue!ClaimsCurrent
    BY <1>1, <2>1, <2>2, <2>3, <2>4, FeedKeeps
  <2> QED
    BY <2>1, <2>5 DEF QueueMoves
<1> QED
  BY <1>1, <1>3, <1>4, <1>5
\* A batch of records to add.
LEMMA EnqueueBatchKeeps ==
    ASSUME QueueInv, Queue!EnqueueBatch
    PROVE  QueueInv' /\ QueueMoves
<1>1. /\ feed.pc = "enqueue" /\ UNCHANGED <<records, worker, since>>
      /\ \/ feed.todo = <<>> /\ feed' = [pc |-> "done", todo |-> <<>>]
            /\ UNCHANGED <<queue, urls, depths>>
         \/ feed' = [pc |-> "failed", todo |-> <<>>] /\ UNCHANGED <<queue, urls, depths>>
         \/ /\ feed.todo # <<>> /\ feed' = [feed EXCEPT !.todo = Queue!Rest]
            /\ Queue!Enqueued(Queue!Ids(Queue!Batch), Queue!Asked(Queue!Batch))
  BY DEF Queue!EnqueueBatch, Queue!FeedBatch, Queue!redis
<1>2. /\ Quiet' = Quiet /\ On' = On /\ (Room' <=> Room)
      /\ \A u \in QueueId : records'[u] = records[u]
  BY <1>1 DEF Quiet, On, Room
<1>3. CASE feed.todo = <<>> /\ feed' = [pc |-> "done", todo |-> <<>>]
           /\ UNCHANGED <<queue, urls, depths>>
  <2>1. RedisTypes' /\ Queue!NoOrphans' /\ Queue!OnlyImproves /\ Queue!KeepsInvalidOut
    BY <1>3, QueueStays
  <2>2. feed'.pc = "done" /\ Todo = {}
    BY <1>3 DEF Todo, Queue!Ids
  <2>3. TodoOK'
    BY <1>3 DEF TodoOK
  <2>4. RemovedInv'
    BY <1>1, <1>2, <1>3, <2>2 DEF QueueInv, RemovedInv, Queue!Queued
  <2>5. AddedInv'
    <3>1. \A u \in QueueId : Fed(u)' <=> Fed(u)
      BY <1>2, <1>3 DEF Fed, Queue!Score, Queue!Queued
    <3> QED
      BY <1>1, <1>2, <2>2, <3>1 DEF QueueInv, AddedInv, Quiet
  <2>6. QueueInv' /\ Queue!ClaimsCurrent
    BY <1>1, <2>1, <2>3, <2>4, <2>5, FeedKeeps
  <2> QED
    BY <2>1, <2>6 DEF QueueMoves
<1>4. CASE feed' = [pc |-> "failed", todo |-> <<>>] /\ UNCHANGED <<queue, urls, depths>>
  <2>1. RedisTypes' /\ Queue!NoOrphans' /\ Queue!OnlyImproves /\ Queue!KeepsInvalidOut
    BY <1>4, QueueStays
  <2>2. TodoOK' /\ RemovedInv' /\ AddedInv'
    BY <1>4, FeedIdles
  <2>3. QueueInv' /\ Queue!ClaimsCurrent
    BY <1>1, <2>1, <2>2, FeedKeeps
  <2> QED
    BY <2>1, <2>3 DEF QueueMoves
<1>5. CASE /\ feed.todo # <<>> /\ feed' = [feed EXCEPT !.todo = Queue!Rest]
           /\ Queue!Enqueued(Queue!Ids(Queue!Batch), Queue!Asked(Queue!Batch))
  <2> DEFINE B == Queue!Ids(Queue!Batch)
  <2>1. /\ RedisTypes' /\ Queue!NoOrphans' /\ Queue!OnlyImproves /\ Queue!KeepsInvalidOut
        /\ \A u \in QueueId \ B : queue'[u] = queue[u] /\ depths'[u] = depths[u]
        /\ \A u \in B \ since :
               queue'[u] \in Nat /\ queue'[u] <= Queue!Score(u) /\ depths'[u] = 0
    BY <1>1, <1>5, AddBatchFacts
  <2>2. TodoOK' /\ feed'.pc = "enqueue" /\ Todo = B \cup Todo'
    BY <1>1, <1>5, RestIsTodo
  <2> HIDE DEF B
  <2>3. RemovedInv'
    <3>1. \A u \in Quiet \ On : u \notin Todo /\ u \notin Queue!Queued
      BY <1>1 DEF QueueInv, RemovedInv
    <3>2. \A u \in Quiet \ On : u \notin Todo' /\ u \notin Queue!Queued'
      BY <2>1, <2>2, <3>1 DEF Queue!Queued, Quiet
    <3> QED
      BY <1>2, <2>2, <3>2 DEF RemovedInv
  <2>4. AddedInv'
    <3>1. \A u \in Quiet : u \in B => Fed(u)'
      <4> SUFFICES ASSUME NEW u \in Quiet, u \in B
                   PROVE  Fed(u)'
        OBVIOUS
      <4>1. u \in QueueId /\ u \in B \ since
        BY DEF Quiet
      <4>2. queue'[u] \in Nat /\ queue'[u] <= Queue!Score(u) /\ depths'[u] = 0
        BY <2>1, <4>1
      <4>3. Queue!Score(u)' = Queue!Score(u)
        BY <1>2, <4>1 DEF Queue!Score
      <4>4. u \in Queue!Queued'
        BY <4>1, <4>2 DEF Queue!Queued, Queue!None
      <4> QED
        BY <4>2, <4>3, <4>4 DEF Fed
    <3>2. \A u \in Quiet : u \notin B /\ Fed(u) => Fed(u)'
      BY <1>2, <2>1 DEF Fed, Queue!Score, Queue!Queued, Quiet
    <3>3. Room => \A u \in Quiet \cap On : u \in Todo \/ Fed(u)
      BY <1>1 DEF QueueInv, AddedInv
    <3>4. Room => \A u \in Quiet \cap On : u \in Todo' \/ Fed(u)'
      BY <2>2, <3>1, <3>2, <3>3
    <3> QED
      BY <1>2, <2>2, <3>4 DEF AddedInv
  <2>5. QueueInv' /\ Queue!ClaimsCurrent
    BY <1>1, <2>1, <2>2, <2>3, <2>4, FeedKeeps
  <2> QED
    BY <2>1, <2>5 DEF QueueMoves
<1> QED
  BY <1>1, <1>3, <1>4, <1>5

\* The connection fails.
LEMMA FeedFailsKeeps ==
    ASSUME QueueInv, Queue!FeedFails
    PROVE  QueueInv' /\ QueueMoves
<1>1. /\ feed.pc \in {"remove", "enqueue"} /\ feed.todo # <<>>
      /\ feed' = [pc |-> "failed", todo |-> <<>>] /\ UNCHANGED <<records, worker, since>>
      /\ \/ UNCHANGED <<queue, urls, depths>>
         \/ feed.pc = "remove" /\ Queue!Removed(Queue!Ids(Queue!Batch))
         \/ feed.pc = "enqueue"
            /\ Queue!Enqueued(Queue!Ids(Queue!Batch), Queue!Asked(Queue!Batch))
  BY DEF Queue!FeedFails, Queue!redis
<1>2. RedisTypes' /\ Queue!NoOrphans' /\ Queue!OnlyImproves /\ Queue!KeepsInvalidOut
  BY <1>1, QueueStays, RemoveBatchFacts, AddBatchFacts
<1>3. TodoOK' /\ RemovedInv' /\ AddedInv'
  BY <1>1, FeedIdles
<1>4. QueueInv' /\ Queue!ClaimsCurrent
  BY <1>1, <1>2, <1>3, FeedKeeps
<1> QED
  BY <1>2, <1>4 DEF QueueMoves

\* The feeder looks up the enabled records.  When there is room for all of them,
\* what is to do has all the valid ones.
LEMMA FindEnabledKeeps ==
    ASSUME QueueInv, Queue!FindEnabled
    PROVE  QueueInv' /\ QueueMoves
<1> DEFINE all == ByPriority(On)
           some == IF FeedLimit = 0 \/ Len(all) <= FeedLimit THEN all
                   ELSE SubSeq(all, 1, FeedLimit)
           ids == Queue!ToSet(some) \ Invalid
           t == ByPriority(ids)
           r == [k \in 1..Len(t) |-> [id |-> t[k], score |-> Queue!Score(t[k])]]
           T == [id : QueueId \ Invalid, score : Nat]
<1>1. /\ feed.pc = "enabled" /\ feed' = [pc |-> "enqueue", todo |-> r]
      /\ UNCHANGED <<records, worker, since, queue, urls, depths>>
  BY DEF Queue!FindEnabled, Queue!redis, ByPriority, On
<1>2. On \in SUBSET QueueId /\ Lists(all, On)
  BY ByPriorityLists DEF On
<1> HIDE DEF all
<1>3. some \in Seq(On) /\ Queue!ToSet(some) \in SUBSET On /\ (Room => some = all)
  <2>1. all \in Seq(On) /\ Len(all) = Cardinality(On)
    BY <1>2 DEF Lists
  <2>2. some \in Seq(On)
    <3>1. CASE FeedLimit = 0 \/ Len(all) <= FeedLimit
      BY <2>1, <3>1
    <3>2. CASE ~(FeedLimit = 0 \/ Len(all) <= FeedLimit)
      <4>1. FeedLimit \in 0..Len(all)
        <5>1. Len(all) \in Nat
          BY <2>1
        <5> QED
          BY <3>2, <5>1, QueueAssumption
      <4>2. SubSeq(all, 1, FeedLimit) \in Seq(On)
        BY <2>1, <4>1, CutInTwo
      <4> QED
        BY <3>2, <4>2
    <3> QED
      BY <3>1, <3>2
  <2>3. Queue!ToSet(some) \in SUBSET On
    <3> HIDE DEF some
    <3> QED
      BY <2>2 DEF Queue!ToSet
  <2>4. Room => some = all
    <3> SUFFICES ASSUME Room, FeedLimit # 0
                 PROVE  Len(all) <= FeedLimit
      OBVIOUS
    <3> DEFINE B == since \cup On
    <3>1. IsFiniteSet(B) /\ On \in SUBSET B
      <4>1. B \in SUBSET QueueId
        BY <1>2 DEF QueueInv, QueueTypes
      <4> QED
        BY <4>1, QueueAssumption, FS_Subset
    <3>2. Cardinality(B) <= FeedLimit
      BY DEF Room
    <3> HIDE DEF B
    <3>3. IsFiniteSet(On) /\ Cardinality(On) <= Cardinality(B)
      BY <3>1, FS_Subset
    <3>4. Cardinality(On) \in Nat /\ Cardinality(B) \in Nat
      BY <3>1, <3>3, FS_CardinalityType
    <3> QED
      BY <2>1, <3>2, <3>3, <3>4, QueueAssumption
  <2> QED
    BY <2>2, <2>3, <2>4
<1>4. Room => ids = On \ Invalid
  <2>1. Queue!ToSet(all) = On
    <3>1. all \in Seq(On) /\ \A u \in On : \E k \in 1..Len(all) : all[k] = u
      BY <1>2 DEF Lists
    <3>2. DOMAIN all = 1..Len(all) /\ \A k \in 1..Len(all) : all[k] \in On
      BY <3>1
    <3> QED
      BY <3>1, <3>2 DEF Queue!ToSet
  <2> HIDE DEF some
  <2> QED
    BY <1>3, <2>1
<1>5. Lists(t, ids) /\ ids \in SUBSET (On \ Invalid)
  <2>1. ids \in SUBSET (On \ Invalid) /\ ids \in SUBSET QueueId
    BY <1>2, <1>3
  <2> HIDE DEF ids
  <2> QED
    BY <2>1, ByPriorityLists
<1> HIDE DEF some, ids, t
<1>6. r \in Seq(T) /\ Len(r) = Len(t) /\ Queue!Ids(r) = ids
  <2>1. \A k \in 1..Len(t) : t[k] \in QueueId \ Invalid /\ Queue!Score(t[k]) \in Nat
    <3>1. \A k \in 1..Len(t) : t[k] \in QueueId \ Invalid
      BY <1>2, <1>5 DEF Lists
    <3>2. \A u \in QueueId : Queue!Score(u) \in Nat
      BY DEF QueueInv, QueueTypes, Queue!Score
    <3> QED
      BY <3>1, <3>2
  <2>2. \A k \in 1..Len(t) : r[k] \in T /\ r[k].id = t[k]
    BY <2>1
  <2>3. r = [k \in 1..Len(t) |-> r[k]]
    OBVIOUS
  <2> HIDE DEF r, T
  <2> QED
    BY <1>5, <2>2, <2>3, ListedRecords
<1>7. \A k \in 1..Len(r) : r[k].score = records[r[k].id].priority - 1
  BY <1>6 DEF Queue!Score
<1> HIDE DEF r
<1>8. feed'.pc = "enqueue" /\ feed'.todo = r
  BY <1>1
<1>9. TodoOK'
  <2>1. r \in Seq([id : QueueId \ Invalid] \cup T)
    <3> HIDE DEF T
    <3> QED
      BY <1>6
  <2>2. \A k \in 1..Len(feed'.todo) : feed'.todo[k].score = Queue!Score(feed.todo[k].id)'
    BY <1>1, <1>7, <1>8 DEF Queue!Score
  <2> QED
    BY <1>1, <1>6, <1>8, <2>1, <2>2 DEF TodoOK
<1>10. RemovedInv' /\ AddedInv'
  <2>1. Todo' = ids
    BY <1>6, <1>8 DEF Todo, Queue!Ids
  <2>2. Quiet' = Quiet /\ On' = On /\ (Room' <=> Room)
    BY <1>1 DEF Quiet, On, Room
  <2>3. \A u \in Quiet \ On : u \notin Queue!Queued
    BY <1>1 DEF QueueInv, RemovedInv
  <2>4. RemovedInv'
    BY <1>1, <1>5, <1>8, <2>1, <2>2, <2>3 DEF RemovedInv, Queue!Queued
  <2>5. AddedInv'
    BY <1>4, <1>8, <2>1, <2>2 DEF AddedInv, Quiet
  <2> QED
    BY <2>4, <2>5
<1>11. RedisTypes' /\ Queue!NoOrphans' /\ Queue!OnlyImproves /\ Queue!KeepsInvalidOut
  BY <1>1, QueueStays
<1>12. QueueInv' /\ Queue!ClaimsCurrent
  BY <1>1, <1>9, <1>10, <1>11, FeedKeeps
<1> QED
  BY <1>11, <1>12 DEF QueueMoves
-----------------------------------------------------------------------------
(* The queue as a whole. *)

\* The queue at the start.
LEMMA QueueBegins ==
    Queue!Init => QueueInv
<1> SUFFICES ASSUME Queue!Init
             PROVE  QueueInv
  OBVIOUS
<1>1. PICK on \in SUBSET QueueId :
          records = [u \in QueueId |-> [enabled |-> u \in on, priority |-> (u % 3) + 1]]
  BY DEF Queue!Init
<1>2. PICK p : queue = [u \in QueueId |-> IF u \in p THEN 1 ELSE -1]
  BY DEF Queue!Init, Queue!None
<1>3. PICK other \in {{}} \cup {{u} : u \in QueueId \ Queue!Queued} :
          urls = [u \in QueueId |-> IF u \in other THEN "other"
                                    ELSE IF u \in Queue!Queued THEN "own" ELSE "none"]
  BY DEF Queue!Init
<1>4. /\ depths = [u \in QueueId |-> IF urls[u] = "none" THEN -1 ELSE 1]
      /\ feed = [pc |-> "off", todo |-> <<>>] /\ worker = [w \in Worker |-> Queue!Off]
      /\ since = {}
  BY DEF Queue!Init, Queue!FeedOff, Queue!None
<1>5. RedisTypes
  BY <1>2, <1>3, <1>4 DEF RedisTypes, MaybeNat
<1>6. Queue!NoOrphans
  <2>1. \A u \in Queue!Queued : urls[u] = "own"
    BY <1>3 DEF Queue!Queued
  <2>2. \A u \in Queue!Queued : depths[u] # -1
    BY <1>4, <2>1 DEF Queue!Queued
  <2> QED
    BY <2>1, <2>2 DEF Queue!NoOrphans, Queue!None
<1>7. QueueTypes
  <2>1. records \in [QueueId -> [enabled : BOOLEAN, priority : 1..3]]
    <3>1. \A u \in QueueId : (u % 3) + 1 \in 1..3
      BY QueueAssumption
    <3>2. \A u \in QueueId : (u \in on) \in BOOLEAN
      OBVIOUS
    <3> QED
      BY <1>1, <3>1, <3>2
  <2>2. Queue!Off \in WorkerRecord /\ Queue!Off.pc = "idle"
    BY DEF Queue!Off, WorkerRecord
  <2> QED
    BY <1>4, <2>1, <2>2 DEF QueueTypes
<1>8. TodoOK /\ RemovedInv /\ AddedInv
  <2>1. feed.pc = "off" /\ feed.todo = <<>>
    BY <1>4
  <2> QED
    BY <1>4, <2>1 DEF TodoOK, RemovedInv, AddedInv
<1> QED
  BY <1>5, <1>6, <1>7, <1>8 DEF QueueInv

\* Every step of the queue keeps its invariant, and does none of what no step
\* may do.
LEMMA QueueSteps ==
    QueueInv /\ Queue!Next => QueueInv' /\ QueueMoves
<1> SUFFICES ASSUME QueueInv, Queue!Next
             PROVE  QueueInv' /\ QueueMoves
  OBVIOUS
<1>1. CASE Queue!FeedStart \/ Queue!Feed \/ Queue!FeedFails
  BY <1>1, FeedStartKeeps, FindDisabledKeeps, RemoveBatchKeeps, FindEnabledKeeps,
     EnqueueBatchKeeps, FeedFailsKeeps DEF Queue!Feed
<1>2. ASSUME NEW w \in Worker, Queue!Claim(w) \/ Queue!Requeue(w) \/ Queue!PushLink(w)
                               \/ Queue!EndCrawl(w)
      PROVE  QueueInv' /\ QueueMoves
  BY <1>2, ClaimKeeps, RequeueKeeps, PushLinkKeeps, EndCrawlKeeps
<1>3. ASSUME NEW w \in Worker, NEW u \in QueueId,
             Queue!Inspect(w, u) \/ Queue!Discover(w, u)
      PROVE  QueueInv' /\ QueueMoves
  BY <1>3, InspectKeeps, DiscoverKeeps
<1>4. ASSUME NEW u \in QueueId, Queue!Edit(u)
      PROVE  QueueInv' /\ QueueMoves
  BY <1>4, EditKeeps
<1> QED
  BY <1>1, <1>2, <1>3, <1>4 DEF Queue!Next

\* A step of nobody.
LEMMA QueueStutters ==
    QueueInv /\ UNCHANGED queueVars => QueueInv' /\ QueueMoves
<1> SUFFICES ASSUME QueueInv, UNCHANGED queueVars
             PROVE  QueueInv' /\ QueueMoves
  OBVIOUS
<1>1. UNCHANGED <<records, queue, urls, depths, feed, worker, since>>
  BY DEF queueVars
<1>2. RedisTypes' /\ Queue!NoOrphans' /\ Queue!OnlyImproves /\ Queue!KeepsInvalidOut
  BY <1>1, QueueStays
<1>3. QueueTypes' /\ since \in SUBSET since'
  BY <1>1 DEF QueueInv, QueueTypes
<1>4. QueueInv'
  BY <1>1, <1>2, <1>3, OutsideKeeps
<1>5. Queue!ClaimsCurrent
  BY <1>1 DEF Queue!ClaimsCurrent
<1> QED
  BY <1>2, <1>4, <1>5 DEF QueueMoves

\* What the invariant says of a feed that has ended well.
LEMMA QueueIsFed ==
    QueueInv => Queue!NoOrphans /\ Queue!DisabledGone /\ Queue!EnabledPending
<1> SUFFICES ASSUME QueueInv
             PROVE  Queue!NoOrphans /\ Queue!DisabledGone /\ Queue!EnabledPending
  OBVIOUS
<1>1. Queue!NoOrphans
  BY DEF QueueInv
<1>2. Queue!DisabledGone
  BY DEF QueueInv, RemovedInv, Quiet, On, Queue!DisabledGone
<1>3. Queue!EnabledPending
  <2>1. Queue!Cardinality(since \cup On) = Cardinality(since \cup On)
    BY SameCount
  <2>2. Room => \A u \in Quiet \cap On : feed.pc = "done" => Fed(u)
    BY DEF QueueInv, AddedInv
  <2>3. FeedLimit = 0 \/ Queue!Cardinality(since \cup On) <= FeedLimit => Room
    BY <2>1 DEF Room
  <2> QED
    BY <2>2, <2>3 DEF Quiet, On, Fed, Queue!EnabledPending
<1> QED
  BY <1>1, <1>2, <1>3

-----------------------------------------------------------------------------
(* The composition: each part keeps its own invariant. *)

SeedingInv ==
    /\ program = "catalog" => CatalogInv
    /\ program = "queue" => QueueInv

SeedingMoves ==
    /\ program = "catalog" => KeepsProvenance /\ KeepsDisabled /\ LeavesLegacy /\ ReplacesWhole
    /\ program = "queue" => Queue!OnlyImproves /\ Queue!ClaimsCurrent /\ Queue!KeepsInvalidOut

\* The first states of both parts.
LEMMA SeedingBegins == SeedingInit => SeedingInv
BY CatalogBegins, QueueBegins DEF SeedingInit, SeedingInv

\* Every step of either part keeps its invariant, and does none of what no step
\* may do; the other part is not there.
LEMMA SeedingSteps ==
    ASSUME SeedingInv, [SeedingNext]_seedingVars
    PROVE  SeedingInv' /\ SeedingMoves
<1>1. program' = program
  BY DEF SeedingNext, seedingVars
<1>2. ASSUME program = "catalog"
      PROVE  CatalogInv' /\ CatalogMoves
  <2>1. CatalogInv
    BY <1>2 DEF SeedingInv
  <2>2. CASE Next
    BY <2>1, <2>2, CatalogSteps
  <2>3. CASE UNCHANGED vars
    BY <2>1, <2>3, CatalogStutters
  <2>4. Next \/ UNCHANGED vars
    BY <1>2 DEF SeedingNext, seedingVars, catalogVars, vars
  <2> QED
    BY <2>2, <2>3, <2>4
<1>3. ASSUME program = "queue"
      PROVE  QueueInv' /\ QueueMoves
  <2>1. QueueInv
    BY <1>3 DEF SeedingInv
  <2>2. CASE Queue!Next
    BY <2>1, <2>2, QueueSteps
  <2>3. CASE UNCHANGED queueVars
    BY <2>1, <2>3, QueueStutters
  <2>4. Queue!Next \/ UNCHANGED queueVars
    BY <1>3 DEF SeedingNext, seedingVars
  <2> QED
    BY <2>2, <2>3, <2>4
<1> QED
  BY <1>1, <1>2, <1>3 DEF SeedingInv, SeedingMoves, CatalogMoves, QueueMoves

\* Whatever importers, a rebuild and the operator do at the same time, with
\* writes that are refused and calls that fail, the catalog stays sound: the
\* merge in the server is the merge in Python, merging again changes nothing,
\* the documents under the validator are valid, and an import that ended well
\* has all its observations in the catalog.
THEOREM CatalogIsSound == SeedingSpec => []CatalogSound
<1>1. SeedingInv => CatalogSound
  BY CatalogIsFine DEF SeedingInv, CatalogSound
<1>2. SeedingInv /\ [SeedingNext]_seedingVars => SeedingInv'
  BY SeedingSteps
<1> QED
  BY <1>1, <1>2, SeedingBegins, PTL DEF SeedingSpec

\* Whatever the feeder, the workers and the operator do at the same time, the
\* queue of the crawl follows the catalog: no pending id lacks its URL or its
\* depth, and when a feed has ended well the records that were left alone are
\* pending if they are enabled and gone if they are disabled.
THEOREM QueueFollows == SeedingSpec => []QueueFollowsCatalog
<1>1. SeedingInv => QueueFollowsCatalog
  BY QueueIsFed DEF SeedingInv, QueueFollowsCatalog
<1>2. SeedingInv /\ [SeedingNext]_seedingVars => SeedingInv'
  BY SeedingSteps
<1> QED
  BY <1>1, <1>2, SeedingBegins, PTL DEF SeedingSpec

\* No step of an importer loses a source, goes back to an older observation,
\* enables what the operator disabled or touches a legacy collection, and a
\* rebuild replaces the catalog as a whole.  No step worsens a pending entry of
\* the queue, claims one that changed since it was inspected, or adds a record
\* that does not fit its URL.
THEOREM RecordsAreKept == SeedingSpec => RecordsKept
<1>1. SeedingInv /\ [SeedingNext]_seedingVars => SeedingInv'
  BY SeedingSteps
<1>2. SeedingInv /\ [SeedingNext]_seedingVars => SeedingMoves
  BY SeedingSteps
<1>3. SeedingInv /\ [SeedingNext]_seedingVars => [SeedingMoves]_seedingVars
  BY <1>2
<1> QED
  BY <1>1, <1>3, SeedingBegins, PTL DEF SeedingSpec, RecordsKept, SeedingMoves
=============================================================================

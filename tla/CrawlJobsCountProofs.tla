-------------------------- MODULE CrawlJobsCountProofs --------------------------
(***************************************************************************)
(* The counters of the Crawl Jobs V2 ledger equal what the job records add *)
(* up to, and stay within their budgets, for all values of the constants   *)
(* that the assumptions of CrawlJobs allow.                                *)
(*                                                                         *)
(* Every counter is the cardinality of a set: of the jobs of some kind, or *)
(* of the units of a function (Total).  A step changes the records of few  *)
(* jobs, so each proof compares two sets that differ there only.           *)
(***************************************************************************)
EXTENDS CrawlJobsProofs

-----------------------------------------------------------------------------
(* Counting.                                                               *)

\* Sets of jobs that differ within D only differ in size as they do within D.
LEMMA CountChange ==
    ASSUME NEW A \in SUBSET Jobs, NEW B \in SUBSET Jobs, NEW D \in SUBSET Jobs,
           \A i \in Jobs \ D : i \in A <=> i \in B
    PROVE  Cardinality(B) =
               Cardinality(A) - Cardinality(A \cap D) + Cardinality(B \cap D)
  <1>1. /\ IsFiniteSet(A) /\ Cardinality(A) \in Nat
        /\ IsFiniteSet(B) /\ Cardinality(B) \in Nat
        /\ Cardinality(A \cap D) \in Nat /\ Cardinality(B \cap D) \in Nat
    <2>1. A \cap D \in SUBSET Jobs /\ B \cap D \in SUBSET Jobs
      OBVIOUS
    <2> QED
      BY <2>1, CardinalityOfJobs
  <1>2. /\ Cardinality(A \ D) = Cardinality(A) - Cardinality(A \cap D)
        /\ Cardinality(B \ D) = Cardinality(B) - Cardinality(B \cap D)
    BY <1>1, FS_Difference
  <1>3. Cardinality(A \ D) = Cardinality(B \ D)
    <2>1. A \ D = B \ D
      OBVIOUS
    <2> QED
      BY <2>1
  <1> DEFINE size(S) == Cardinality(S)
  <1>4. /\ size(A \ D) = size(A) - size(A \cap D)
        /\ size(A \ D) = size(B) - size(B \cap D)
        /\ size(A) \in Nat /\ size(B) \in Nat
        /\ size(A \cap D) \in Nat /\ size(B \cap D) \in Nat
    BY <1>1, <1>2, <1>3
  <1>5. size(B) = size(A) - size(A \cap D) + size(B \cap D)
    <2> HIDE DEF size
    <2> QED
      BY <1>4
  <1> QED
    BY <1>5

\* Sets of jobs that differ at one job only.
LEMMA CountOne ==
    ASSUME NEW A \in SUBSET Jobs, NEW B \in SUBSET Jobs, NEW j \in Jobs,
           \A i \in Jobs \ {j} : i \in A <=> i \in B
    PROVE  /\ (j \in A <=> j \in B) => Cardinality(B) = Cardinality(A)
           /\ (j \notin A /\ j \in B) => Cardinality(B) = Cardinality(A) + 1
           /\ (j \in A /\ j \notin B) => Cardinality(B) = Cardinality(A) - 1
           /\ j \in A => Cardinality(A) > 0
  <1>1. /\ IsFiniteSet(A) /\ Cardinality(A) \in Nat
        /\ IsFiniteSet(B) /\ Cardinality(B) \in Nat
    BY CardinalityOfJobs
  <1>2. (j \in A <=> j \in B) => A = B
    OBVIOUS
  <1>3. (j \notin A /\ j \in B) => B = A \cup {j}
    OBVIOUS
  <1>4. (j \in A /\ j \notin B) => B = A \ {j}
    OBVIOUS
  <1>5. j \in A => Cardinality(A) > 0
    BY <1>1, FS_EmptySet
  <1> QED
    BY <1>1, <1>2, <1>3, <1>4, <1>5, FS_AddElement, FS_RemoveElement

\* A unit is a pair of an argument and one of the numbers it counts.
LEMMA UnitsOf ==
    ASSUME NEW S, NEW f \in [S -> Nat]
    PROVE  Units(f) = {u \in S \X Nat : u[2] \in 1 .. f[u[1]]}
  BY DEF Units

\* Each argument's units are among the units of the function.
LEMMA UnitsOfOne ==
    ASSUME NEW S, NEW f \in [S -> Nat], NEW x \in S, NEW n \in Nat
    PROVE  <<x, n>> \in Units(f) <=> n \in 1 .. f[x]
  BY UnitsOf

\* A function on a finite set has finitely many units.
LEMMA TotalIsNat ==
    ASSUME NEW S, IsFiniteSet(S), NEW f \in [S -> Nat]
    PROVE  IsFiniteSet(Units(f)) /\ Total(f) \in Nat
  <1> DEFINE row == [x \in S |-> {x} \X (1 .. f[x])]
             rows == {row[x] : x \in S}
  <1>1. \A x \in S : IsFiniteSet(row[x])
    <2> SUFFICES ASSUME NEW x \in S
                 PROVE  IsFiniteSet({x} \X (1 .. f[x]))
      OBVIOUS
    <2>1. IsFiniteSet({x}) /\ IsFiniteSet(1 .. f[x])
      <3>1. 1 \in Int /\ f[x] \in Int
        OBVIOUS
      <3> QED
        BY <3>1, FS_Singleton, FS_Interval
    <2> QED
      BY <2>1, FS_Product
  <1>2. row \in Surjection(S, rows)
    BY DEF Surjection
  <1>3. IsFiniteSet(rows)
    BY <1>2, FS_Surjection
  <1>4. IsFiniteSet(UNION rows)
    BY <1>1, <1>3, FS_UNION
  <1>5. Units(f) = UNION rows
    BY DEF Units
  <1> QED
    BY <1>4, <1>5, FS_CardinalityType DEF Total

\* No argument counts more than the total.
LEMMA PartOfTotal ==
    ASSUME NEW S, IsFiniteSet(S), NEW f \in [S -> Nat], NEW x \in S
    PROVE  f[x] =< Total(f)
  <1> DEFINE unit == [n \in 1 .. f[x] |-> <<x, n>>]
  <1>1. unit \in Injection(1 .. f[x], Units(f))
    <2>1. \A n \in 1 .. f[x] : unit[n] \in Units(f)
      BY UnitsOfOne
    <2>2. \A m, n \in 1 .. f[x] : unit[m] = unit[n] => m = n
      OBVIOUS
    <2> QED
      BY <2>1, <2>2 DEF Injection, IsInjective
  <1>2. Cardinality(1 .. f[x]) = f[x]
    BY FS_Interval
  <1> QED
    BY <1>1, <1>2, TotalIsNat, FS_Injection DEF Total

\* A function that counts nothing has no units.
LEMMA TotalOfNothing ==
    ASSUME NEW S, NEW f \in [S -> Nat], \A x \in S : f[x] = 0
    PROVE  Total(f) = 0
  <1>1. Units(f) = {}
    BY UnitsOf
  <1> QED
    BY <1>1, FS_EmptySet DEF Total

\* Counting one more at each argument in D adds the size of D.
LEMMA TotalRaised ==
    ASSUME NEW S, IsFiniteSet(S), NEW f \in [S -> Nat], NEW g \in [S -> Nat],
           NEW D \in SUBSET S,
           \A x \in D : g[x] = f[x] + 1, \A x \in S \ D : g[x] = f[x]
    PROVE  Total(g) = Total(f) + Cardinality(D)
  <1> DEFINE unit == [x \in D |-> <<x, g[x]>>]
             new == {unit[x] : x \in D}
  <1>1. IsFiniteSet(D)
    BY FS_Subset
  <1>2. unit \in Bijection(D, new)
    <2>1. unit \in Surjection(D, new)
      BY DEF Surjection
    <2>2. unit \in Injection(D, new)
      BY DEF Injection, IsInjective
    <2> QED
      BY <2>1, <2>2 DEF Bijection
  <1>3. IsFiniteSet(new) /\ Cardinality(new) = Cardinality(D)
    BY <1>1, <1>2, FS_Bijection DEF ExistsBijection
  <1>4. Units(g) = Units(f) \cup new
    <2>1. ASSUME NEW u \in Units(g)
          PROVE  u \in Units(f) \cup new
      <3>1. u \in S \X Nat /\ u[2] \in 1 .. g[u[1]]
        BY <2>1, UnitsOf
      <3>2. u = <<u[1], u[2]>> /\ u[1] \in S /\ u[2] \in Nat
        BY <3>1
      <3>3. u[2] \in 1 .. f[u[1]] \/ (u[1] \in D /\ u[2] = g[u[1]])
        BY <3>1, <3>2
      <3>4. u[2] \in 1 .. f[u[1]] => u \in Units(f)
        BY <3>2, UnitsOfOne
      <3>5. (u[1] \in D /\ u[2] = g[u[1]]) => u \in new
        BY <3>2
      <3> QED
        BY <3>3, <3>4, <3>5
    <2>2. ASSUME NEW u \in Units(f)
          PROVE  u \in Units(g)
      <3>1. u \in S \X Nat /\ u[2] \in 1 .. f[u[1]]
        BY <2>2, UnitsOf
      <3>2. f[u[1]] =< g[u[1]]
        BY <3>1
      <3> QED
        BY <3>1, <3>2, UnitsOf
    <2>3. ASSUME NEW x \in D
          PROVE  unit[x] \in Units(g)
      BY <2>3, UnitsOfOne
    <2> QED
      BY <2>1, <2>2, <2>3
  <1>5. Units(f) \cap new = {}
    <2> SUFFICES ASSUME NEW x \in D, unit[x] \in Units(f)
                 PROVE  FALSE
      OBVIOUS
    <2>1. <<x, g[x]>> \in Units(f) /\ g[x] \in Nat /\ x \in S
      OBVIOUS
    <2>2. g[x] \in 1 .. f[x]
      BY <2>1, UnitsOfOne
    <2> QED
      BY <2>2
  <1>6. IsFiniteSet(Units(f)) /\ Cardinality(Units(f)) \in Nat
    BY TotalIsNat DEF Total
  <1>7. Cardinality(D) \in Nat /\ Cardinality({}) = 0
    BY <1>1, FS_CardinalityType, FS_EmptySet
  <1> HIDE DEF new
  <1> QED
    BY <1>3, <1>4, <1>5, <1>6, <1>7, FS_Union DEF Total
-----------------------------------------------------------------------------
(* The inductive invariant.                                                *)

\* The jobs with a reservation in state st that a group of G pays for; the groups
\* whose requests are charged to a scope; the jobs that a group owns; the jobs of
\* J in a state of Z; the published ones.
Held(G, st) ==
    {j \in Jobs : /\ job[j].reservation.state = st
                  /\ job[j].reservation.group \in G}
Payers(s) == {g \in Groups : s \in ScopesOf[g]}
Owned(g) == {j \in Jobs : SourceGroup[j] = g}
JobsIn(J, Z) == {j \in J : job[j].state \in Z}
PublishedJobs == {j \in Jobs : job[j].last_reason = "published"}

\* What each job, and each group, has counted.
ClaimCounts == [j \in Jobs |-> job[j].claim_count]
StartCounts == [j \in Jobs |-> job[j].request_starts]
RetryCounts == [j \in Jobs |-> job[j].retry_count]
RecoveryCounts == [j \in Jobs |-> job[j].pre_io_recoveries]
CreationCounts == [j \in Jobs |-> job[j].next_request_ordinal - 1]
GroupStarts == [g \in Groups |-> group[g].started]

\* The counters of live requests, for the run, its groups and the rate scopes.
RequestsCounted ==
    /\ run.pending = Cardinality(Held(Groups, "pending"))
    /\ run.started = Cardinality(Held(Groups, "started"))
    /\ \A g \in Groups :
          /\ group[g].pending = Cardinality(Held({g}, "pending"))
          /\ group[g].active = Cardinality(Held({g}, "started"))
    /\ \A s \in Scopes :
          /\ scope[s].pending = Cardinality(Held(Payers(s), "pending"))
          /\ scope[s].started = Cardinality(Held(Payers(s), "started"))
          /\ scope[s].active = scope[s].pending + scope[s].started

\* The counters of jobs by their state.
JobsCounted ==
    /\ run.job_count = Cardinality(Jobs) - Cardinality(JobsIn(Jobs, {"absent"}))
    /\ run.open_job_count = Cardinality(JobsIn(Jobs, OpenStates))
    /\ run.completed = Cardinality(JobsIn(Jobs, {"completed"}))
    /\ run.dead = Cardinality(JobsIn(Jobs, {"dead"}))
    /\ run.cancelled = Cardinality(JobsIn(Jobs, {"cancelled"}))
    /\ run.commits = Cardinality(PublishedJobs)
    /\ \A g \in Groups : group[g].open = Cardinality(JobsIn(Owned(g), OpenStates))

\* The counters of what has happened.
TotalsCounted ==
    /\ run.claims = Total(ClaimCounts)
    /\ run.request_starts = Total(StartCounts)
    /\ run.retries = Total(RetryCounts)
    /\ run.recovered >= Total(RecoveryCounts)
    /\ run.reservation_creations = Total(CreationCounts)
StartsCounted ==
    /\ run.request_starts = Total(GroupStarts)
    /\ \A g \in Groups : group[g].active =< group[g].started

\* The budgets, as far as each admission is tested against them.
WithinLimits ==
    /\ run.request_starts + run.pending =< MaxRequestStarts
    /\ run.reservation_creations =< MaxReservations
    /\ \A g \in Groups : group[g].started + group[g].pending =< GroupLimit[g]
    /\ \A s \in Scopes : scope[s].active =< Concurrency[s]

CountInv ==
    /\ RequestsCounted /\ JobsCounted
    /\ TotalsCounted /\ StartsCounted /\ WithinLimits
LedgerInv == RecordInv /\ CountInv

\* A reservation that is held is paid for by a group of the run.
LEMMA PayerIsGroup ==
    ASSUME RecordInv, NEW j \in Jobs, job[j].reservation.state # "none"
    PROVE  job[j].reservation.group \in Groups
  BY DEF RecordInv, Sound, Margins

\* A step that touches the reservation of job j only.
LEMMA HeldOne ==
    ASSUME NEW j \in Jobs,
           \A i \in Jobs \ {j} : job'[i].reservation = job[i].reservation,
           NEW G, NEW st
    PROVE  LET was == /\ job[j].reservation.state = st
                      /\ job[j].reservation.group \in G
               is == /\ job'[j].reservation.state = st
                     /\ job'[j].reservation.group \in G
               n == Cardinality(Held(G, st))
               m == Cardinality(Held(G, st)')
           IN  /\ n \in Nat /\ m \in Nat
               /\ (was <=> is) => m = n
               /\ (~was /\ is) => m = n + 1
               /\ (was /\ ~is) => m = n - 1 /\ n > 0
  <1> DEFINE A == Held(G, st)
             B == Held(G, st)'
  <1>1. A \in SUBSET Jobs /\ B \in SUBSET Jobs
    BY DEF Held
  <1>2. \A i \in Jobs \ {j} : i \in A <=> i \in B
    BY DEF Held
  <1>3. /\ j \in A <=> /\ job[j].reservation.state = st
                       /\ job[j].reservation.group \in G
        /\ j \in B <=> /\ job'[j].reservation.state = st
                       /\ job'[j].reservation.group \in G
    BY DEF Held
  <1>4. Cardinality(A) \in Nat /\ Cardinality(B) \in Nat
    BY <1>1, CardinalityOfJobs
  <1> HIDE DEF A, B
  <1>5. /\ (j \in A <=> j \in B) => Cardinality(B) = Cardinality(A)
        /\ (j \notin A /\ j \in B) => Cardinality(B) = Cardinality(A) + 1
        /\ (j \in A /\ j \notin B) => Cardinality(B) = Cardinality(A) - 1
        /\ j \in A => Cardinality(A) > 0
    BY <1>1, <1>2, CountOne
  <1> QED
    BY <1>3, <1>4, <1>5 DEF A, B

\* A step that touches no reservation.
LEMMA HeldSame ==
    ASSUME \A i \in Jobs : job'[i].reservation = job[i].reservation
    PROVE  \A G, st : Held(G, st)' = Held(G, st)
  BY DEF Held
\* The numbers that the counters are.
LEMMA CounterTypes ==
    ASSUME TypeInv
    PROVE  /\ run.job_count \in Nat /\ run.open_job_count \in Int
           /\ run.request_starts \in Nat /\ run.pending \in Int
           /\ run.started \in Int /\ run.reservation_creations \in Nat
           /\ run.claims \in Nat /\ run.retries \in Nat /\ run.recovered \in Nat
           /\ run.completed \in Nat /\ run.dead \in Nat
           /\ run.cancelled \in Nat /\ run.commits \in Nat
           /\ \A g \in Groups :
                 /\ group[g].started \in Nat /\ group[g].pending \in Int
                 /\ group[g].active \in Int /\ group[g].open \in Int
           /\ \A s \in Scopes :
                 /\ scope[s].active \in Int /\ scope[s].pending \in Int
                 /\ scope[s].started \in Int
  BY DEF TypeInv, TypeOK, RunRecord, GroupRecord, ScopeRecord

\* The ordinal of the next request is never 0.
LEMMA OrdinalsPositive ==
    RecordInv => \A j \in Jobs : job[j].next_request_ordinal >= 1
  BY BoundsAssumption DEF RecordInv, Sound, CountersValid

\* Before and after a step, the functions that are totalled are functions of
\* natural numbers.
LEMMA CountFunctions ==
    ASSUME RecordInv, TypeInv',
           \A j \in Jobs :
               job'[j].next_request_ordinal >= job[j].next_request_ordinal
    PROVE  /\ IsFiniteSet(Jobs) /\ IsFiniteSet(Groups)
           /\ ClaimCounts \in [Jobs -> Nat] /\ StartCounts \in [Jobs -> Nat]
           /\ RetryCounts \in [Jobs -> Nat] /\ RecoveryCounts \in [Jobs -> Nat]
           /\ CreationCounts \in [Jobs -> Nat] /\ GroupStarts \in [Groups -> Nat]
           /\ ClaimCounts' \in [Jobs -> Nat] /\ StartCounts' \in [Jobs -> Nat]
           /\ RetryCounts' \in [Jobs -> Nat] /\ RecoveryCounts' \in [Jobs -> Nat]
           /\ CreationCounts' \in [Jobs -> Nat]
           /\ GroupStarts' \in [Groups -> Nat]
  <1>1. IsFiniteSet(Jobs) /\ IsFiniteSet(Groups)
    BY SetsAssumption
  <1>2. /\ job \in [Jobs -> JobRecord] /\ job' \in [Jobs -> JobRecord]
        /\ group \in [Groups -> GroupRecord] /\ group' \in [Groups -> GroupRecord]
        /\ \A j \in Jobs : job[j].next_request_ordinal >= 1
    BY OrdinalsPositive DEF RecordInv, TypeInv, TypeOK
  <1>3. \A r \in JobRecord :
            /\ r.claim_count \in Nat /\ r.request_starts \in Nat
            /\ r.retry_count \in Nat /\ r.pre_io_recoveries \in Nat
            /\ r.next_request_ordinal \in Nat
    BY DEF JobRecord
  <1>4. \A c \in GroupRecord : c.started \in Nat
    BY DEF GroupRecord
  <1>5. /\ ClaimCounts \in [Jobs -> Nat] /\ StartCounts \in [Jobs -> Nat]
        /\ RetryCounts \in [Jobs -> Nat] /\ RecoveryCounts \in [Jobs -> Nat]
    BY <1>2, <1>3 DEF ClaimCounts, StartCounts, RetryCounts, RecoveryCounts
  <1>6. /\ ClaimCounts' \in [Jobs -> Nat] /\ StartCounts' \in [Jobs -> Nat]
        /\ RetryCounts' \in [Jobs -> Nat] /\ RecoveryCounts' \in [Jobs -> Nat]
    BY <1>2, <1>3 DEF ClaimCounts, StartCounts, RetryCounts, RecoveryCounts
  <1>7. GroupStarts \in [Groups -> Nat] /\ GroupStarts' \in [Groups -> Nat]
    BY <1>2, <1>4 DEF GroupStarts
  <1>8. \A j \in Jobs : /\ job[j].next_request_ordinal - 1 \in Nat
                        /\ job'[j].next_request_ordinal - 1 \in Nat
    <2> SUFFICES ASSUME NEW j \in Jobs
                 PROVE  /\ job[j].next_request_ordinal - 1 \in Nat
                        /\ job'[j].next_request_ordinal - 1 \in Nat
      OBVIOUS
    <2>1. /\ job[j].next_request_ordinal \in Nat
          /\ job'[j].next_request_ordinal \in Nat
      BY <1>2, <1>3
    <2>2. /\ job[j].next_request_ordinal >= 1
          /\ job'[j].next_request_ordinal >= job[j].next_request_ordinal
      BY <1>2
    <2> QED
      BY <2>1, <2>2
  <1>9. CreationCounts \in [Jobs -> Nat] /\ CreationCounts' \in [Jobs -> Nat]
    BY <1>8 DEF CreationCounts
  <1> QED
    BY <1>1, <1>5, <1>6, <1>7, <1>9

\* The counters of jobs are as they were, for the run and for its groups.
JobCountersSame ==
    /\ run'.job_count = run.job_count /\ run'.open_job_count = run.open_job_count
    /\ run'.completed = run.completed /\ run'.dead = run.dead
    /\ run'.cancelled = run.cancelled /\ run'.commits = run.commits
    /\ \A g \in Groups : group'[g].open = group[g].open

\* A step that neither opens nor closes a job needs to change none of them.
LEMMA SameJobsCounted ==
    ASSUME JobsCounted, JobCountersSame,
           \A i \in Jobs :
               /\ \/ job'[i].state = job[i].state
                  \/ job[i].state \in OpenStates /\ job'[i].state \in OpenStates
               /\ job'[i].last_reason = "published"
                      <=> job[i].last_reason = "published"
    PROVE  JobsCounted'
  <1>1. ASSUME NEW J \in SUBSET Jobs,
               NEW Z \in {OpenStates, {"absent"}, {"completed"}, {"dead"}, {"cancelled"}}
        PROVE  JobsIn(J, Z)' = JobsIn(J, Z)
    BY <1>1 DEF JobsIn, OpenStates
  <1>2. PublishedJobs' = PublishedJobs
    BY DEF PublishedJobs
  <1>3. \A g \in Groups : Owned(g) \in SUBSET Jobs
    BY DEF Owned
  <1>4. /\ JobsIn(Jobs, {"absent"})' = JobsIn(Jobs, {"absent"})
        /\ JobsIn(Jobs, OpenStates)' = JobsIn(Jobs, OpenStates)
        /\ JobsIn(Jobs, {"completed"})' = JobsIn(Jobs, {"completed"})
        /\ JobsIn(Jobs, {"dead"})' = JobsIn(Jobs, {"dead"})
        /\ JobsIn(Jobs, {"cancelled"})' = JobsIn(Jobs, {"cancelled"})
        /\ \A g \in Groups : JobsIn(Owned(g), OpenStates)' = JobsIn(Owned(g), OpenStates)
    BY <1>1, <1>3 DEF Owned
  <1> QED
    BY <1>2, <1>4 DEF JobsCounted, JobCountersSame, Owned

-----------------------------------------------------------------------------
(* Admissions: claims and reservations.                                    *)

\* What a claim (c = 1) and a reservation (c = 0) have in common.
Admission(j, g, c) ==
    LET r == job[j]
        q == job'[j]
    IN  /\ Charge(g, c) /\ Admits(g)
        /\ r.reservation.state = "none"
        /\ q.reservation.state = "pending" /\ q.reservation.group = g
        /\ r.state \in OpenStates /\ q.state \in OpenStates
        /\ q.claim_count = r.claim_count + c
        /\ q.next_request_ordinal = r.next_request_ordinal + 1
        /\ q.request_starts = r.request_starts /\ q.retry_count = r.retry_count
        /\ q.pre_io_recoveries = r.pre_io_recoveries
        /\ q.last_reason = r.last_reason
        /\ \A i \in Jobs \ {j} : job'[i] = job[i]

\* What a charge does to each counter.
LEMMA ChargeFields ==
    ASSUME TypeInv, NEW g \in Groups, NEW c \in Nat, Charge(g, c)
    PROVE  /\ run'.pending = run.pending + 1
           /\ run'.reservation_creations = run.reservation_creations + 1
           /\ run'.claims = run.claims + c
           /\ run'.started = run.started
           /\ run'.request_starts = run.request_starts
           /\ run'.retries = run.retries /\ run'.recovered = run.recovered
           /\ JobCountersSame
           /\ \A h \in Groups :
                 /\ group'[h].pending =
                        group[h].pending + (IF h = g THEN 1 ELSE 0)
                 /\ group'[h].started = group[h].started
                 /\ group'[h].active = group[h].active
           /\ \A s \in Scopes :
                 /\ s \in ScopesOf[g] =>
                       /\ scope'[s].active = scope[s].active + 1
                       /\ scope'[s].pending = scope[s].pending + 1
                       /\ scope'[s].started = scope[s].started
                 /\ s \notin ScopesOf[g] => scope'[s] = scope[s]
  <1>1. /\ run \in RunRecord /\ group \in [Groups -> GroupRecord]
        /\ scope \in [Scopes -> ScopeRecord]
    BY DEF TypeInv, TypeOK
  <1>2. run' = [run EXCEPT
                  !.pending = run.pending + 1,
                  !.reservation_creations = run.reservation_creations + 1,
                  !.claims = run.claims + c]
    BY DEF Charge
  <1>3. \A h \in Groups :
           /\ group'[h].pending = group[h].pending + (IF h = g THEN 1 ELSE 0)
           /\ group'[h].started = group[h].started
           /\ group'[h].active = group[h].active
           /\ group'[h].open = group[h].open
    <2> DEFINE paid == [group[g] EXCEPT !.pending = group[g].pending + 1]
    <2>1. group' = [group EXCEPT ![g] = paid]
      BY DEF Charge
    <2>2. /\ paid.pending = group[g].pending + 1 /\ paid.started = group[g].started
          /\ paid.active = group[g].active /\ paid.open = group[g].open
      BY <1>1 DEF GroupRecord
    <2>3. \A h \in Groups : group[h].pending \in Int
      BY CounterTypes
    <2> HIDE DEF paid
    <2> QED
      BY <1>1, <2>1, <2>2, <2>3
  <1>4. \A s \in Scopes :
           /\ s \in ScopesOf[g] =>
                 scope'[s] = [scope[s] EXCEPT !.active = scope[s].active + 1,
                                              !.pending = scope[s].pending + 1]
           /\ s \notin ScopesOf[g] => scope'[s] = scope[s]
    BY DEF Charge
  <1>5. ASSUME NEW s \in Scopes, s \in ScopesOf[g]
        PROVE  /\ scope'[s].active = scope[s].active + 1
               /\ scope'[s].pending = scope[s].pending + 1
               /\ scope'[s].started = scope[s].started
    <2> DEFINE charged == [scope[s] EXCEPT !.active = scope[s].active + 1,
                                           !.pending = scope[s].pending + 1]
    <2>1. scope[s] \in ScopeRecord
      BY <1>1
    <2>2. /\ charged.active = scope[s].active + 1
          /\ charged.pending = scope[s].pending + 1
          /\ charged.started = scope[s].started
      BY <2>1 DEF ScopeRecord
    <2>3. scope'[s] = charged
      BY <1>4, <1>5
    <2> HIDE DEF charged
    <2> QED
      BY <2>2, <2>3
  <1>6. /\ run'.pending = run.pending + 1
        /\ run'.reservation_creations = run.reservation_creations + 1
        /\ run'.claims = run.claims + c
        /\ run'.started = run.started /\ run'.request_starts = run.request_starts
        /\ run'.retries = run.retries /\ run'.recovered = run.recovered
    BY <1>1, <1>2 DEF RunRecord
  <1>7. JobCountersSame
    BY <1>1, <1>2, <1>3 DEF RunRecord, JobCountersSame
  <1> QED
    BY <1>3, <1>4, <1>5, <1>6, <1>7

\* Admissions keep the counters of requests exact.
LEMMA AdmissionRequests ==
    ASSUME LedgerInv, NEW j \in Jobs, NEW g \in Groups, NEW c \in Nat,
           Admission(j, g, c)
    PROVE  RequestsCounted'
  <1>1. TypeInv /\ RequestsCounted /\ Charge(g, c)
    BY DEF LedgerInv, RecordInv, CountInv, Admission
  <1>2. ASSUME NEW G
        PROVE  /\ Cardinality(Held(G, "pending")') =
                      Cardinality(Held(G, "pending")) + (IF g \in G THEN 1 ELSE 0)
               /\ Cardinality(Held(G, "started")') = Cardinality(Held(G, "started"))
               /\ Cardinality(Held(G, "pending")) \in Nat
               /\ Cardinality(Held(G, "started")) \in Nat
    <2>1. \A i \in Jobs \ {j} : job'[i].reservation = job[i].reservation
      BY DEF Admission
    <2>2. /\ job[j].reservation.state = "none"
          /\ job'[j].reservation.state = "pending"
          /\ job'[j].reservation.group = g
      BY DEF Admission
    <2> QED
      BY <2>1, <2>2, HeldOne
  <1>3. /\ run'.pending = Cardinality(Held(Groups, "pending")')
        /\ run'.started = Cardinality(Held(Groups, "started")')
    BY <1>1, <1>2, ChargeFields DEF RequestsCounted
  <1>4. ASSUME NEW h \in Groups
        PROVE  /\ group'[h].pending = Cardinality(Held({h}, "pending")')
               /\ group'[h].active = Cardinality(Held({h}, "started")')
    <2>1. /\ group'[h].pending = group[h].pending + (IF h = g THEN 1 ELSE 0)
          /\ group'[h].active = group[h].active
      BY <1>1, ChargeFields
    <2> QED
      BY <1>1, <1>2, <2>1 DEF RequestsCounted
  <1>5. ASSUME NEW s \in Scopes
        PROVE  /\ scope'[s].pending = Cardinality(Held(Payers(s), "pending")')
               /\ scope'[s].started = Cardinality(Held(Payers(s), "started")')
               /\ scope'[s].active = scope'[s].pending + scope'[s].started
    <2>1. g \in Payers(s) <=> s \in ScopesOf[g]
      BY DEF Payers
    <2>2. /\ scope[s].pending = Cardinality(Held(Payers(s), "pending"))
          /\ scope[s].started = Cardinality(Held(Payers(s), "started"))
          /\ scope[s].active = scope[s].pending + scope[s].started
      BY <1>1 DEF RequestsCounted
    <2>3. /\ s \in ScopesOf[g] =>
                /\ scope'[s].active = scope[s].active + 1
                /\ scope'[s].pending = scope[s].pending + 1
                /\ scope'[s].started = scope[s].started
          /\ s \notin ScopesOf[g] => scope'[s] = scope[s]
      BY <1>1, ChargeFields
    <2> QED
      BY <1>2, <2>1, <2>2, <2>3
  <1> QED
    BY <1>3, <1>4, <1>5 DEF RequestsCounted, Payers

\* Admissions keep the totals exact.
LEMMA AdmissionTotals ==
    ASSUME LedgerInv, TypeInv', NEW j \in Jobs, NEW g \in Groups, NEW c \in {0, 1},
           Admission(j, g, c)
    PROVE  TotalsCounted' /\ StartsCounted'
  <1>1. /\ TypeInv /\ RecordInv /\ Charge(g, c) /\ c \in Nat
        /\ TotalsCounted /\ StartsCounted
    BY DEF LedgerInv, RecordInv, CountInv, Admission
  <1>2. \A i \in Jobs :
            job'[i].next_request_ordinal >= job[i].next_request_ordinal
    <2>1. \A i \in Jobs : job[i].next_request_ordinal \in Nat
      BY <1>1 DEF TypeInv, TypeOK, JobRecord
    <2>2. job'[j].next_request_ordinal = job[j].next_request_ordinal + 1
      BY DEF Admission
    <2>3. \A i \in Jobs \ {j} : job'[i] = job[i]
      BY DEF Admission
    <2> QED
      BY <2>1, <2>2, <2>3
  <1>3. /\ IsFiniteSet(Jobs)
        /\ ClaimCounts \in [Jobs -> Nat] /\ ClaimCounts' \in [Jobs -> Nat]
        /\ CreationCounts \in [Jobs -> Nat] /\ CreationCounts' \in [Jobs -> Nat]
    BY <1>1, <1>2, CountFunctions
  <1>4. Total(CreationCounts)' = Total(CreationCounts) + 1
    <2>1. CreationCounts'[j] = CreationCounts[j] + 1
      <3>1. job[j].next_request_ordinal \in Nat
        BY <1>1 DEF TypeInv, TypeOK, JobRecord
      <3> QED
        BY <3>1 DEF CreationCounts, Admission
    <2>2. \A i \in Jobs \ {j} : CreationCounts'[i] = CreationCounts[i]
      BY DEF CreationCounts, Admission
    <2>3. Cardinality({j}) = 1 /\ {j} \in SUBSET Jobs
      BY FS_Singleton
    <2>4. \A i \in {j} : CreationCounts'[i] = CreationCounts[i] + 1
      BY <2>1
    <2>5. Total(CreationCounts') = Total(CreationCounts) + Cardinality({j})
      BY <1>3, <2>2, <2>3, <2>4, TotalRaised
    <2>6. Total(CreationCounts)' = Total(CreationCounts')
      BY DEF Total, Units
    <2> QED
      BY <2>3, <2>5, <2>6
  <1>5. Total(ClaimCounts)' = Total(ClaimCounts) + c
    <2> DEFINE D == IF c = 1 THEN {j} ELSE {}
    <2>1. /\ \A i \in D : ClaimCounts'[i] = ClaimCounts[i] + 1
          /\ \A i \in Jobs \ D : ClaimCounts'[i] = ClaimCounts[i]
      <3>1. ClaimCounts'[j] = ClaimCounts[j] + c /\ ClaimCounts[j] \in Nat
        BY <1>3 DEF ClaimCounts, Admission
      <3>2. \A i \in Jobs \ {j} : ClaimCounts'[i] = ClaimCounts[i]
        BY DEF ClaimCounts, Admission
      <3> QED
        BY <3>1, <3>2
    <2>2. Cardinality(D) = c /\ D \in SUBSET Jobs
      BY FS_Singleton, FS_EmptySet
    <2> HIDE DEF D
    <2> QED
      BY <1>3, <2>1, <2>2, TotalRaised
  <1>6. /\ StartCounts' = StartCounts /\ RetryCounts' = RetryCounts
        /\ RecoveryCounts' = RecoveryCounts
    BY DEF StartCounts, RetryCounts, RecoveryCounts, Admission
  <1>7. GroupStarts' = GroupStarts
    BY <1>1, ChargeFields DEF GroupStarts
  <1>8. TotalsCounted'
    BY <1>1, <1>4, <1>5, <1>6, ChargeFields DEF TotalsCounted
  <1>9. StartsCounted'
    BY <1>1, <1>7, ChargeFields DEF StartsCounted
  <1> QED
    BY <1>8, <1>9

\* Admissions respect every limit.
LEMMA AdmissionLimits ==
    ASSUME LedgerInv, NEW j \in Jobs, NEW g \in Groups, NEW c \in Nat,
           Admission(j, g, c)
    PROVE  WithinLimits'
  <1>1. TypeInv /\ Charge(g, c) /\ WithinLimits /\ WithinBudget(g)
    BY DEF LedgerInv, RecordInv, CountInv, Admission, Admits
  <1>2. /\ MaxRequestStarts \in Nat /\ MaxReservations \in Nat
        /\ \A h \in Groups : GroupLimit[h] \in Nat
        /\ \A s \in Scopes : Concurrency[s] \in Nat
    BY BoundsAssumption, PolicyAssumption
  <1>3. /\ run'.request_starts + run'.pending =< MaxRequestStarts
        /\ run'.reservation_creations =< MaxReservations
    <2>1. /\ run.request_starts \in Nat /\ run.pending \in Int
          /\ run.reservation_creations \in Nat
      BY <1>1, CounterTypes
    <2>2. /\ run'.pending = run.pending + 1
          /\ run'.request_starts = run.request_starts
          /\ run'.reservation_creations = run.reservation_creations + 1
      BY <1>1, ChargeFields
    <2>3. /\ run.request_starts + run.pending =< MaxRequestStarts
          /\ run.request_starts + run.pending # MaxRequestStarts
          /\ run.reservation_creations =< MaxReservations
          /\ run.reservation_creations # MaxReservations
      BY <1>1 DEF WithinLimits, WithinBudget
    <2>4. run'.request_starts + run'.pending =< MaxRequestStarts
      BY <1>2, <2>1, <2>2, <2>3
    <2>5. run'.reservation_creations =< MaxReservations
      BY <1>2, <2>1, <2>2, <2>3
    <2> QED
      BY <2>4, <2>5
  <1>4. ASSUME NEW h \in Groups
        PROVE  group'[h].started + group'[h].pending =< GroupLimit[h]
    <2>1. /\ group[h].started \in Nat /\ group[h].pending \in Int
          /\ GroupLimit[h] \in Nat
      BY <1>1, <1>2, CounterTypes
    <2>2. /\ group'[h].pending = group[h].pending + (IF h = g THEN 1 ELSE 0)
          /\ group'[h].started = group[h].started
      BY <1>1, ChargeFields
    <2>3. group[h].started + group[h].pending =< GroupLimit[h]
      BY <1>1 DEF WithinLimits
    <2>4. h = g => group[h].started + group[h].pending # GroupLimit[h]
      BY <1>1 DEF WithinBudget
    <2>5. CASE h = g
      BY <2>1, <2>2, <2>3, <2>4, <2>5
    <2>6. CASE h # g
      <3>1. group'[h].pending = group[h].pending
        BY <2>1, <2>2, <2>6
      <3> QED
        BY <2>2, <2>3, <3>1
    <2> QED
      BY <2>5, <2>6
  <1>5. ASSUME NEW s \in Scopes
        PROVE  scope'[s].active =< Concurrency[s]
    <2>1. scope[s].active \in Int /\ scope[s].active =< Concurrency[s]
      BY <1>1, CounterTypes DEF WithinLimits
    <2>2. s \in ScopesOf[g] => /\ scope[s].active < Concurrency[s]
                               /\ scope'[s].active = scope[s].active + 1
      BY <1>1, ChargeFields DEF Admission, Admits, ScopeAdmits
    <2>3. s \notin ScopesOf[g] => scope'[s] = scope[s]
      BY <1>1, ChargeFields
    <2> QED
      BY <1>2, <2>1, <2>2, <2>3
  <1> QED
    BY <1>3, <1>4, <1>5 DEF WithinLimits

\* Admissions keep all counters exact and within their limits.
LEMMA AdmissionCounts ==
    ASSUME LedgerInv, TypeInv', NEW j \in Jobs, NEW g \in Groups, NEW c \in {0, 1},
           Admission(j, g, c)
    PROVE  CountInv'
  <1>1. TypeInv /\ JobsCounted /\ Charge(g, c) /\ c \in Nat
    BY DEF LedgerInv, RecordInv, CountInv, Admission
  <1>2. JobsCounted'
    <2>1. JobCountersSame
      BY <1>1, ChargeFields
    <2> QED
      BY <1>1, <2>1, SameJobsCounted DEF Admission
  <1> QED
    BY <1>1, <1>2, AdmissionRequests, AdmissionTotals, AdmissionLimits DEF CountInv

\* A claim is an admission.
LEMMA ClaimAdmits ==
    ASSUME LedgerInv, NEW w \in Workers, NEW j \in Jobs, NEW prior,
           NEW k \in RequestKinds, NEW heard, Claim(w, j, prior, k, heard)
    PROVE  Admission(j, SourceGroup[j], 1)
  <1> DEFINE r == job[j]
             p == PendingReservation(j, SourceGroup[j], k, "claim")
             q == [r EXCEPT !.state = "leased", !.claim_count = r.claim_count + 1,
                       !.lease_fence = r.lease_fence + 1, !.lease_owner = w,
                       !.lease_left = LeaseTTL, !.lease_delivery_started = 0,
                       !.baseline = r.request_starts, !.reservation = p,
                       !.next_request_ordinal = r.next_request_ordinal + 1,
                       !.last_status = "CLAIMED"]
  <1>1. job \in [Jobs -> JobRecord] /\ r \in JobRecord /\ Sound(r, stage[j])
    BY DEF LedgerInv, RecordInv, TypeInv, TypeOK
  <1>2. job' = [job EXCEPT ![j] = q] /\ r.state = "ready"
    BY DEF Claim
  <1>3. p.state = "pending" /\ p.group = SourceGroup[j]
    BY DEF PendingReservation
  <1> HIDE DEF p
  <1>4. /\ q.state = "leased" /\ q.claim_count = r.claim_count + 1
        /\ q.reservation = p
        /\ q.next_request_ordinal = r.next_request_ordinal + 1
        /\ q.request_starts = r.request_starts /\ q.retry_count = r.retry_count
        /\ q.pre_io_recoveries = r.pre_io_recoveries
        /\ q.last_reason = r.last_reason
    BY <1>1 DEF JobRecord
  <1>5. r.reservation.state = "none"
    BY <1>1, <1>2 DEF Sound, LeaseValid, NoReservation
  <1> HIDE DEF q
  <1>6. job'[j] = q /\ \A i \in Jobs \ {j} : job'[i] = job[i]
    BY <1>1, <1>2
  <1>7. Charge(SourceGroup[j], 1) /\ Admits(SourceGroup[j])
    BY DEF Claim, AdmitsClaim
  <1> QED
    BY <1>2, <1>3, <1>4, <1>5, <1>6, <1>7 DEF Admission, OpenStates

\* So is a reservation.
LEMMA ReserveAdmits ==
    ASSUME LedgerInv, NEW w \in Workers, NEW j \in Jobs, NEW f,
           NEW g \in Groups, NEW k \in RequestKinds, Reserve(w, j, f, g, k)
    PROVE  Admission(j, g, 0)
  <1> DEFINE r == job[j]
             p == PendingReservation(j, g, k, "reserve")
             q == [r EXCEPT !.reservation = p,
                            !.next_request_ordinal = r.next_request_ordinal + 1]
  <1>1. job \in [Jobs -> JobRecord] /\ r \in JobRecord
    BY DEF LedgerInv, RecordInv, TypeInv, TypeOK
  <1>2. /\ job' = [job EXCEPT ![j] = q]
        /\ r.state = "leased" /\ r.reservation = NoReservation
    BY DEF Reserve, Holds
  <1>3. p.state = "pending" /\ p.group = g /\ NoReservation.state = "none"
    BY DEF PendingReservation, NoReservation
  <1> HIDE DEF p
  <1>4. /\ q.state = "leased" /\ q.claim_count = r.claim_count
        /\ q.reservation = p
        /\ q.next_request_ordinal = r.next_request_ordinal + 1
        /\ q.request_starts = r.request_starts /\ q.retry_count = r.retry_count
        /\ q.pre_io_recoveries = r.pre_io_recoveries
        /\ q.last_reason = r.last_reason
    BY <1>1, <1>2 DEF JobRecord
  <1>5. r.claim_count + 0 = r.claim_count
    BY <1>1 DEF JobRecord
  <1> HIDE DEF q
  <1>6. job'[j] = q /\ \A i \in Jobs \ {j} : job'[i] = job[i]
    BY <1>1, <1>2
  <1>7. Charge(g, 0) /\ Admits(g)
    BY DEF Reserve
  <1> QED
    BY <1>2, <1>3, <1>4, <1>5, <1>6, <1>7 DEF Admission, OpenStates

-----------------------------------------------------------------------------
(* Steps that change few counters, or none.                                *)

\* The counters of requests, and those of what has happened, are as they were.
RequestCountersSame ==
    /\ run'.pending = run.pending /\ run'.started = run.started
    /\ \A g \in Groups : /\ group'[g].pending = group[g].pending
                         /\ group'[g].active = group[g].active
    /\ \A s \in Scopes : /\ scope'[s].active = scope[s].active
                         /\ scope'[s].pending = scope[s].pending
                         /\ scope'[s].started = scope[s].started
TotalCountersSame ==
    /\ run'.claims = run.claims /\ run'.request_starts = run.request_starts
    /\ run'.retries = run.retries /\ run'.recovered = run.recovered
    /\ run'.reservation_creations = run.reservation_creations
    /\ \A g \in Groups : group'[g].started = group[g].started

\* What q adds to the totals is what r adds.
SameTotals(r, q) ==
    /\ q.claim_count = r.claim_count /\ q.request_starts = r.request_starts
    /\ q.retry_count = r.retry_count /\ q.pre_io_recoveries = r.pre_io_recoveries
    /\ q.next_request_ordinal = r.next_request_ordinal

\* The job counters need not change from r to q.
SameStatus(r, q) ==
    /\ \/ q.state = r.state
       \/ r.state \in OpenStates /\ q.state \in OpenStates
    /\ q.last_reason = "published" <=> r.last_reason = "published"

\* A step that touches no reservation needs to change no counter of requests.
LEMMA SameRequestsCounted ==
    ASSUME RequestsCounted, RequestCountersSame,
           \A i \in Jobs : job'[i].reservation = job[i].reservation
    PROVE  RequestsCounted'
  <1>1. \A G, st : Held(G, st)' = Held(G, st)
    BY HeldSame
  <1>2. /\ Held(Groups, "pending")' = Held(Groups, "pending")
        /\ Held(Groups, "started")' = Held(Groups, "started")
        /\ \A g \in Groups : /\ Held({g}, "pending")' = Held({g}, "pending")
                             /\ Held({g}, "started")' = Held({g}, "started")
        /\ \A s \in Scopes :
              /\ Held(Payers(s), "pending")' = Held(Payers(s), "pending")
              /\ Held(Payers(s), "started")' = Held(Payers(s), "started")
    BY <1>1 DEF Payers
  <1> QED
    BY <1>2 DEF RequestsCounted, RequestCountersSame

\* A step that counts nothing for any job leaves the totals as they are.
LEMMA SameTotalsCounted ==
    ASSUME TypeInv, TypeInv', TotalsCounted, StartsCounted, TotalCountersSame,
           \A i \in Jobs : SameTotals(job[i], job'[i]),
           \A g \in Groups : group'[g].active =< group[g].active
    PROVE  TotalsCounted' /\ StartsCounted'
  <1>1. /\ ClaimCounts' = ClaimCounts /\ StartCounts' = StartCounts
        /\ RetryCounts' = RetryCounts /\ RecoveryCounts' = RecoveryCounts
        /\ CreationCounts' = CreationCounts
    BY DEF SameTotals, ClaimCounts, StartCounts, RetryCounts, RecoveryCounts,
           CreationCounts
  <1>2. GroupStarts' = GroupStarts
    BY DEF TotalCountersSame, GroupStarts
  <1>3. \A g \in Groups : group'[g].active =< group'[g].started
    <2> SUFFICES ASSUME NEW g \in Groups
                 PROVE  group'[g].active =< group'[g].started
      OBVIOUS
    <2>1. /\ group[g].started \in Nat /\ group[g].active \in Int
          /\ group'[g].active \in Int
      BY CounterTypes DEF TypeInv, TypeOK, GroupRecord
    <2>2. /\ group[g].active =< group[g].started
          /\ group'[g].started = group[g].started
          /\ group'[g].active =< group[g].active
      BY DEF StartsCounted, TotalCountersSame
    <2> QED
      BY <2>1, <2>2
  <1> QED
    BY <1>1, <1>2, <1>3 DEF TotalsCounted, StartsCounted, TotalCountersSame

\* A step that starts no request and admits none stays within every limit.
LEMMA LimitsKept ==
    ASSUME TypeInv, TypeInv', WithinLimits, TotalCountersSame,
           run'.pending =< run.pending,
           \A g \in Groups : group'[g].pending =< group[g].pending,
           \A s \in Scopes : scope'[s].active =< scope[s].active
    PROVE  WithinLimits'
  <1>1. /\ run.request_starts \in Nat /\ run.pending \in Int /\ run'.pending \in Int
        /\ MaxRequestStarts \in Nat
    BY CounterTypes, BoundsAssumption DEF TypeInv, TypeOK, RunRecord
  <1>2. /\ run'.request_starts + run'.pending =< MaxRequestStarts
        /\ run'.reservation_creations =< MaxReservations
    BY <1>1 DEF WithinLimits, TotalCountersSame
  <1>3. ASSUME NEW g \in Groups
        PROVE  group'[g].started + group'[g].pending =< GroupLimit[g]
    <2>1. /\ group[g].started \in Nat /\ group[g].pending \in Int
          /\ group'[g].pending \in Int /\ GroupLimit[g] \in Nat
      BY CounterTypes, PolicyAssumption DEF TypeInv, TypeOK, GroupRecord
    <2>2. /\ group[g].started + group[g].pending =< GroupLimit[g]
          /\ group'[g].started = group[g].started
      BY DEF WithinLimits, TotalCountersSame
    <2> QED
      BY <2>1, <2>2
  <1>4. ASSUME NEW s \in Scopes
        PROVE  scope'[s].active =< Concurrency[s]
    <2>1. /\ scope[s].active \in Int /\ scope'[s].active \in Int
          /\ Concurrency[s] \in Nat
      BY CounterTypes, PolicyAssumption DEF TypeInv, TypeOK, ScopeRecord
    <2>2. scope[s].active =< Concurrency[s]
      BY DEF WithinLimits
    <2> QED
      BY <2>1, <2>2
  <1> QED
    BY <1>2, <1>3, <1>4 DEF WithinLimits

\* A step that holds, frees, counts, opens and closes nothing.
Neutral ==
    /\ RequestCountersSame /\ TotalCountersSame /\ JobCountersSame
    /\ \A i \in Jobs : /\ job'[i].reservation = job[i].reservation
                       /\ SameTotals(job[i], job'[i])
                       /\ SameStatus(job[i], job'[i])

\* Such a step keeps every counter exact.
LEMMA NeutralCounts ==
    ASSUME LedgerInv, TypeInv', Neutral
    PROVE  CountInv'
  <1>1. /\ TypeInv /\ RequestsCounted /\ JobsCounted /\ TotalsCounted
        /\ StartsCounted /\ WithinLimits
        /\ RequestCountersSame /\ TotalCountersSame /\ JobCountersSame
    BY DEF LedgerInv, RecordInv, CountInv, Neutral
  <1>2. /\ run'.pending =< run.pending
        /\ \A g \in Groups : /\ group'[g].active =< group[g].active
                             /\ group'[g].pending =< group[g].pending
        /\ \A s \in Scopes : scope'[s].active =< scope[s].active
    BY <1>1, CounterTypes DEF RequestCountersSame
  <1>3. RequestsCounted'
    BY <1>1, SameRequestsCounted DEF Neutral
  <1>4. JobsCounted'
    BY <1>1, SameJobsCounted DEF Neutral, SameStatus
  <1>5. TotalsCounted' /\ StartsCounted'
    BY <1>1, <1>2, SameTotalsCounted DEF Neutral
  <1>6. WithinLimits'
    BY <1>1, <1>2, LimitsKept
  <1> QED
    BY <1>3, <1>4, <1>5, <1>6 DEF CountInv

\* A step that touches no counter is neutral if the jobs it touches are counted as
\* before.
LEMMA FewJobsNeutral ==
    ASSUME run' = run, group' = group,
           \A s \in Scopes : /\ scope'[s].active = scope[s].active
                             /\ scope'[s].pending = scope[s].pending
                             /\ scope'[s].started = scope[s].started,
           NEW D \in SUBSET Jobs,
           \A i \in Jobs \ D : job'[i] = job[i],
           \A i \in D : /\ job'[i].reservation = job[i].reservation
                        /\ SameTotals(job[i], job'[i])
                        /\ SameStatus(job[i], job'[i])
    PROVE  Neutral
  <1>1. RequestCountersSame /\ TotalCountersSame /\ JobCountersSame
    BY DEF RequestCountersSame, TotalCountersSame, JobCountersSame
  <1>2. ASSUME NEW i \in Jobs \ D
        PROVE  /\ job'[i].reservation = job[i].reservation
               /\ SameTotals(job[i], job'[i]) /\ SameStatus(job[i], job'[i])
    <2>1. job'[i] = job[i]
      BY <1>2
    <2>2. SameTotals(job[i], job[i])
      BY DEF SameTotals
    <2>3. SameStatus(job[i], job[i])
      BY Zenon DEF SameStatus
    <2> QED
      BY <2>1, <2>2, <2>3
  <1> QED
    BY <1>1, <1>2 DEF Neutral

\* So is a step that touches neither counters nor jobs.
LEMMA NothingIsNeutral ==
    ASSUME UNCHANGED <<run, group, scope, job>>
    PROVE  Neutral
  <1>1. /\ run' = run /\ group' = group /\ scope' = scope
        /\ \A i \in Jobs \ {} : job'[i] = job[i]
        /\ {} \in SUBSET Jobs
    OBVIOUS
  <1> QED
    BY <1>1, FewJobsNeutral

-----------------------------------------------------------------------------
(* The start of a request.                                                 *)

\* What a start does to the job it is for, and to the counters.
Starting(j, g) ==
    LET r == job[j]
        q == job'[j]
        one(h) == IF h = g THEN 1 ELSE 0
    IN  /\ r.reservation.state = "pending" /\ r.reservation.group = g
        /\ q.reservation.state = "started" /\ q.reservation.group = g
        /\ q.state = r.state /\ q.last_reason = r.last_reason
        /\ q.claim_count = r.claim_count /\ q.retry_count = r.retry_count
        /\ q.pre_io_recoveries = r.pre_io_recoveries
        /\ q.next_request_ordinal = r.next_request_ordinal
        /\ q.request_starts = r.request_starts + 1
        /\ \A i \in Jobs \ {j} : job'[i] = job[i]
        /\ run'.pending = run.pending - 1 /\ run'.started = run.started + 1
        /\ run'.request_starts = run.request_starts + 1
        /\ run'.claims = run.claims /\ run'.retries = run.retries
        /\ run'.recovered = run.recovered
        /\ run'.reservation_creations = run.reservation_creations
        /\ \A h \in Groups :
              /\ group'[h].pending = group[h].pending - one(h)
              /\ group'[h].active = group[h].active + one(h)
              /\ group'[h].started = group[h].started + one(h)
        /\ \A s \in Scopes :
              /\ scope'[s].active = scope[s].active
              /\ s \in ScopesOf[g] =>
                    /\ scope'[s].pending = scope[s].pending - 1
                    /\ scope'[s].started = scope[s].started + 1
              /\ s \notin ScopesOf[g] => scope'[s] = scope[s]

\* The record of the job that CJ2_START_REQUEST starts a request for.
LEMMA StartedFields ==
    ASSUME NEW r \in JobRecord, NEW f \in Nat
    PROVE  LET q == StartedRecord(r, f)
           IN  /\ q.reservation.state = "started"
               /\ q.reservation.group = r.reservation.group
               /\ q.state = r.state /\ q.last_reason = r.last_reason
               /\ q.claim_count = r.claim_count /\ q.retry_count = r.retry_count
               /\ q.pre_io_recoveries = r.pre_io_recoveries
               /\ q.next_request_ordinal = r.next_request_ordinal
               /\ q.request_starts = r.request_starts + 1
  <1> DEFINE p == [r.reservation EXCEPT !.state = "started"]
             attempts == r.delivery_attempts + 1 - r.lease_delivery_started
             fence == IF r.reservation.kind = "document" THEN f
                      ELSE r.document_fence
             q == [r EXCEPT !.delivery_attempts = attempts,
                            !.lease_delivery_started = 1,
                            !.request_starts = r.request_starts + 1,
                            !.reservation = p,
                            !.document_fence = fence]
  <1>1. StartedRecord(r, f) = q
    BY DEF StartedRecord
  <1>2. p.state = "started" /\ p.group = r.reservation.group
    BY DEF JobRecord, Reservation
  <1> HIDE DEF p, attempts, fence
  <1>3. /\ q.reservation = p
        /\ q.state = r.state /\ q.last_reason = r.last_reason
        /\ q.claim_count = r.claim_count /\ q.retry_count = r.retry_count
        /\ q.pre_io_recoveries = r.pre_io_recoveries
        /\ q.next_request_ordinal = r.next_request_ordinal
        /\ q.request_starts = r.request_starts + 1
    BY DEF JobRecord
  <1> HIDE DEF q
  <1> QED
    BY <1>1, <1>2, <1>3

\* CJ2_START_REQUEST is such a start.
LEMMA StartIsStarting ==
    ASSUME LedgerInv, NEW w \in Workers, NEW j \in Jobs, NEW f \in Nat,
           NEW heard \in BOOLEAN, Start(w, j, f, heard)
    PROVE  /\ job[j].reservation.group \in Groups
           /\ Starting(j, job[j].reservation.group)
           /\ JobCountersSame
  <1> DEFINE r == job[j]
             g == r.reservation.group
  <1>1. /\ r \in JobRecord /\ job \in [Jobs -> JobRecord] /\ run \in RunRecord
        /\ group \in [Groups -> GroupRecord]
        /\ scope \in [Scopes -> ScopeRecord]
    BY DEF LedgerInv, RecordInv, TypeInv, TypeOK
  <1>2. r.reservation.state = "pending"
    BY DEF Start
  <1>3. g \in Groups
    BY <1>2, PayerIsGroup DEF LedgerInv
  <1>4. /\ job'[j] = StartedRecord(r, f)
        /\ \A i \in Jobs \ {j} : job'[i] = job[i]
    BY <1>1 DEF Start
  <1>5. /\ run'.pending = run.pending - 1 /\ run'.started = run.started + 1
        /\ run'.request_starts = run.request_starts + 1
        /\ run'.claims = run.claims /\ run'.retries = run.retries
        /\ run'.recovered = run.recovered
        /\ run'.reservation_creations = run.reservation_creations
        /\ run'.job_count = run.job_count
        /\ run'.open_job_count = run.open_job_count
        /\ run'.completed = run.completed /\ run'.dead = run.dead
        /\ run'.cancelled = run.cancelled /\ run'.commits = run.commits
    <2>1. run' = [run EXCEPT !.pending = run.pending - 1,
                             !.started = run.started + 1,
                             !.request_starts = run.request_starts + 1]
      BY DEF Start
    <2> QED
      BY <1>1, <2>1 DEF RunRecord
  <1>6. \A h \in Groups :
           /\ group'[h].pending = group[h].pending - (IF h = g THEN 1 ELSE 0)
           /\ group'[h].active = group[h].active + (IF h = g THEN 1 ELSE 0)
           /\ group'[h].started = group[h].started + (IF h = g THEN 1 ELSE 0)
           /\ group'[h].open = group[h].open
    <2> DEFINE q == [group[g] EXCEPT !.pending = group[g].pending - 1,
                                     !.active = group[g].active + 1,
                                     !.started = group[g].started + 1]
    <2>1. group' = [group EXCEPT ![g] = q]
      BY <1>1, <1>3 DEF Start, GroupRecord
    <2>2. /\ q.pending = group[g].pending - 1 /\ q.active = group[g].active + 1
          /\ q.started = group[g].started + 1 /\ q.open = group[g].open
      BY <1>1, <1>3 DEF GroupRecord
    <2> HIDE DEF q
    <2>3. group'[g] = q /\ \A h \in Groups \ {g} : group'[h] = group[h]
      BY <1>1, <1>3, <2>1
    <2> SUFFICES ASSUME NEW h \in Groups
                 PROVE  /\ group'[h].pending =
                               group[h].pending - (IF h = g THEN 1 ELSE 0)
                        /\ group'[h].active =
                               group[h].active + (IF h = g THEN 1 ELSE 0)
                        /\ group'[h].started =
                               group[h].started + (IF h = g THEN 1 ELSE 0)
                        /\ group'[h].open = group[h].open
      OBVIOUS
    <2>4. CASE h = g
      BY <2>2, <2>3, <2>4
    <2>5. CASE h # g
      <3>1. group'[h] = group[h]
        BY <2>3, <2>5
      <3>2. /\ group[h].pending \in Int /\ group[h].active \in Int
            /\ group[h].started \in Int
        BY <1>1 DEF GroupRecord
      <3> QED
        BY <2>5, <3>1, <3>2
    <2> QED
      BY <2>4, <2>5
  <1>7. ASSUME NEW s \in Scopes
        PROVE  /\ scope'[s].active = scope[s].active
               /\ s \in ScopesOf[g] =>
                     /\ scope'[s].pending = scope[s].pending - 1
                     /\ scope'[s].started = scope[s].started + 1
               /\ s \notin ScopesOf[g] => scope'[s] = scope[s]
    <2> DEFINE left == IF s = GlobalScope THEN scope[s].next_left
                       ELSE MaxOf(scope[s].next_left, Interval[s])
               q == [scope[s] EXCEPT !.pending = scope[s].pending - 1,
                                     !.started = scope[s].started + 1,
                                     !.next_left = left]
    <2>1. /\ s \in ScopesOf[g] => scope'[s] = q
          /\ s \notin ScopesOf[g] => scope'[s] = scope[s]
      BY DEF Start
    <2>2. scope[s] \in ScopeRecord
      BY <1>1
    <2> HIDE DEF left
    <2>3. /\ q.pending = scope[s].pending - 1 /\ q.started = scope[s].started + 1
          /\ q.active = scope[s].active
      BY <2>2 DEF ScopeRecord
    <2> HIDE DEF q
    <2> QED
      BY <2>1, <2>3
  <1>8. Starting(j, g)
    <2> DEFINE q == StartedRecord(r, f)
    <2>1. /\ q.reservation.state = "started"
          /\ q.reservation.group = r.reservation.group
          /\ q.state = r.state /\ q.last_reason = r.last_reason
          /\ q.claim_count = r.claim_count /\ q.retry_count = r.retry_count
          /\ q.pre_io_recoveries = r.pre_io_recoveries
          /\ q.next_request_ordinal = r.next_request_ordinal
          /\ q.request_starts = r.request_starts + 1
      BY <1>1, StartedFields
    <2> HIDE DEF q
    <2>2. job'[j] = q
      BY <1>4 DEF q
    <2> QED
      BY <1>2, <1>4, <1>5, <1>6, <1>7, <2>1, <2>2 DEF Starting
  <1>9. JobCountersSame
    BY <1>5, <1>6 DEF JobCountersSame
  <1> QED
    BY <1>3, <1>8, <1>9

\* A start moves one unit from pending to started, for all that pay for it.
LEMMA StartRequests ==
    ASSUME LedgerInv, NEW j \in Jobs, NEW g \in Groups, Starting(j, g)
    PROVE  RequestsCounted'
  <1>1. TypeInv /\ RequestsCounted
    BY DEF LedgerInv, RecordInv, CountInv
  <1>2. ASSUME NEW G
        PROVE  /\ Cardinality(Held(G, "pending")') =
                      Cardinality(Held(G, "pending")) - (IF g \in G THEN 1 ELSE 0)
               /\ Cardinality(Held(G, "started")') =
                      Cardinality(Held(G, "started")) + (IF g \in G THEN 1 ELSE 0)
               /\ Cardinality(Held(G, "pending")) \in Nat
               /\ Cardinality(Held(G, "started")) \in Nat
    <2>1. \A i \in Jobs \ {j} : job'[i].reservation = job[i].reservation
      BY DEF Starting
    <2>2. /\ job[j].reservation.state = "pending" /\ job[j].reservation.group = g
          /\ job'[j].reservation.state = "started"
          /\ job'[j].reservation.group = g
      BY DEF Starting
    <2> QED
      BY <2>1, <2>2, HeldOne
  <1>3. /\ run'.pending = Cardinality(Held(Groups, "pending")')
        /\ run'.started = Cardinality(Held(Groups, "started")')
    <2>1. /\ run'.pending = run.pending - 1 /\ run'.started = run.started + 1
      BY DEF Starting
    <2> QED
      BY <1>1, <1>2, <2>1 DEF RequestsCounted
  <1>4. ASSUME NEW h \in Groups
        PROVE  /\ group'[h].pending = Cardinality(Held({h}, "pending")')
               /\ group'[h].active = Cardinality(Held({h}, "started")')
    <2>1. /\ group'[h].pending = group[h].pending - (IF h = g THEN 1 ELSE 0)
          /\ group'[h].active = group[h].active + (IF h = g THEN 1 ELSE 0)
      BY DEF Starting
    <2> QED
      BY <1>1, <1>2, <2>1 DEF RequestsCounted
  <1>5. ASSUME NEW s \in Scopes
        PROVE  /\ scope'[s].pending = Cardinality(Held(Payers(s), "pending")')
               /\ scope'[s].started = Cardinality(Held(Payers(s), "started")')
               /\ scope'[s].active = scope'[s].pending + scope'[s].started
    <2>1. g \in Payers(s) <=> s \in ScopesOf[g]
      BY DEF Payers
    <2>2. /\ scope[s].pending = Cardinality(Held(Payers(s), "pending"))
          /\ scope[s].started = Cardinality(Held(Payers(s), "started"))
          /\ scope[s].active = scope[s].pending + scope[s].started
      BY <1>1 DEF RequestsCounted
    <2>3. /\ scope'[s].active = scope[s].active
          /\ s \in ScopesOf[g] =>
                /\ scope'[s].pending = scope[s].pending - 1
                /\ scope'[s].started = scope[s].started + 1
          /\ s \notin ScopesOf[g] => scope'[s] = scope[s]
      BY DEF Starting
    <2> QED
      BY <1>2, <2>1, <2>2, <2>3
  <1> QED
    BY <1>3, <1>4, <1>5 DEF RequestsCounted, Payers

\* A start counts for its job, for the group that pays and for the run.
LEMMA StartTotals ==
    ASSUME LedgerInv, TypeInv', NEW j \in Jobs, NEW g \in Groups, Starting(j, g)
    PROVE  TotalsCounted' /\ StartsCounted'
  <1>1. TypeInv /\ RecordInv /\ TotalsCounted /\ StartsCounted
    BY DEF LedgerInv, RecordInv, CountInv
  <1>2. \A i \in Jobs :
            job'[i].next_request_ordinal >= job[i].next_request_ordinal
    <2>1. \A i \in Jobs : job[i].next_request_ordinal \in Nat
      BY <1>1 DEF TypeInv, TypeOK, JobRecord
    <2> QED
      BY <2>1 DEF Starting
  <1>3. /\ IsFiniteSet(Jobs) /\ IsFiniteSet(Groups)
        /\ StartCounts \in [Jobs -> Nat] /\ StartCounts' \in [Jobs -> Nat]
        /\ GroupStarts \in [Groups -> Nat] /\ GroupStarts' \in [Groups -> Nat]
    BY <1>1, <1>2, CountFunctions
  <1>4. Total(StartCounts)' = Total(StartCounts) + 1
    <2>1. \A i \in {j} : StartCounts'[i] = StartCounts[i] + 1
      BY DEF StartCounts, Starting
    <2>2. \A i \in Jobs \ {j} : StartCounts'[i] = StartCounts[i]
      BY DEF StartCounts, Starting
    <2>3. Cardinality({j}) = 1 /\ {j} \in SUBSET Jobs
      BY FS_Singleton
    <2>4. Total(StartCounts') = Total(StartCounts) + Cardinality({j})
      BY <1>3, <2>1, <2>2, <2>3, TotalRaised
    <2>5. Total(StartCounts)' = Total(StartCounts')
      BY DEF Total, Units
    <2> QED
      BY <2>3, <2>4, <2>5
  <1>5. Total(GroupStarts)' = Total(GroupStarts) + 1
    <2>1. \A h \in {g} : GroupStarts'[h] = GroupStarts[h] + 1
      BY DEF GroupStarts, Starting
    <2>2. \A h \in Groups \ {g} : GroupStarts'[h] = GroupStarts[h]
      <3> SUFFICES ASSUME NEW h \in Groups \ {g}
                   PROVE  group'[h].started = group[h].started
        BY DEF GroupStarts
      <3>1. group'[h].started = group[h].started + (IF h = g THEN 1 ELSE 0)
        BY DEF Starting
      <3>2. group[h].started \in Nat
        BY <1>1, CounterTypes
      <3> QED
        BY <3>1, <3>2
    <2>3. Cardinality({g}) = 1 /\ {g} \in SUBSET Groups
      BY FS_Singleton
    <2>4. Total(GroupStarts') = Total(GroupStarts) + Cardinality({g})
      BY <1>3, <2>1, <2>2, <2>3, TotalRaised
    <2>5. Total(GroupStarts)' = Total(GroupStarts')
      BY DEF Total, Units
    <2> QED
      BY <2>3, <2>4, <2>5
  <1>6. /\ ClaimCounts' = ClaimCounts /\ RetryCounts' = RetryCounts
        /\ RecoveryCounts' = RecoveryCounts /\ CreationCounts' = CreationCounts
    BY DEF ClaimCounts, RetryCounts, RecoveryCounts, CreationCounts, Starting
  <1>7. /\ run'.request_starts = run.request_starts + 1
        /\ run'.claims = run.claims /\ run'.retries = run.retries
        /\ run'.recovered = run.recovered
        /\ run'.reservation_creations = run.reservation_creations
    BY DEF Starting
  <1>8. TotalsCounted'
    BY <1>1, <1>4, <1>6, <1>7 DEF TotalsCounted
  <1>9. \A h \in Groups : group'[h].active =< group'[h].started
    <2> SUFFICES ASSUME NEW h \in Groups
                 PROVE  group'[h].active =< group'[h].started
      OBVIOUS
    <2>1. /\ group'[h].active = group[h].active + (IF h = g THEN 1 ELSE 0)
          /\ group'[h].started = group[h].started + (IF h = g THEN 1 ELSE 0)
      BY DEF Starting
    <2>2. /\ group[h].active \in Int /\ group[h].started \in Nat
          /\ group[h].active =< group[h].started
      BY <1>1, CounterTypes DEF StartsCounted
    <2> QED
      BY <2>1, <2>2
  <1>10. StartsCounted'
    BY <1>1, <1>5, <1>7, <1>9 DEF StartsCounted
  <1> QED
    BY <1>8, <1>10

\* A start uses up the budget that its reservation was admitted against.
LEMMA StartLimits ==
    ASSUME LedgerInv, NEW j \in Jobs, NEW g \in Groups, Starting(j, g)
    PROVE  WithinLimits'
  <1>1. TypeInv /\ WithinLimits
    BY DEF LedgerInv, RecordInv, CountInv
  <1>2. /\ run'.request_starts + run'.pending =< MaxRequestStarts
        /\ run'.reservation_creations =< MaxReservations
    <2>1. run.request_starts \in Nat /\ run.pending \in Int
      BY <1>1, CounterTypes
    <2>2. /\ run'.pending = run.pending - 1
          /\ run'.request_starts = run.request_starts + 1
          /\ run'.reservation_creations = run.reservation_creations
      BY DEF Starting
    <2>3. run'.request_starts + run'.pending = run.request_starts + run.pending
      BY <2>1, <2>2
    <2> QED
      BY <1>1, <2>2, <2>3 DEF WithinLimits
  <1>3. ASSUME NEW h \in Groups
        PROVE  group'[h].started + group'[h].pending =< GroupLimit[h]
    <2>1. group[h].started \in Nat /\ group[h].pending \in Int
      BY <1>1, CounterTypes
    <2>2. /\ group'[h].pending = group[h].pending - (IF h = g THEN 1 ELSE 0)
          /\ group'[h].started = group[h].started + (IF h = g THEN 1 ELSE 0)
      BY DEF Starting
    <2>3. group'[h].started + group'[h].pending =
              group[h].started + group[h].pending
      BY <2>1, <2>2
    <2> QED
      BY <1>1, <2>3 DEF WithinLimits
  <1>4. \A s \in Scopes : scope'[s].active =< Concurrency[s]
    BY <1>1 DEF WithinLimits, Starting
  <1> QED
    BY <1>2, <1>3, <1>4 DEF WithinLimits

\* CJ2_START_REQUEST keeps all counters exact and within their limits.
LEMMA StartKeepsCounts ==
    ASSUME LedgerInv, TypeInv', NEW w \in Workers, NEW j \in Jobs, NEW f \in Nat,
           NEW heard \in BOOLEAN, Start(w, j, f, heard)
    PROVE  CountInv'
  <1> DEFINE g == job[j].reservation.group
  <1>1. g \in Groups /\ Starting(j, g) /\ JobCountersSame
    BY StartIsStarting
  <1> HIDE DEF g
  <1>2. JobsCounted'
    BY <1>1, SameJobsCounted DEF Starting, LedgerInv, CountInv
  <1> QED
    BY <1>1, <1>2, StartRequests, StartTotals, StartLimits DEF CountInv

-----------------------------------------------------------------------------
(* The release of requests.                                                *)

\* What the end of the requests of the jobs in D does to the counters.
Releases(D) ==
    /\ \A i \in D : job'[i].reservation.state = "none"
    /\ \A i \in Jobs \ D : job'[i].reservation = job[i].reservation
    /\ run'.pending = run.pending - Cardinality(Holding(D, "pending"))
    /\ run'.started = run.started - Cardinality(Holding(D, "started"))
    /\ \A g \in Groups :
          LET charged == {j \in D : Payer(j) = g}
          IN  /\ group'[g].pending =
                     group[g].pending - Cardinality(Holding(charged, "pending"))
              /\ group'[g].active =
                     group[g].active - Cardinality(Holding(charged, "started"))
              /\ group'[g].started = group[g].started
    /\ \A s \in Scopes :
          LET charged == ChargedTo(D, s)
          IN  /\ scope'[s].active = scope[s].active - Cardinality(charged)
              /\ scope'[s].pending =
                     scope[s].pending - Cardinality(Holding(charged, "pending"))
              /\ scope'[s].started =
                     scope[s].started - Cardinality(Holding(charged, "started"))

\* The reservations of D that a group of G pays for are gone, and no others.
LEMMA HeldLess ==
    ASSUME NEW D \in SUBSET Jobs, NEW G, NEW st, st # "none",
           \A i \in D : job'[i].reservation.state = "none",
           \A i \in Jobs \ D : job'[i].reservation = job[i].reservation
    PROVE  /\ Cardinality(Held(G, st)') =
                  Cardinality(Held(G, st)) - Cardinality(Held(G, st) \cap D)
           /\ Cardinality(Held(G, st)) \in Nat
           /\ Cardinality(Held(G, st) \cap D) \in Nat
  <1> DEFINE A == Held(G, st)
             B == Held(G, st)'
  <1>1. A \in SUBSET Jobs /\ B \in SUBSET Jobs
    BY DEF Held
  <1>2. \A i \in Jobs \ D : i \in A <=> i \in B
    BY DEF Held
  <1>3. B \cap D = {}
    BY DEF Held
  <1>4. /\ Cardinality(A) \in Nat /\ Cardinality(A \cap D) \in Nat
        /\ Cardinality({}) = 0
    <2>1. A \cap D \in SUBSET Jobs
      BY <1>1
    <2> QED
      BY <1>1, <2>1, CardinalityOfJobs, FS_EmptySet
  <1> HIDE DEF A, B
  <1>5. Cardinality(B) = Cardinality(A) - Cardinality(A \cap D) + Cardinality(B \cap D)
    BY ZenonT(60), <1>1, <1>2, CountChange
  <1>6. Cardinality(B) = Cardinality(A) - Cardinality(A \cap D) + 0
    BY <1>3, <1>4, <1>5
  <1>7. Cardinality(B) = Cardinality(A) - Cardinality(A \cap D)
    BY <1>4, <1>6
  <1> QED
    BY <1>4, <1>7 DEF A, B

\* The jobs charged to a scope hold a pending request or a started one.
LEMMA ChargedSplit ==
    ASSUME RecordInv, NEW D \in SUBSET Jobs, NEW s
    PROVE  LET charged == ChargedTo(D, s)
           IN  /\ Cardinality(charged) = Cardinality(Holding(charged, "pending"))
                                         + Cardinality(Holding(charged, "started"))
               /\ Cardinality(Holding(charged, "pending")) \in Nat
               /\ Cardinality(Holding(charged, "started")) \in Nat
  <1> DEFINE charged == ChargedTo(D, s)
             P == Holding(charged, "pending")
             S == Holding(charged, "started")
  <1>1. \A i \in Jobs : job[i].reservation.state \in {"none", "pending", "started"}
    BY DEF RecordInv, TypeInv, TypeOK, JobRecord, Reservation
  <1>2. charged \in SUBSET Jobs /\ P \in SUBSET Jobs /\ S \in SUBSET Jobs
    BY DEF ChargedTo, Holding
  <1>3. charged = P \cup S /\ P \cap S = {}
    <2>1. charged \subseteq P \cup S
      BY <1>1 DEF ChargedTo, Holding
    <2>2. P \cup S \subseteq charged /\ P \cap S = {}
      BY DEF Holding
    <2> QED
      BY <2>1, <2>2
  <1>4. /\ IsFiniteSet(P) /\ IsFiniteSet(S)
        /\ Cardinality(P) \in Nat /\ Cardinality(S) \in Nat
        /\ Cardinality({}) = 0
    BY <1>2, CardinalityOfJobs, FS_EmptySet
  <1> HIDE DEF charged, P, S
  <1>5. Cardinality(P \cup S) =
            Cardinality(P) + Cardinality(S) - Cardinality(P \cap S)
    BY <1>4, FS_Union
  <1>6. Cardinality(P \cup S) = Cardinality(P) + Cardinality(S) - 0
    BY <1>3, <1>4, <1>5
  <1>7. Cardinality(charged) = Cardinality(P) + Cardinality(S)
    <2>1. Cardinality(charged) = Cardinality(P \cup S)
      BY <1>3
    <2> QED
      BY <1>4, <1>6, <2>1
  <1> QED
    BY <1>4, <1>7 DEF charged, P, S

\* A release takes from every counter what the released requests had added.
LEMMA ReleaseRequests ==
    ASSUME LedgerInv, NEW D \in SUBSET Jobs, Releases(D)
    PROVE  /\ RequestsCounted'
           /\ run'.pending =< run.pending
           /\ \A g \in Groups : /\ group'[g].pending =< group[g].pending
                                /\ group'[g].active =< group[g].active
                                /\ group'[g].started = group[g].started
           /\ \A s \in Scopes : scope'[s].active =< scope[s].active
  <1>1. TypeInv /\ RecordInv /\ RequestsCounted
    BY DEF LedgerInv, RecordInv, CountInv
  <1>2. /\ \A i \in D : job'[i].reservation.state = "none"
        /\ \A i \in Jobs \ D : job'[i].reservation = job[i].reservation
    BY DEF Releases
  <1>3. ASSUME NEW st \in {"pending", "started"}
        PROVE  /\ Cardinality(Held(Groups, st)') =
                      Cardinality(Held(Groups, st)) - Cardinality(Holding(D, st))
               /\ Cardinality(Held(Groups, st)) \in Nat
               /\ Cardinality(Holding(D, st)) \in Nat
    <2>1. Held(Groups, st) \cap D = Holding(D, st)
      BY <1>1, PayerIsGroup DEF Held, Holding
    <2>2. st # "none"
      OBVIOUS
    <2>3. /\ Cardinality(Held(Groups, st)') =
                 Cardinality(Held(Groups, st)) - Cardinality(Held(Groups, st) \cap D)
          /\ Cardinality(Held(Groups, st)) \in Nat
          /\ Cardinality(Held(Groups, st) \cap D) \in Nat
      BY <1>2, <2>2, HeldLess, Zenon
    <2> QED
      BY <2>1, <2>3
  <1>4. ASSUME NEW g \in Groups, NEW st \in {"pending", "started"}
        PROVE  LET charged == {j \in D : Payer(j) = g}
               IN  /\ Cardinality(Held({g}, st)') =
                          Cardinality(Held({g}, st)) - Cardinality(Holding(charged, st))
                   /\ Cardinality(Held({g}, st)) \in Nat
                   /\ Cardinality(Holding(charged, st)) \in Nat
    <2>1. Held({g}, st) \cap D = Holding({j \in D : Payer(j) = g}, st)
      BY DEF Held, Holding, Payer
    <2>2. st # "none"
      OBVIOUS
    <2>3. /\ Cardinality(Held({g}, st)') =
                 Cardinality(Held({g}, st)) - Cardinality(Held({g}, st) \cap D)
          /\ Cardinality(Held({g}, st)) \in Nat
          /\ Cardinality(Held({g}, st) \cap D) \in Nat
      BY <1>2, <2>2, HeldLess, Zenon
    <2> QED
      BY <2>1, <2>3
  <1>5. ASSUME NEW s \in Scopes, NEW st \in {"pending", "started"}
        PROVE  LET charged == ChargedTo(D, s)
               IN  /\ Cardinality(Held(Payers(s), st)') =
                          Cardinality(Held(Payers(s), st))
                              - Cardinality(Holding(charged, st))
                   /\ Cardinality(Held(Payers(s), st)) \in Nat
                   /\ Cardinality(Holding(charged, st)) \in Nat
    <2>1. \A j \in D : job[j].reservation.state # "none" =>
              (s \in ScopesOf[job[j].reservation.group]
                   <=> job[j].reservation.group \in Payers(s))
      BY <1>1, PayerIsGroup DEF Payers
    <2>2. Held(Payers(s), st) \cap D = Holding(ChargedTo(D, s), st)
      BY <2>1 DEF Held, Holding, ChargedTo
    <2>3. st # "none"
      OBVIOUS
    <2>4. /\ Cardinality(Held(Payers(s), st)') =
                 Cardinality(Held(Payers(s), st)) - Cardinality(Held(Payers(s), st) \cap D)
          /\ Cardinality(Held(Payers(s), st)) \in Nat
          /\ Cardinality(Held(Payers(s), st) \cap D) \in Nat
      BY <1>2, <2>3, HeldLess, Zenon
    <2> QED
      BY <2>2, <2>4
  <1>6. /\ run'.pending = Cardinality(Held(Groups, "pending")')
        /\ run'.started = Cardinality(Held(Groups, "started")')
        /\ run'.pending =< run.pending
    <2>1. /\ run'.pending = run.pending - Cardinality(Holding(D, "pending"))
          /\ run'.started = run.started - Cardinality(Holding(D, "started"))
          /\ run.pending = Cardinality(Held(Groups, "pending"))
          /\ run.started = Cardinality(Held(Groups, "started"))
      BY <1>1 DEF Releases, RequestsCounted
    <2> QED
      BY <1>3, <2>1
  <1>7. ASSUME NEW g \in Groups
        PROVE  /\ group'[g].pending = Cardinality(Held({g}, "pending")')
               /\ group'[g].active = Cardinality(Held({g}, "started")')
               /\ group'[g].pending =< group[g].pending
               /\ group'[g].active =< group[g].active
               /\ group'[g].started = group[g].started
    <2> DEFINE n == Cardinality(Holding({j \in D : Payer(j) = g}, "pending"))
               m == Cardinality(Holding({j \in D : Payer(j) = g}, "started"))
    <2>1. /\ group'[g].pending = group[g].pending - n
          /\ group'[g].active = group[g].active - m
          /\ group'[g].started = group[g].started
      BY DEF Releases
    <2>2. /\ Cardinality(Held({g}, "pending")') = Cardinality(Held({g}, "pending")) - n
          /\ Cardinality(Held({g}, "started")') = Cardinality(Held({g}, "started")) - m
          /\ Cardinality(Held({g}, "pending")) \in Nat
          /\ Cardinality(Held({g}, "started")) \in Nat
          /\ n \in Nat /\ m \in Nat
      BY <1>4
    <2>3. /\ group[g].pending = Cardinality(Held({g}, "pending"))
          /\ group[g].active = Cardinality(Held({g}, "started"))
      BY <1>1 DEF RequestsCounted
    <2> HIDE DEF n, m
    <2> QED
      BY <2>1, <2>2, <2>3
  <1>8. ASSUME NEW s \in Scopes
        PROVE  /\ scope'[s].pending = Cardinality(Held(Payers(s), "pending")')
               /\ scope'[s].started = Cardinality(Held(Payers(s), "started")')
               /\ scope'[s].active = scope'[s].pending + scope'[s].started
               /\ scope'[s].active =< scope[s].active
    <2> DEFINE n == Cardinality(Holding(ChargedTo(D, s), "pending"))
               m == Cardinality(Holding(ChargedTo(D, s), "started"))
    <2>1. Cardinality(ChargedTo(D, s)) = n + m /\ n \in Nat /\ m \in Nat
      BY <1>1, ChargedSplit
    <2>2. /\ scope'[s].active = scope[s].active - Cardinality(ChargedTo(D, s))
          /\ scope'[s].pending = scope[s].pending - n
          /\ scope'[s].started = scope[s].started - m
      BY DEF Releases
    <2>3. /\ Cardinality(Held(Payers(s), "pending")') =
                 Cardinality(Held(Payers(s), "pending")) - n
          /\ Cardinality(Held(Payers(s), "started")') =
                 Cardinality(Held(Payers(s), "started")) - m
          /\ Cardinality(Held(Payers(s), "pending")) \in Nat
          /\ Cardinality(Held(Payers(s), "started")) \in Nat
      BY <1>5
    <2>4. /\ scope[s].pending = Cardinality(Held(Payers(s), "pending"))
          /\ scope[s].started = Cardinality(Held(Payers(s), "started"))
          /\ scope[s].active = scope[s].pending + scope[s].started
      BY <1>1 DEF RequestsCounted
    <2> HIDE DEF n, m
    <2> QED
      BY <2>1, <2>2, <2>3, <2>4
  <1>9. RequestsCounted'
    BY <1>6, <1>7, <1>8 DEF RequestsCounted, Payers
  <1> QED
    BY <1>6, <1>7, <1>8, <1>9

\* The fields of what a release leaves of the counters.
LEMMA ReleasedFields ==
    ASSUME TypeInv, NEW D \in SUBSET Jobs
    PROVE  /\ LET q == ReleasedRun(D)
              IN  /\ q.pending = run.pending - Cardinality(Holding(D, "pending"))
                  /\ q.started = run.started - Cardinality(Holding(D, "started"))
                  /\ q.job_count = run.job_count
                  /\ q.open_job_count = run.open_job_count
                  /\ q.request_starts = run.request_starts
                  /\ q.reservation_creations = run.reservation_creations
                  /\ q.claims = run.claims /\ q.retries = run.retries
                  /\ q.recovered = run.recovered
                  /\ q.completed = run.completed /\ q.dead = run.dead
                  /\ q.cancelled = run.cancelled /\ q.commits = run.commits
           /\ \A g \in Groups :
                 LET q == ReleasedGroups(D)[g]
                     charged == {j \in D : Payer(j) = g}
                 IN  /\ q.pending =
                           group[g].pending - Cardinality(Holding(charged, "pending"))
                     /\ q.active =
                           group[g].active - Cardinality(Holding(charged, "started"))
                     /\ q.started = group[g].started /\ q.open = group[g].open
           /\ \A s \in Scopes :
                 LET q == ReleasedScopes(D)[s]
                     charged == ChargedTo(D, s)
                 IN  /\ q.active = scope[s].active - Cardinality(charged)
                     /\ q.pending =
                           scope[s].pending - Cardinality(Holding(charged, "pending"))
                     /\ q.started =
                           scope[s].started - Cardinality(Holding(charged, "started"))
  <1>1. /\ run \in RunRecord /\ group \in [Groups -> GroupRecord]
        /\ scope \in [Scopes -> ScopeRecord]
    BY DEF TypeInv, TypeOK
  <1>2. ASSUME NEW n, NEW m
        PROVE  LET q == [run EXCEPT !.pending = n, !.started = m]
               IN  /\ q.pending = n /\ q.started = m
                   /\ q.job_count = run.job_count
                   /\ q.open_job_count = run.open_job_count
                   /\ q.request_starts = run.request_starts
                   /\ q.reservation_creations = run.reservation_creations
                   /\ q.claims = run.claims /\ q.retries = run.retries
                   /\ q.recovered = run.recovered
                   /\ q.completed = run.completed /\ q.dead = run.dead
                   /\ q.cancelled = run.cancelled /\ q.commits = run.commits
    BY <1>1 DEF RunRecord
  <1>3. ReleasedRun(D) =
            [run EXCEPT !.pending = run.pending - Cardinality(Holding(D, "pending")),
                        !.started = run.started - Cardinality(Holding(D, "started"))]
    BY DEF ReleasedRun
  <1>4. LET q == ReleasedRun(D)
        IN  /\ q.pending = run.pending - Cardinality(Holding(D, "pending"))
            /\ q.started = run.started - Cardinality(Holding(D, "started"))
            /\ q.job_count = run.job_count
            /\ q.open_job_count = run.open_job_count
            /\ q.request_starts = run.request_starts
            /\ q.reservation_creations = run.reservation_creations
            /\ q.claims = run.claims /\ q.retries = run.retries
            /\ q.recovered = run.recovered
            /\ q.completed = run.completed /\ q.dead = run.dead
            /\ q.cancelled = run.cancelled /\ q.commits = run.commits
    BY <1>2, <1>3
  <1>5. \A g \in Groups :
           LET q == ReleasedGroups(D)[g]
               charged == {j \in D : Payer(j) = g}
           IN  /\ q.pending =
                     group[g].pending - Cardinality(Holding(charged, "pending"))
               /\ q.active =
                     group[g].active - Cardinality(Holding(charged, "started"))
               /\ q.started = group[g].started /\ q.open = group[g].open
    <2> TAKE g \in Groups
    <2> DEFINE charged == {j \in D : Payer(j) = g}
               n == group[g].pending - Cardinality(Holding(charged, "pending"))
               m == group[g].active - Cardinality(Holding(charged, "started"))
               q == [group[g] EXCEPT !.pending = n, !.active = m]
    <2>1. ReleasedGroups(D)[g] = q
      BY DEF ReleasedGroups
    <2> HIDE DEF n, m
    <2>2. /\ q.pending = n /\ q.active = m
          /\ q.started = group[g].started /\ q.open = group[g].open
      BY <1>1 DEF GroupRecord
    <2> HIDE DEF q
    <2> QED
      BY <2>1, <2>2 DEF n, m
  <1>6. \A s \in Scopes :
            LET q == ReleasedScopes(D)[s]
                charged == ChargedTo(D, s)
            IN  /\ q.active = scope[s].active - Cardinality(charged)
                /\ q.pending =
                      scope[s].pending - Cardinality(Holding(charged, "pending"))
                /\ q.started =
                      scope[s].started - Cardinality(Holding(charged, "started"))
    <2> TAKE s \in Scopes
    <2> DEFINE charged == ChargedTo(D, s)
               n == scope[s].active - Cardinality(charged)
               m == scope[s].pending - Cardinality(Holding(charged, "pending"))
               k == scope[s].started - Cardinality(Holding(charged, "started"))
               q == [scope[s] EXCEPT !.active = n, !.pending = m, !.started = k]
    <2>1. ReleasedScopes(D)[s] = q
      BY DEF ReleasedScopes
    <2> HIDE DEF n, m, k
    <2>2. q.active = n /\ q.pending = m /\ q.started = k
      BY <1>1 DEF ScopeRecord
    <2> HIDE DEF q
    <2> QED
      BY <2>1, <2>2 DEF n, m, k
  <1> QED
    BY <1>4, <1>5, <1>6

\* CJ2_FINISH_REQUEST and CJ2_CANCEL_RESERVATION give back what was charged.
LEMMA EndReservationCounts ==
    ASSUME LedgerInv, TypeInv', NEW w \in Workers, NEW j \in Jobs, NEW f \in Nat,
           EndReservation(w, j, f)
    PROVE  CountInv'
  <1> DEFINE q == [job[j] EXCEPT !.reservation = NoReservation]
  <1>1. /\ TypeInv /\ job \in [Jobs -> JobRecord] /\ {j} \in SUBSET Jobs
        /\ JobsCounted /\ TotalsCounted /\ StartsCounted /\ WithinLimits
    BY DEF LedgerInv, RecordInv, CountInv, TypeInv, TypeOK
  <1>2. /\ run' = ReleasedRun({j}) /\ group' = ReleasedGroups({j})
        /\ scope' = ReleasedScopes({j}) /\ job' = [job EXCEPT ![j] = q]
    BY DEF EndReservation
  <1>3. /\ q.reservation.state = "none" /\ SameTotals(job[j], q)
        /\ q.state = job[j].state /\ q.last_reason = job[j].last_reason
    BY <1>1 DEF JobRecord, NoReservation, SameTotals
  <1> HIDE DEF q
  <1>4. job'[j] = q /\ \A i \in Jobs \ {j} : job'[i] = job[i]
    BY <1>1, <1>2
  <1>5. Releases({j}) /\ TotalCountersSame /\ JobCountersSame
    <2>1. /\ \A i \in {j} : job'[i].reservation.state = "none"
          /\ \A i \in Jobs \ {j} : job'[i].reservation = job[i].reservation
      BY <1>3, <1>4
    <2> QED
      BY <1>1, <1>2, <2>1, ReleasedFields
         DEF Releases, TotalCountersSame, JobCountersSame
  <1>6. /\ RequestsCounted' /\ run'.pending =< run.pending
        /\ \A g \in Groups : /\ group'[g].pending =< group[g].pending
                             /\ group'[g].active =< group[g].active
        /\ \A s \in Scopes : scope'[s].active =< scope[s].active
    BY <1>1, <1>5, ReleaseRequests
  <1>7. \A i \in Jobs : /\ SameTotals(job[i], job'[i])
                        /\ job'[i].state = job[i].state
                        /\ job'[i].last_reason = job[i].last_reason
    <2>1. \A r : SameTotals(r, r)
      BY DEF SameTotals
    <2> QED
      BY <1>3, <1>4, <2>1
  <1>8. JobsCounted'
    BY <1>1, <1>5, <1>7, SameJobsCounted
  <1>9. TotalsCounted' /\ StartsCounted'
    BY <1>1, <1>5, <1>6, <1>7, SameTotalsCounted
  <1>10. WithinLimits'
    BY <1>1, <1>5, <1>6, LimitsKept
  <1> QED
    BY <1>6, <1>8, <1>9, <1>10 DEF CountInv

-----------------------------------------------------------------------------
(* Settlements: outcomes, recoveries and cancellations.                    *)

\* What a settlement makes of a job's record, as far as it is counted.
Ends(r, q) ==
    /\ r.state \in OpenStates /\ q.state \in {"ready", "delayed"} \cup TerminalStates
    /\ q.reservation.state = "none"
    /\ q.claim_count = r.claim_count /\ q.request_starts = r.request_starts
    /\ q.next_request_ordinal = r.next_request_ordinal
    /\ q.retry_count = r.retry_count + (IF q.state = "delayed" THEN 1 ELSE 0)
    /\ q.pre_io_recoveries \in {r.pre_io_recoveries, r.pre_io_recoveries + 1}
    /\ r.last_reason # "published" /\ q.last_reason # "published"

\* The jobs of D that a settlement closes, and those of them that group g owns.
ClosedBy(D, post) == {j \in D : post[j].state \in TerminalStates}
ClosedFor(D, post, g) ==
    {j \in D : post[j].state \in TerminalStates /\ SourceGroup[j] = g}

\* The jobs of D whose recovery before I/O is counted.
RecoveredIn(D, post) ==
    {j \in D : post[j].pre_io_recoveries # job[j].pre_io_recoveries}

\* A settlement of jobs that end so, n of them recoveries.
Settling(D, post, n) ==
    /\ Settle(D, post, n)
    /\ \A j \in D : Ends(job[j], post[j])
    /\ Cardinality(RecoveredIn(D, post)) =< n

\* What a settlement does to the counters.
LEMMA SettleFields ==
    ASSUME LedgerInv, NEW D \in SUBSET Jobs, NEW post, NEW n \in Nat,
           Settling(D, post, n)
    PROVE  /\ Releases(D)
           /\ run'.job_count = run.job_count /\ run'.commits = run.commits
           /\ run'.open_job_count =
                  run.open_job_count - (Entering(D, post, "completed")
                      + Entering(D, post, "dead") + Entering(D, post, "cancelled"))
           /\ run'.completed = run.completed + Entering(D, post, "completed")
           /\ run'.dead = run.dead + Entering(D, post, "dead")
           /\ run'.cancelled = run.cancelled + Entering(D, post, "cancelled")
           /\ run'.retries = run.retries + Entering(D, post, "delayed")
           /\ run'.recovered = run.recovered + n
           /\ run'.claims = run.claims
           /\ run'.request_starts = run.request_starts
           /\ run'.reservation_creations = run.reservation_creations
           /\ \A g \in Groups :
                 group'[g].open = group[g].open - Cardinality(ClosedFor(D, post, g))
           /\ \A i \in D : job'[i] = post[i]
           /\ \A i \in Jobs \ D : job'[i] = job[i]
  <1> DEFINE freed == ReleasedRun(D)
             left(g) == ReleasedGroups(D)[g]
             m(st) == Entering(D, post, st)
  <1>1. TypeInv /\ Settle(D, post, n)
    BY DEF LedgerInv, RecordInv, Settling
  <1>2. /\ freed \in RunRecord /\ \A g \in Groups : left(g) \in GroupRecord
    BY <1>1, ReleasedType
  <1>3. /\ run' = [freed EXCEPT
                    !.open_job_count =
                       freed.open_job_count - (m("completed") + m("dead")
                                                  + m("cancelled")),
                    !.completed = freed.completed + m("completed"),
                    !.dead = freed.dead + m("dead"),
                    !.cancelled = freed.cancelled + m("cancelled"),
                    !.retries = freed.retries + m("delayed"),
                    !.recovered = freed.recovered + n]
        /\ group' = [g \in Groups |->
                       [left(g) EXCEPT
                          !.open = left(g).open - Cardinality(ClosedFor(D, post, g))]]
        /\ scope' = ReleasedScopes(D)
        /\ job' = [j \in Jobs |-> IF j \in D THEN post[j] ELSE job[j]]
    BY <1>1 DEF Settle, ClosedFor
  <1>4. /\ freed.pending = run.pending - Cardinality(Holding(D, "pending"))
        /\ freed.started = run.started - Cardinality(Holding(D, "started"))
        /\ freed.job_count = run.job_count /\ freed.commits = run.commits
        /\ freed.open_job_count = run.open_job_count
        /\ freed.completed = run.completed /\ freed.dead = run.dead
        /\ freed.cancelled = run.cancelled /\ freed.retries = run.retries
        /\ freed.recovered = run.recovered /\ freed.claims = run.claims
        /\ freed.request_starts = run.request_starts
        /\ freed.reservation_creations = run.reservation_creations
    BY <1>1, ReleasedFields
  <1> HIDE DEF freed, m
  <1>5. /\ run'.pending = freed.pending /\ run'.started = freed.started
        /\ run'.job_count = freed.job_count /\ run'.commits = freed.commits
        /\ run'.open_job_count =
               freed.open_job_count - (m("completed") + m("dead") + m("cancelled"))
        /\ run'.completed = freed.completed + m("completed")
        /\ run'.dead = freed.dead + m("dead")
        /\ run'.cancelled = freed.cancelled + m("cancelled")
        /\ run'.retries = freed.retries + m("delayed")
        /\ run'.recovered = freed.recovered + n
        /\ run'.claims = freed.claims
        /\ run'.request_starts = freed.request_starts
        /\ run'.reservation_creations = freed.reservation_creations
    BY <1>2, <1>3 DEF RunRecord
  <1>6. ASSUME NEW g \in Groups
        PROVE  LET charged == {j \in D : Payer(j) = g}
               IN  /\ group'[g].pending =
                         group[g].pending - Cardinality(Holding(charged, "pending"))
                   /\ group'[g].active =
                         group[g].active - Cardinality(Holding(charged, "started"))
                   /\ group'[g].started = group[g].started
                   /\ group'[g].open =
                         group[g].open - Cardinality(ClosedFor(D, post, g))
    <2> DEFINE k == left(g).open - Cardinality(ClosedFor(D, post, g))
               q == [left(g) EXCEPT !.open = k]
    <2>1. group'[g] = q /\ left(g) \in GroupRecord
      BY <1>2, <1>3
    <2>2. LET charged == {j \in D : Payer(j) = g}
          IN  /\ left(g).pending =
                    group[g].pending - Cardinality(Holding(charged, "pending"))
              /\ left(g).active =
                    group[g].active - Cardinality(Holding(charged, "started"))
              /\ left(g).started = group[g].started /\ left(g).open = group[g].open
      BY <1>1, ReleasedFields
    <2> HIDE DEF k, left
    <2>3. /\ q.pending = left(g).pending /\ q.active = left(g).active
          /\ q.started = left(g).started /\ q.open = k
      BY <2>1 DEF GroupRecord
    <2> HIDE DEF q
    <2> QED
      BY <2>1, <2>2, <2>3 DEF k
  <1>7. \A s \in Scopes :
            LET charged == ChargedTo(D, s)
            IN  /\ scope'[s].active = scope[s].active - Cardinality(charged)
                /\ scope'[s].pending =
                      scope[s].pending - Cardinality(Holding(charged, "pending"))
                /\ scope'[s].started =
                      scope[s].started - Cardinality(Holding(charged, "started"))
    BY <1>1, <1>3, ReleasedFields
  <1>8. /\ \A i \in D : job'[i] = post[i]
        /\ \A i \in Jobs \ D : job'[i] = job[i]
    BY <1>3
  <1>9. /\ \A i \in D : job'[i].reservation.state = "none"
        /\ \A i \in Jobs \ D : job'[i].reservation = job[i].reservation
    BY <1>8 DEF Settling, Ends
  <1>10. /\ run'.pending = run.pending - Cardinality(Holding(D, "pending"))
         /\ run'.started = run.started - Cardinality(Holding(D, "started"))
    BY <1>4, <1>5
  <1>11. Releases(D)
    BY <1>6, <1>7, <1>9, <1>10 DEF Releases
  <1>12. /\ run'.job_count = run.job_count /\ run'.commits = run.commits
         /\ run'.open_job_count =
                run.open_job_count - (m("completed") + m("dead") + m("cancelled"))
         /\ run'.completed = run.completed + m("completed")
         /\ run'.dead = run.dead + m("dead")
         /\ run'.cancelled = run.cancelled + m("cancelled")
         /\ run'.retries = run.retries + m("delayed")
         /\ run'.recovered = run.recovered + n
         /\ run'.claims = run.claims
         /\ run'.request_starts = run.request_starts
         /\ run'.reservation_creations = run.reservation_creations
    BY <1>4, <1>5
  <1>13. \A g \in Groups :
            group'[g].open = group[g].open - Cardinality(ClosedFor(D, post, g))
    BY <1>6
  <1> QED
    BY <1>8, <1>11, <1>12, <1>13 DEF m

\* A step changes how many jobs are in a state by the jobs of D only.
LEMMA JobsChanged ==
    ASSUME NEW J \in SUBSET Jobs, NEW Z, NEW D \in SUBSET Jobs,
           \A i \in Jobs \ D : job[i].state \in Z <=> job'[i].state \in Z
    PROVE  /\ Cardinality(JobsIn(J, Z)') =
                  Cardinality(JobsIn(J, Z)) - Cardinality(JobsIn(J, Z) \cap D)
                      + Cardinality(JobsIn(J, Z)' \cap D)
           /\ Cardinality(JobsIn(J, Z)) \in Nat
           /\ Cardinality(JobsIn(J, Z) \cap D) \in Nat
           /\ Cardinality(JobsIn(J, Z)' \cap D) \in Nat
  <1> DEFINE A == JobsIn(J, Z)
             B == JobsIn(J, Z)'
  <1>1. A \in SUBSET Jobs /\ B \in SUBSET Jobs
    BY DEF JobsIn
  <1>2. \A i \in Jobs \ D : i \in A <=> i \in B
    BY DEF JobsIn
  <1>3. /\ Cardinality(A) \in Nat
        /\ Cardinality(A \cap D) \in Nat /\ Cardinality(B \cap D) \in Nat
    <2>1. A \cap D \in SUBSET Jobs /\ B \cap D \in SUBSET Jobs
      BY <1>1
    <2> QED
      BY <1>1, <2>1, CardinalityOfJobs
  <1> HIDE DEF A, B
  <1>4. Cardinality(B) = Cardinality(A) - Cardinality(A \cap D) + Cardinality(B \cap D)
    BY ZenonT(120), <1>1, <1>2, CountChange
  <1> QED
    BY <1>3, <1>4 DEF A, B

\* The jobs that a settlement closes enter one of three states.
LEMMA ClosedSplit ==
    ASSUME NEW D \in SUBSET Jobs, NEW post
    PROVE  /\ Cardinality(ClosedBy(D, post)) =
                  Entering(D, post, "completed") + Entering(D, post, "dead")
                      + Entering(D, post, "cancelled")
           /\ \A st : Entering(D, post, st) \in Nat
  <1> DEFINE into(st) == {j \in D : post[j].state = st}
             C == into("completed")
             E == into("dead")
             X == into("cancelled")
  <1>1. \A st : into(st) \in SUBSET Jobs
    OBVIOUS
  <1>2. \A st : IsFiniteSet(into(st)) /\ Cardinality(into(st)) \in Nat
    BY <1>1, CardinalityOfJobs
  <1>3. /\ ClosedBy(D, post) = (C \cup E) \cup X
        /\ C \cap E = {} /\ (C \cup E) \cap X = {}
    BY DEF ClosedBy, TerminalStates
  <1>4. \A st : Entering(D, post, st) = Cardinality(into(st))
    BY DEF Entering
  <1>5. /\ IsFiniteSet(C) /\ IsFiniteSet(E) /\ IsFiniteSet(X)
        /\ Cardinality(C) \in Nat /\ Cardinality(E) \in Nat
        /\ Cardinality(X) \in Nat /\ Cardinality({}) = 0
    BY <1>2, FS_EmptySet
  <1>6. /\ Entering(D, post, "completed") = Cardinality(C)
        /\ Entering(D, post, "dead") = Cardinality(E)
        /\ Entering(D, post, "cancelled") = Cardinality(X)
    BY <1>4
  <1>7. \A st : Entering(D, post, st) \in Nat
    BY <1>2, <1>4
  <1> HIDE DEF C, E, X
  <1>8. /\ IsFiniteSet(C \cup E)
        /\ Cardinality(C \cup E) =
               Cardinality(C) + Cardinality(E) - Cardinality(C \cap E)
    BY <1>5, FS_Union
  <1>9. Cardinality(C \cup E) = Cardinality(C) + Cardinality(E) - 0
    BY <1>3, <1>5, <1>8
  <1>10. Cardinality((C \cup E) \cup X) =
             Cardinality(C \cup E) + Cardinality(X)
                 - Cardinality((C \cup E) \cap X)
    BY <1>5, <1>8, FS_Union
  <1>11. Cardinality((C \cup E) \cup X) =
             Cardinality(C \cup E) + Cardinality(X) - 0
    BY <1>3, <1>5, <1>10
  <1>12. Cardinality(ClosedBy(D, post)) = Cardinality((C \cup E) \cup X)
    BY <1>3
  <1>13. Cardinality(ClosedBy(D, post)) =
             Cardinality(C) + Cardinality(E) + Cardinality(X)
    BY <1>5, <1>9, <1>11, <1>12
  <1> QED
    BY <1>6, <1>7, <1>13

\* A settlement moves the counters of jobs with the jobs it closes.
LEMMA SettleJobs ==
    ASSUME LedgerInv, NEW D \in SUBSET Jobs, NEW post, NEW n \in Nat,
           Settling(D, post, n)
    PROVE  JobsCounted'
  <1> DEFINE C == ClosedBy(D, post)
             m(st) == Entering(D, post, st)
  <1>1. /\ TypeInv /\ JobsCounted
        /\ \A i \in D : Ends(job[i], post[i]) /\ job'[i] = post[i]
        /\ \A i \in Jobs \ D : job'[i] = job[i]
    BY SettleFields DEF LedgerInv, RecordInv, CountInv, Settling
  <1>2. \A i \in D :
            /\ job[i].state \in OpenStates
            /\ job'[i].state \in {"ready", "delayed"} \cup TerminalStates
            /\ job[i].last_reason # "published"
            /\ job'[i].last_reason # "published"
    BY <1>1 DEF Ends
  <1>3. /\ JobsIn(Jobs, {"absent"})' = JobsIn(Jobs, {"absent"})
        /\ PublishedJobs' = PublishedJobs
    BY <1>1, <1>2 DEF JobsIn, PublishedJobs, OpenStates, TerminalStates
  <1>4. ASSUME NEW st \in {"completed", "dead", "cancelled"}
        PROVE  /\ Cardinality(JobsIn(Jobs, {st})') =
                      Cardinality(JobsIn(Jobs, {st})) + m(st)
               /\ Cardinality(JobsIn(Jobs, {st})) \in Nat
    <2>1. /\ JobsIn(Jobs, {st}) \cap D = {}
          /\ JobsIn(Jobs, {st})' \cap D = {j \in D : post[j].state = st}
      BY <1>1, <1>2 DEF JobsIn, OpenStates
    <2>2. Cardinality({j \in D : post[j].state = st}) = m(st)
      BY DEF Entering
    <2>3. /\ Cardinality(JobsIn(Jobs, {st})') =
                 Cardinality(JobsIn(Jobs, {st}))
                     - Cardinality(JobsIn(Jobs, {st}) \cap D)
                     + Cardinality(JobsIn(Jobs, {st})' \cap D)
          /\ Cardinality(JobsIn(Jobs, {st})) \in Nat
      <3>1. \A i \in Jobs \ D : job[i].state \in {st} <=> job'[i].state \in {st}
        BY <1>1
      <3>2. Jobs \in SUBSET Jobs
        OBVIOUS
      <3> HIDE DEF m
      <3> QED
        BY <3>1, <3>2, JobsChanged
    <2>4. m(st) \in Nat /\ Cardinality({}) = 0
      BY ClosedSplit, FS_EmptySet
    <2> HIDE DEF m
    <2>5. Cardinality(JobsIn(Jobs, {st})') =
              Cardinality(JobsIn(Jobs, {st})) - 0 + m(st)
      BY <2>1, <2>2, <2>3, <2>4
    <2> QED
      BY <2>3, <2>4, <2>5
  <1>5. /\ C \in SUBSET Jobs
        /\ \A i \in Jobs \ C :
              job[i].state \in OpenStates <=> job'[i].state \in OpenStates
        /\ \A i \in C : /\ job[i].state \in OpenStates
                        /\ job'[i].state \notin OpenStates
    BY <1>1, <1>2 DEF ClosedBy, OpenStates, TerminalStates
  <1>6. ASSUME NEW J \in SUBSET Jobs
        PROVE  /\ Cardinality(JobsIn(J, OpenStates)') =
                      Cardinality(JobsIn(J, OpenStates)) - Cardinality(J \cap C)
               /\ Cardinality(JobsIn(J, OpenStates)) \in Nat
               /\ Cardinality(J \cap C) \in Nat
    <2>1. /\ JobsIn(J, OpenStates) \cap C = J \cap C
          /\ JobsIn(J, OpenStates)' \cap C = {}
      BY <1>5 DEF JobsIn
    <2> HIDE DEF C
    <2>2. /\ Cardinality(JobsIn(J, OpenStates)') =
                 Cardinality(JobsIn(J, OpenStates))
                     - Cardinality(JobsIn(J, OpenStates) \cap C)
                     + Cardinality(JobsIn(J, OpenStates)' \cap C)
          /\ Cardinality(JobsIn(J, OpenStates)) \in Nat
          /\ Cardinality(JobsIn(J, OpenStates) \cap C) \in Nat
      BY ZenonT(60), <1>5, JobsChanged
    <2>3. Cardinality({}) = 0
      BY FS_EmptySet
    <2>4. /\ Cardinality(JobsIn(J, OpenStates)') =
                 Cardinality(JobsIn(J, OpenStates)) - Cardinality(J \cap C) + 0
          /\ Cardinality(J \cap C) \in Nat
      BY <2>1, <2>2, <2>3
    <2> QED
      BY <2>2, <2>4
  <1>7. /\ run'.open_job_count = Cardinality(JobsIn(Jobs, OpenStates)')
        /\ run'.job_count =
               Cardinality(Jobs) - Cardinality(JobsIn(Jobs, {"absent"})')
        /\ run'.completed = Cardinality(JobsIn(Jobs, {"completed"})')
        /\ run'.dead = Cardinality(JobsIn(Jobs, {"dead"})')
        /\ run'.cancelled = Cardinality(JobsIn(Jobs, {"cancelled"})')
        /\ run'.commits = Cardinality(PublishedJobs')
    <2>1. /\ run'.job_count = run.job_count /\ run'.commits = run.commits
          /\ run'.open_job_count =
                 run.open_job_count - (m("completed") + m("dead") + m("cancelled"))
          /\ run'.completed = run.completed + m("completed")
          /\ run'.dead = run.dead + m("dead")
          /\ run'.cancelled = run.cancelled + m("cancelled")
      BY SettleFields
    <2>2. /\ Cardinality(C) = m("completed") + m("dead") + m("cancelled")
          /\ m("completed") \in Nat /\ m("dead") \in Nat /\ m("cancelled") \in Nat
      BY ClosedSplit
    <2>3. Jobs \cap C = C
      BY <1>5
    <2> HIDE DEF m, C
    <2>4. /\ Cardinality(JobsIn(Jobs, OpenStates)') =
                 Cardinality(JobsIn(Jobs, OpenStates)) - Cardinality(C)
          /\ Cardinality(JobsIn(Jobs, OpenStates)) \in Nat
      BY <1>6, <2>3
    <2>5. /\ run.open_job_count = Cardinality(JobsIn(Jobs, OpenStates))
          /\ run.job_count =
                 Cardinality(Jobs) - Cardinality(JobsIn(Jobs, {"absent"}))
          /\ run.completed = Cardinality(JobsIn(Jobs, {"completed"}))
          /\ run.dead = Cardinality(JobsIn(Jobs, {"dead"}))
          /\ run.cancelled = Cardinality(JobsIn(Jobs, {"cancelled"}))
          /\ run.commits = Cardinality(PublishedJobs)
      BY <1>1 DEF JobsCounted
    <2>6. run'.open_job_count = Cardinality(JobsIn(Jobs, OpenStates)')
      BY <2>1, <2>2, <2>4, <2>5
    <2>7. /\ run'.completed = Cardinality(JobsIn(Jobs, {"completed"})')
          /\ run'.dead = Cardinality(JobsIn(Jobs, {"dead"})')
          /\ run'.cancelled = Cardinality(JobsIn(Jobs, {"cancelled"})')
      BY <1>4, <2>1, <2>5
    <2> QED
      BY <1>3, <2>1, <2>5, <2>6, <2>7
  <1>8. ASSUME NEW g \in Groups
        PROVE  group'[g].open = Cardinality(JobsIn(Owned(g), OpenStates)')
    <2>1. Owned(g) \in SUBSET Jobs /\ Owned(g) \cap C = ClosedFor(D, post, g)
      BY <1>5 DEF Owned, ClosedBy, ClosedFor
    <2>2. /\ group'[g].open = group[g].open - Cardinality(ClosedFor(D, post, g))
          /\ group[g].open = Cardinality(JobsIn(Owned(g), OpenStates))
      BY ZenonT(120), <1>1, SettleFields DEF JobsCounted
    <2> HIDE DEF C
    <2> QED
      BY <1>6, <2>1, <2>2
  <1> QED
    BY <1>7, <1>8 DEF JobsCounted, Owned

\* A settlement counts its retries and its recoveries, and nothing else.
LEMMA SettleTotals ==
    ASSUME LedgerInv, TypeInv', NEW D \in SUBSET Jobs, NEW post, NEW n \in Nat,
           Settling(D, post, n)
    PROVE  TotalsCounted' /\ StartsCounted'
  <1> DEFINE L == {j \in D : post[j].state = "delayed"}
             E == RecoveredIn(D, post)
  <1>1. /\ RecordInv /\ TypeInv /\ TotalsCounted /\ StartsCounted
        /\ \A i \in D : Ends(job[i], post[i]) /\ job'[i] = post[i]
        /\ \A i \in Jobs \ D : job'[i] = job[i]
    BY SettleFields DEF LedgerInv, RecordInv, CountInv, Settling
  <1>2. \A i \in Jobs :
            /\ job'[i].claim_count = job[i].claim_count
            /\ job'[i].request_starts = job[i].request_starts
            /\ job'[i].next_request_ordinal = job[i].next_request_ordinal
    BY <1>1 DEF Ends
  <1>3. \A i \in Jobs :
            /\ job[i].retry_count \in Nat /\ job[i].pre_io_recoveries \in Nat
            /\ job[i].next_request_ordinal \in Nat
    BY <1>1 DEF TypeInv, TypeOK, JobRecord
  <1>4. \A i \in Jobs :
            job'[i].next_request_ordinal >= job[i].next_request_ordinal
    BY <1>2, <1>3
  <1>5. /\ ClaimCounts' = ClaimCounts /\ StartCounts' = StartCounts
        /\ CreationCounts' = CreationCounts
    BY <1>2 DEF ClaimCounts, StartCounts, CreationCounts
  <1>6. /\ IsFiniteSet(Jobs) /\ L \in SUBSET Jobs /\ E \in SUBSET Jobs
        /\ RetryCounts \in [Jobs -> Nat] /\ RetryCounts' \in [Jobs -> Nat]
        /\ RecoveryCounts \in [Jobs -> Nat] /\ RecoveryCounts' \in [Jobs -> Nat]
    BY <1>1, <1>4, CountFunctions DEF RecoveredIn
  <1>7. Total(RetryCounts)' = Total(RetryCounts) + Entering(D, post, "delayed")
    <2>1. \A i \in L : RetryCounts'[i] = RetryCounts[i] + 1
      BY <1>1 DEF Ends, RetryCounts
    <2>2. \A i \in Jobs \ L : RetryCounts'[i] = RetryCounts[i]
      <3> SUFFICES ASSUME NEW i \in Jobs \ L
                   PROVE  job'[i].retry_count = job[i].retry_count
        BY DEF RetryCounts
      <3>1. CASE i \in D
        <4>1. job'[i].retry_count = job[i].retry_count + 0
          BY <1>1, <3>1 DEF Ends
        <4> QED
          BY <1>3, <4>1
      <3>2. CASE i \notin D
        BY <1>1, <3>2
      <3> QED
        BY <3>1, <3>2
    <2> HIDE DEF L
    <2>3. Total(RetryCounts') = Total(RetryCounts) + Cardinality(L)
      BY <1>6, <2>1, <2>2, TotalRaised
    <2>4. Total(RetryCounts)' = Total(RetryCounts')
      BY DEF Total, Units
    <2>5. Cardinality(L) = Entering(D, post, "delayed")
      BY DEF L, Entering
    <2> QED
      BY <2>3, <2>4, <2>5
  <1>8. /\ Total(RecoveryCounts)' = Total(RecoveryCounts) + Cardinality(E)
        /\ Total(RecoveryCounts) \in Nat
    <2>1. \A i \in E : RecoveryCounts'[i] = RecoveryCounts[i] + 1
      BY <1>1 DEF Ends, RecoveryCounts, RecoveredIn
    <2>2. \A i \in Jobs \ E : RecoveryCounts'[i] = RecoveryCounts[i]
      BY <1>1 DEF RecoveryCounts, RecoveredIn
    <2> HIDE DEF E
    <2>3. Total(RecoveryCounts') = Total(RecoveryCounts) + Cardinality(E)
      BY <1>6, <2>1, <2>2, TotalRaised
    <2>4. Total(RecoveryCounts)' = Total(RecoveryCounts')
      BY DEF Total, Units
    <2> QED
      BY <1>6, <2>3, <2>4, TotalIsNat
  <1>9. /\ run'.claims = run.claims /\ run'.request_starts = run.request_starts
        /\ run'.reservation_creations = run.reservation_creations
        /\ run'.retries = run.retries + Entering(D, post, "delayed")
        /\ run'.recovered = run.recovered + n
    BY SettleFields
  <1>10. run'.recovered >= Total(RecoveryCounts)'
    <2>1. run.recovered \in Nat /\ run.recovered >= Total(RecoveryCounts)
      BY <1>1, CounterTypes DEF TotalsCounted
    <2>2. Cardinality(E) \in Nat /\ Cardinality(E) =< n
      BY <1>6, CardinalityOfJobs DEF Settling
    <2> HIDE DEF E
    <2> QED
      BY <1>8, <1>9, <2>1, <2>2
  <1>11. TotalsCounted'
    BY <1>1, <1>5, <1>7, <1>9, <1>10 DEF TotalsCounted
  <1>12. StartsCounted'
    <2>1. \A g \in Groups : /\ group'[g].started = group[g].started
                            /\ group'[g].active =< group[g].active
      BY SettleFields, ReleaseRequests
    <2>2. GroupStarts' = GroupStarts
      BY <2>1 DEF GroupStarts
    <2>3. \A g \in Groups : group'[g].active =< group'[g].started
      <3> SUFFICES ASSUME NEW g \in Groups
                   PROVE  group'[g].active =< group'[g].started
        OBVIOUS
      <3>1. /\ group[g].started \in Nat /\ group[g].active \in Int
            /\ group'[g].active \in Int
        BY <1>1, CounterTypes DEF TypeInv, TypeOK, GroupRecord
      <3>2. group[g].active =< group[g].started
        BY <1>1 DEF StartsCounted
      <3> QED
        BY <2>1, <3>1, <3>2
    <2> QED
      BY <1>1, <1>9, <2>2, <2>3 DEF StartsCounted
  <1> QED
    BY <1>11, <1>12

\* A settlement keeps all counters exact and within their limits.
LEMMA SettleCounts ==
    ASSUME LedgerInv, TypeInv', NEW D \in SUBSET Jobs, NEW post, NEW n \in Nat,
           Settling(D, post, n)
    PROVE  CountInv'
  <1>1. TypeInv /\ WithinLimits /\ Releases(D)
    BY SettleFields DEF LedgerInv, RecordInv, CountInv
  <1>2. /\ RequestsCounted' /\ run'.pending =< run.pending
        /\ \A g \in Groups : /\ group'[g].pending =< group[g].pending
                             /\ group'[g].started = group[g].started
        /\ \A s \in Scopes : scope'[s].active =< scope[s].active
    BY <1>1, ReleaseRequests
  <1>3. WithinLimits'
    <2>1. /\ run.request_starts \in Nat /\ run.pending \in Int
          /\ run'.pending \in Int /\ MaxRequestStarts \in Nat
          /\ run.request_starts + run.pending =< MaxRequestStarts
          /\ run.reservation_creations =< MaxReservations
      BY <1>1, CounterTypes, BoundsAssumption
         DEF TypeInv, TypeOK, RunRecord, WithinLimits
    <2>2. /\ run'.request_starts = run.request_starts
          /\ run'.reservation_creations = run.reservation_creations
      BY SettleFields
    <2>3. /\ run'.request_starts + run'.pending =< MaxRequestStarts
          /\ run'.reservation_creations =< MaxReservations
      BY <1>2, <2>1, <2>2
    <2>4. ASSUME NEW g \in Groups
          PROVE  group'[g].started + group'[g].pending =< GroupLimit[g]
      <3>1. /\ group[g].started \in Nat /\ group[g].pending \in Int
            /\ group'[g].pending \in Int /\ GroupLimit[g] \in Nat
        BY <1>1, CounterTypes, PolicyAssumption DEF TypeInv, TypeOK, GroupRecord
      <3>2. group[g].started + group[g].pending =< GroupLimit[g]
        BY <1>1 DEF WithinLimits
      <3> QED
        BY <1>2, <3>1, <3>2
    <2>5. ASSUME NEW s \in Scopes
          PROVE  scope'[s].active =< Concurrency[s]
      <3>1. /\ scope[s].active \in Int /\ scope'[s].active \in Int
            /\ Concurrency[s] \in Nat
        BY <1>1, CounterTypes, PolicyAssumption DEF TypeInv, TypeOK, ScopeRecord
      <3>2. scope[s].active =< Concurrency[s]
        BY <1>1 DEF WithinLimits
      <3> QED
        BY <1>2, <3>1, <3>2
    <2> QED
      BY <2>3, <2>4, <2>5 DEF WithinLimits
  <1> QED
    BY <1>2, <1>3, SettleJobs, SettleTotals DEF CountInv

\* What an open job has counted, and why the run may withdraw it.
LEMMA OpenRecord ==
    ASSUME RecordInv, NEW j \in Jobs, job[j].state \in OpenStates
    PROVE  /\ job[j] \in JobRecord /\ job[j].last_reason # "published"
           /\ job[j].retry_count \in Nat /\ job[j].pre_io_recoveries \in Nat
           /\ Cancellation # "published"
  <1>1. job[j] \in JobRecord /\ Sound(job[j], stage[j])
    BY DEF RecordInv, TypeInv, TypeOK
  <1>2. job[j].last_reason # "published"
    BY <1>1 DEF Sound, ReasonsValid, OpenStates
  <1>3. Cancellation # "published"
    BY CancellationReason, ReasonsAssumption DEF RecordInv
  <1> QED
    BY <1>1, <1>2, <1>3, RecordNumbers

\* Every outcome but a retry ends a record so that nothing more is counted.
LEMMA OutcomeEnds ==
    ASSUME NEW r \in JobRecord, r.state \in OpenStates,
           r.last_reason # "published",
           NEW st \in {"ready"} \cup TerminalStates,
           NEW reason, reason # "published", NEW status,
           NEW q, q = Outcome(r, st, reason, status)
    PROVE  Ends(r, q) /\ q.pre_io_recoveries = r.pre_io_recoveries
  <1>1. /\ q.state = st /\ q.reservation = NoReservation
        /\ q.claim_count = r.claim_count /\ q.request_starts = r.request_starts
        /\ q.next_request_ordinal = r.next_request_ordinal
        /\ q.retry_count = r.retry_count
        /\ q.pre_io_recoveries = r.pre_io_recoveries /\ q.last_reason = reason
    BY DEF Outcome, JobRecord
  <1>2. /\ NoReservation.state = "none" /\ r.retry_count + 0 = r.retry_count
        /\ st # "delayed"
    BY DEF NoReservation, JobRecord, TerminalStates
  <1> QED
    BY <1>1, <1>2 DEF Ends

\* So does a failure.
LEMMA FailedEnds ==
    ASSUME NEW r \in JobRecord, r.state \in OpenStates,
           r.last_reason # "published",
           NEW reason, reason # "published", NEW failure, NEW status,
           NEW q, q = Failed(r, reason, failure, status)
    PROVE  Ends(r, q) /\ q.pre_io_recoveries = r.pre_io_recoveries
  <1>1. /\ q.state = "dead" /\ q.reservation = NoReservation
        /\ q.claim_count = r.claim_count /\ q.request_starts = r.request_starts
        /\ q.next_request_ordinal = r.next_request_ordinal
        /\ q.retry_count = r.retry_count
        /\ q.pre_io_recoveries = r.pre_io_recoveries /\ q.last_reason = reason
    BY DEF Failed, Outcome, JobRecord
  <1>2. NoReservation.state = "none" /\ r.retry_count + 0 = r.retry_count
    BY DEF NoReservation, JobRecord
  <1> QED
    BY <1>1, <1>2 DEF Ends, TerminalStates

\* A retry counts itself if it delays the job.
LEMMA RetriedEnds ==
    ASSUME NEW r \in JobRecord, r.state \in OpenStates,
           r.last_reason # "published",
           NEW reason, reason # "published", NEW delay, NEW dead,
           NEW q, q = Retried(r, reason, delay, dead)
    PROVE  Ends(r, q) /\ q.pre_io_recoveries = r.pre_io_recoveries
  <1>1. CASE r.delivery_attempts = MaxDeliveryAttempts
    <2>1. q = Failed(r, "retry_exhausted", reason, dead)
      BY <1>1 DEF Retried
    <2> QED
      BY <2>1, FailedEnds
  <1>2. CASE r.delivery_attempts # MaxDeliveryAttempts
    <2> DEFINE p == Outcome(r, "delayed", reason, delay)
               left == IF r.delivery_attempts = 1 THEN RetryDelay[1]
                       ELSE RetryDelay[2]
    <2>1. q = [p EXCEPT !.last_failure_reason = reason,
                        !.not_before_left = left,
                        !.retry_count = p.retry_count + 1]
      BY <1>2 DEF Retried
    <2> HIDE DEF left
    <2>2. /\ q.state = "delayed" /\ q.reservation = NoReservation
          /\ q.claim_count = r.claim_count
          /\ q.request_starts = r.request_starts
          /\ q.next_request_ordinal = r.next_request_ordinal
          /\ q.retry_count = r.retry_count + 1
          /\ q.pre_io_recoveries = r.pre_io_recoveries
          /\ q.last_reason = reason
      BY <2>1 DEF Outcome, JobRecord
    <2>3. NoReservation.state = "none"
      BY DEF NoReservation
    <2> QED
      BY <2>2, <2>3 DEF Ends
  <1> QED
    BY <1>1, <1>2

\* A recovery counts itself if the lease had done no request.
LEMMA RecoveredEnds ==
    ASSUME NEW r \in JobRecord, r.state \in OpenStates,
           r.last_reason # "published", Cancellation # "published",
           NEW q, q = Recovered(r)
    PROVE  Ends(r, q)
  <1>1. CASE Cancellation # "none"
    <2>1. q = Outcome(r, "cancelled", Cancellation, NoStatus)
      BY <1>1 DEF Recovered, Withdrawn
    <2> QED
      BY <2>1, OutcomeEnds DEF TerminalStates
  <1>2. CASE Cancellation = "none" /\ r.lease_delivery_started = 1
    <2>1. q = Retried(r, "lease_expired_after_io", NoStatus, NoStatus)
      BY <1>2 DEF Recovered
    <2> QED
      BY <2>1, RetriedEnds
  <1>3. CASE /\ Cancellation = "none" /\ r.lease_delivery_started # 1
             /\ r.pre_io_recoveries = MaxPreIoRecoveries - 1
    <2> DEFINE why == "pre_io_recovery_exhausted"
               p == Failed(r, why, why, NoStatus)
    <2>1. q = [p EXCEPT !.pre_io_recoveries = MaxPreIoRecoveries]
      BY <1>3 DEF Recovered
    <2>2. Ends(r, p) /\ p.pre_io_recoveries = r.pre_io_recoveries
      BY FailedEnds
    <2>3. /\ q.state = p.state /\ q.reservation = p.reservation
          /\ q.claim_count = p.claim_count
          /\ q.request_starts = p.request_starts
          /\ q.next_request_ordinal = p.next_request_ordinal
          /\ q.retry_count = p.retry_count /\ q.last_reason = p.last_reason
          /\ q.pre_io_recoveries = MaxPreIoRecoveries
      BY <2>1 DEF Failed, Outcome, JobRecord
    <2>4. MaxPreIoRecoveries = r.pre_io_recoveries + 1
      BY <1>3 DEF MaxPreIoRecoveries
    <2> HIDE DEF p
    <2> QED
      BY <2>2, <2>3, <2>4 DEF Ends
  <1>4. CASE /\ Cancellation = "none" /\ r.lease_delivery_started # 1
             /\ r.pre_io_recoveries # MaxPreIoRecoveries - 1
    <2> DEFINE p == Outcome(r, "ready", "none", NoStatus)
    <2>1. q = [p EXCEPT !.pre_io_recoveries = p.pre_io_recoveries + 1]
      BY <1>4 DEF Recovered
    <2>2. Ends(r, p) /\ p.pre_io_recoveries = r.pre_io_recoveries
      BY OutcomeEnds
    <2>3. /\ q.state = p.state /\ q.reservation = p.reservation
          /\ q.claim_count = p.claim_count
          /\ q.request_starts = p.request_starts
          /\ q.next_request_ordinal = p.next_request_ordinal
          /\ q.retry_count = p.retry_count /\ q.last_reason = p.last_reason
          /\ q.pre_io_recoveries = p.pre_io_recoveries + 1
      BY <2>1 DEF Outcome, JobRecord
    <2> HIDE DEF p
    <2> QED
      BY <2>2, <2>3 DEF Ends
  <1> QED
    BY <1>1, <1>2, <1>3, <1>4

\* A step that settles the jobs of some set.
Settlement ==
    \E D \in SUBSET Jobs, n \in Nat : \E post : Settling(D, post, n)

\* Settlements keep every counter exact.
LEMMA SettlementCounts ==
    ASSUME LedgerInv, TypeInv', Settlement
    PROVE  CountInv'
  BY SettleCounts DEF Settlement

\* A settlement of a single job, which is no recovery.
LEMMA SettleOne ==
    ASSUME LedgerInv, NEW j \in Jobs, NEW q,
           Settle({j}, [k \in {j} |-> q], 0),
           Ends(job[j], q), q.pre_io_recoveries = job[j].pre_io_recoveries
    PROVE  Settlement
  <1> DEFINE post == [k \in {j} |-> q]
  <1>1. /\ post[j] = q /\ Settle({j}, post, 0) /\ {j} \in SUBSET Jobs
    OBVIOUS
  <1> HIDE DEF post
  <1>2. RecoveredIn({j}, post) = {}
    BY <1>1 DEF RecoveredIn
  <1>3. Cardinality(RecoveredIn({j}, post)) =< 0
    BY <1>2, FS_EmptySet
  <1>4. Settling({j}, post, 0)
    BY <1>1, <1>3 DEF Settling
  <1> QED
    BY <1>1, <1>4 DEF Settlement

\* A worker's outcome, which a withdrawn run overrides.
LEMMA EndLeaseSettles ==
    ASSUME LedgerInv, NEW w \in Workers, NEW j \in Jobs, NEW f \in Nat,
           NEW post, EndLease(w, j, f, post),
           Cancellation = "none" =>
               /\ Ends(job[j], post)
               /\ post.pre_io_recoveries = job[j].pre_io_recoveries
    PROVE  Settlement
  <1> DEFINE q == IF Cancellation = "none" THEN post
                  ELSE Withdrawn(job[j], "CANCELLED")
  <1>1. /\ Settle({j}, [k \in {j} |-> q], 0) /\ RecordInv
        /\ job[j].state \in OpenStates
    BY DEF EndLease, GivesUp, Holds, OpenStates, LedgerInv
  <1>2. Ends(job[j], q) /\ q.pre_io_recoveries = job[j].pre_io_recoveries
    <2>1. CASE Cancellation = "none"
      BY <2>1
    <2>2. CASE Cancellation # "none"
      <3>1. q = Outcome(job[j], "cancelled", Cancellation, "CANCELLED")
        BY <2>2 DEF Withdrawn
      <3>2. "cancelled" \in {"ready"} \cup TerminalStates
        BY DEF TerminalStates
      <3> HIDE DEF q
      <3> QED
        BY <1>1, <3>1, <3>2, OpenRecord, OutcomeEnds
    <2> QED
      BY <2>1, <2>2
  <1> HIDE DEF q
  <1> QED
    BY <1>1, <1>2, SettleOne

\* The outcomes that a worker reports are settlements.
LEMMA OutcomeSettles ==
    ASSUME LedgerInv, NEW w \in Workers, NEW j \in Jobs, NEW f \in Nat,
           \/ ReleaseBeforeIo(w, j, f)
           \/ \E r \in RetryReasons : Retry(w, j, f, r)
           \/ \E r \in DeadReasons : Dead(w, j, f, r)
           \/ CompleteNoOutput(w, j, f)
           \/ CancelJob(w, j, f)
    PROVE  Settlement
  <1> DEFINE r == job[j]
  <1>1. r \in JobRecord /\ r.state \in OpenStates /\ r.last_reason # "published"
    <2>1. r.state \in OpenStates
      BY DEF ReleaseBeforeIo, Retry, Dead, CompleteNoOutput, CancelJob,
             EndLease, GivesUp, Holds, OpenStates
    <2> QED
      BY <2>1, OpenRecord DEF LedgerInv
  <1>2. "ready" \in {"ready"} \cup TerminalStates
        /\ "completed" \in {"ready"} \cup TerminalStates
    BY DEF TerminalStates
  <1>3. CASE ReleaseBeforeIo(w, j, f)
    <2> DEFINE q == Outcome(r, "ready", "none", "RELEASED_READY")
    <2>1. Ends(r, q) /\ q.pre_io_recoveries = r.pre_io_recoveries
      BY <1>1, <1>2, OutcomeEnds
    <2>2. EndLease(w, j, f, q)
      BY <1>3 DEF ReleaseBeforeIo
    <2> HIDE DEF q
    <2> QED
      BY <2>1, <2>2, EndLeaseSettles
  <1>4. ASSUME NEW reason \in RetryReasons, Retry(w, j, f, reason)
        PROVE  Settlement
    <2> DEFINE q == Retried(r, reason, "RETRY_SCHEDULED", "DEAD")
    <2>1. Ends(r, q) /\ q.pre_io_recoveries = r.pre_io_recoveries
      BY <1>1, RetriedEnds, ReasonsAssumption
    <2>2. EndLease(w, j, f, q)
      BY <1>4 DEF Retry
    <2> HIDE DEF q
    <2> QED
      BY <2>1, <2>2, EndLeaseSettles
  <1>5. ASSUME NEW reason \in DeadReasons, Dead(w, j, f, reason)
        PROVE  Settlement
    <2> DEFINE q == Failed(r, reason, reason, "DEAD")
    <2>1. Ends(r, q) /\ q.pre_io_recoveries = r.pre_io_recoveries
      BY <1>1, FailedEnds, ReasonsAssumption
    <2>2. EndLease(w, j, f, q)
      BY <1>5 DEF Dead
    <2> HIDE DEF q
    <2> QED
      BY <2>1, <2>2, EndLeaseSettles
  <1>6. CASE CompleteNoOutput(w, j, f)
    <2> DEFINE q == Outcome(r, "completed", "already_visited", "COMPLETED")
    <2>1. Ends(r, q) /\ q.pre_io_recoveries = r.pre_io_recoveries
      BY <1>1, <1>2, OutcomeEnds
    <2>2. EndLease(w, j, f, q)
      BY <1>6 DEF CompleteNoOutput
    <2> HIDE DEF q
    <2> QED
      BY <2>1, <2>2, EndLeaseSettles
  <1>7. CASE CancelJob(w, j, f)
    <2> DEFINE q == Withdrawn(r, "CANCELLED")
    <2>1. Cancellation # "none" /\ EndLease(w, j, f, q)
      BY <1>7 DEF CancelJob
    <2> HIDE DEF q
    <2> QED
      BY <2>1, EndLeaseSettles
  <1> QED
    BY <1>3, <1>4, <1>5, <1>6, <1>7

\* So are the recovery of expired leases, which counts one recovery for each, and
\* the batches of a cancellation, which count none.
LEMMA BatchSettles ==
    ASSUME LedgerInv,
           RecoverExpired \/ \E b \in SUBSET Jobs : CancelBatch(b)
    PROVE  Settlement
  <1>1. RecordInv
    BY DEF LedgerInv
  <1>2. CASE RecoverExpired
    <2> DEFINE post == [j \in Expired |-> Recovered(job[j])]
    <2>1. /\ Settle(Expired, post, Cardinality(Expired))
          /\ Expired \in SUBSET Jobs
      BY <1>2 DEF RecoverExpired, Expired, InState
    <2>2. \A j \in Expired : Ends(job[j], post[j])
      <3> SUFFICES ASSUME NEW j \in Expired
                   PROVE  Ends(job[j], post[j])
        OBVIOUS
      <3>1. /\ post[j] = Recovered(job[j]) /\ j \in Jobs
            /\ job[j].state \in OpenStates
        BY DEF Expired, InState, OpenStates
      <3> HIDE DEF post
      <3> QED
        BY <1>1, <3>1, OpenRecord, RecoveredEnds
    <2> HIDE DEF post
    <2>3. Cardinality(RecoveredIn(Expired, post)) =< Cardinality(Expired)
      <3>1. RecoveredIn(Expired, post) \subseteq Expired
        BY DEF RecoveredIn
      <3> QED
        BY <2>1, <3>1, CardinalityOfJobs, FS_Subset
    <2>4. Cardinality(Expired) \in Nat
      BY <2>1, CardinalityOfJobs
    <2> QED
      BY <2>1, <2>2, <2>3, <2>4 DEF Settling, Settlement
  <1>3. ASSUME NEW b \in SUBSET Jobs, CancelBatch(b)
        PROVE  Settlement
    <2> DEFINE post == [j \in b |-> Withdrawn(job[j], NoStatus)]
    <2>1. Settle(b, post, 0)
      BY <1>3 DEF CancelBatch
    <2>2. \A j \in b : /\ Ends(job[j], post[j])
                       /\ post[j].pre_io_recoveries = job[j].pre_io_recoveries
      <3> SUFFICES ASSUME NEW j \in b
                   PROVE  /\ Ends(job[j], post[j])
                          /\ post[j].pre_io_recoveries = job[j].pre_io_recoveries
        OBVIOUS
      <3>1. post[j] = Outcome(job[j], "cancelled", Cancellation, NoStatus)
        BY DEF Withdrawn
      <3>2. job[j].state \in OpenStates
        BY <1>3 DEF CancelBatch, IsBatch, Cancellable, InState, OpenStates
      <3>3. "cancelled" \in {"ready"} \cup TerminalStates
        BY DEF TerminalStates
      <3> HIDE DEF post
      <3> QED
        BY <1>1, <3>1, <3>2, <3>3, OpenRecord, OutcomeEnds
    <2> HIDE DEF post
    <2>3. RecoveredIn(b, post) = {}
      BY <2>2 DEF RecoveredIn
    <2>4. Cardinality(RecoveredIn(b, post)) =< 0
      BY <2>3, FS_EmptySet
    <2> QED
      BY <2>1, <2>2, <2>4 DEF Settling, Settlement
  <1> QED
    BY <1>2, <1>3

\* A ready job that is found visited or is rejected is settled.
LEMMA ReadySettles ==
    ASSUME LedgerInv, NEW j \in Jobs,
           \/ \E prior : ClaimVisited(j, prior)
           \/ \E reason \in ReadyReasons : RejectReady(j, reason)
    PROVE  Settlement
  <1> DEFINE r == job[j]
  <1>1. RecordInv /\ "ready" \in OpenStates
    BY DEF LedgerInv, OpenStates
  <1>2. ASSUME NEW prior, ClaimVisited(j, prior)
        PROVE  Settlement
    <2> DEFINE q == Outcome(r, "completed", "already_visited", "VISITED_COMPLETED")
    <2>1. /\ Settle({j}, [k \in {j} |-> q], 0) /\ r.state \in OpenStates
          /\ "completed" \in {"ready"} \cup TerminalStates
      BY <1>1, <1>2 DEF ClaimVisited, TerminalStates
    <2>2. Ends(r, q) /\ q.pre_io_recoveries = r.pre_io_recoveries
      BY <1>1, <2>1, OpenRecord, OutcomeEnds
    <2> HIDE DEF q
    <2> QED
      BY <2>1, <2>2, SettleOne
  <1>3. ASSUME NEW reason \in ReadyReasons, RejectReady(j, reason)
        PROVE  Settlement
    <2> DEFINE q == Failed(r, reason, reason, "DEAD")
    <2>1. Settle({j}, [k \in {j} |-> q], 0) /\ r.state \in OpenStates
      BY <1>1, <1>3 DEF RejectReady
    <2>2. reason # "published"
      BY <1>3, ReasonsAssumption
    <2>3. Ends(r, q) /\ q.pre_io_recoveries = r.pre_io_recoveries
      BY <1>1, <2>1, <2>2, OpenRecord, FailedEnds
    <2> HIDE DEF q
    <2> QED
      BY <2>1, <2>3, SettleOne
  <1> QED
    BY <1>2, <1>3

-----------------------------------------------------------------------------
(* Commits.                                                                *)

\* A commit changes no request and no total: the jobs it opens have counted
\* nothing yet, and the job it publishes keeps its counts.
LEMMA CommitRecords ==
    ASSUME LedgerInv, NEW w \in Workers, NEW j \in Jobs, NEW f \in Nat,
           NEW D \in SUBSET Jobs, NEW A \in SUBSET Jobs, Commit(w, j, f, D, A)
    PROVE  LET fresh == Fresh(D, j)
           IN  /\ \A i \in Jobs : /\ job'[i].reservation = job[i].reservation
                                  /\ SameTotals(job[i], job'[i])
               /\ fresh \in SUBSET Jobs /\ j \notin fresh
               /\ \A i \in fresh : /\ job[i].state = "absent"
                                   /\ job'[i].state = "ready"
                                   /\ job[i].last_reason # "published"
                                   /\ job'[i].last_reason # "published"
               /\ job[j].state = "leased" /\ job'[j].state = "completed"
               /\ job[j].last_reason # "published"
               /\ job'[j].last_reason = "published"
               /\ \A i \in Jobs \ (fresh \cup {j}) : job'[i] = job[i]
  <1> DEFINE fresh == Fresh(D, j)
             r == job[j]
             q == Outcome(r, "completed", "published", "COMMITTED")
  <1>1. RecordInv /\ job \in [Jobs -> JobRecord]
    BY DEF LedgerInv, RecordInv, TypeInv, TypeOK
  <1>2. r.state = "leased" /\ r.reservation = NoReservation
    BY DEF Commit, OwnsStage, StageReady, Holds
  <1>3. job' = [i \in Jobs |-> IF i = j THEN q
                               ELSE IF i \in fresh THEN InitialRecord ELSE job[i]]
    BY DEF Commit
  <1>4. /\ fresh \in SUBSET Jobs /\ j \notin fresh
        /\ \A i \in fresh : job[i].state = "absent"
    BY DEF Fresh
  <1>5. /\ q.reservation = NoReservation /\ SameTotals(r, q)
        /\ q.state = "completed" /\ q.last_reason = "published"
    BY <1>1 DEF Outcome, JobRecord, SameTotals
  <1>6. r.last_reason # "published"
    BY <1>1, <1>2, OpenRecord DEF OpenStates
  <1>7. ASSUME NEW i \in fresh
        PROVE  /\ job[i].reservation = NoReservation
               /\ InitialRecord.reservation = NoReservation
               /\ SameTotals(job[i], InitialRecord)
               /\ job[i].last_reason # "published"
               /\ InitialRecord.last_reason # "published"
               /\ InitialRecord.state = "ready"
    <2>1. i \in Jobs /\ job[i].state = "absent" /\ Sound(job[i], stage[i])
      BY <1>1, <1>4 DEF RecordInv
    <2>2. /\ job[i].reservation = NoReservation /\ job[i].last_reason # "published"
          /\ job[i].claim_count = 0 /\ job[i].retry_count = 0
          /\ job[i].pre_io_recoveries = 0 /\ job[i].request_starts = 0
          /\ job[i].next_request_ordinal = 1
      BY <2>1 DEF Sound, LeaseValid, ReasonsValid, Margins
    <2>3. /\ InitialRecord.reservation = NoReservation
          /\ InitialRecord.last_reason = "none"
          /\ InitialRecord.state = "ready"
          /\ InitialRecord.claim_count = 0 /\ InitialRecord.retry_count = 0
          /\ InitialRecord.pre_io_recoveries = 0
          /\ InitialRecord.request_starts = 0
          /\ InitialRecord.next_request_ordinal = 1
      BY DEF InitialRecord
    <2> QED
      BY <2>2, <2>3 DEF SameTotals
  <1> HIDE DEF q, fresh
  <1>8. /\ job'[j] = q /\ \A i \in fresh : job'[i] = InitialRecord
        /\ \A i \in Jobs \ (fresh \cup {j}) : job'[i] = job[i]
    BY <1>3, <1>4
  <1>9. ASSUME NEW i \in Jobs
        PROVE  /\ job'[i].reservation = job[i].reservation
               /\ SameTotals(job[i], job'[i])
    <2>1. CASE i = j
      BY <1>2, <1>5, <1>8, <2>1
    <2>2. CASE i \in fresh
      BY <1>7, <1>8, <2>2
    <2>3. CASE i \in Jobs \ (fresh \cup {j})
      BY <1>8, <2>3 DEF SameTotals
    <2> QED
      BY <2>1, <2>2, <2>3
  <1>10. \A i \in fresh : /\ job[i].state = "absent" /\ job'[i].state = "ready"
                          /\ job[i].last_reason # "published"
                          /\ job'[i].last_reason # "published"
    BY <1>4, <1>7, <1>8
  <1> QED
    BY <1>2, <1>4, <1>5, <1>6, <1>8, <1>9, <1>10 DEF fresh

\* The jobs of F that group g owns.
OpenedFor(F, g) == {d \in F : SourceGroup[d] = g}

\* What the commit of job j does to the counters when it opens the jobs of F.
CommitEffect(j, F) ==
    /\ RequestCountersSame /\ TotalCountersSame
    /\ run'.job_count = run.job_count + Cardinality(F)
    /\ run'.open_job_count = run.open_job_count + Cardinality(F) - 1
    /\ run'.completed = run.completed + 1 /\ run'.commits = run.commits + 1
    /\ run'.dead = run.dead /\ run'.cancelled = run.cancelled
    /\ \A g \in Groups :
          group'[g].open = group[g].open + Cardinality(OpenedFor(F, g))
                               - (IF SourceGroup[j] = g THEN 1 ELSE 0)

\* A commit has that effect.
LEMMA CommitFields ==
    ASSUME LedgerInv, NEW w \in Workers, NEW j \in Jobs, NEW f \in Nat,
           NEW D \in SUBSET Jobs, NEW A \in SUBSET Jobs, Commit(w, j, f, D, A)
    PROVE  CommitEffect(j, Fresh(D, j))
  <1> DEFINE fresh == Fresh(D, j)
             n == Cardinality(fresh)
             more(g) == Cardinality(OpenedFor(fresh, g))
             own(g) == IF SourceGroup[j] = g THEN 1 ELSE 0
             q == [run EXCEPT !.job_count = run.job_count + n,
                              !.open_job_count = run.open_job_count + n - 1,
                              !.completed = run.completed + 1,
                              !.commits = run.commits + 1]
  <1>1. run \in RunRecord /\ group \in [Groups -> GroupRecord]
    BY DEF LedgerInv, RecordInv, TypeInv, TypeOK
  <1>2. run' = q
    BY DEF Commit
  <1>3. /\ group' = [g \in Groups |->
                        [group[g] EXCEPT !.open = @ + (more(g) - own(g))]]
        /\ scope' = scope
    BY DEF Commit, OpenedFor
  <1>4. n \in Nat /\ \A g \in Groups : more(g) \in Nat
    <2>1. /\ fresh \in SUBSET Jobs
          /\ \A g \in Groups : OpenedFor(fresh, g) \in SUBSET Jobs
      BY DEF Fresh, OpenedFor
    <2> HIDE DEF fresh
    <2> QED
      BY <2>1, CardinalityOfJobs
  <1> HIDE DEF n
  <1>5. /\ q.job_count = run.job_count + n
        /\ q.open_job_count = run.open_job_count + n - 1
        /\ q.completed = run.completed + 1 /\ q.commits = run.commits + 1
        /\ q.dead = run.dead /\ q.cancelled = run.cancelled
        /\ q.pending = run.pending /\ q.started = run.started
        /\ q.claims = run.claims /\ q.request_starts = run.request_starts
        /\ q.retries = run.retries /\ q.recovered = run.recovered
        /\ q.reservation_creations = run.reservation_creations
    BY <1>1 DEF RunRecord
  <1> HIDE DEF q
  <1>6. ASSUME NEW g \in Groups
        PROVE  /\ group'[g].open = group[g].open + more(g) - own(g)
               /\ group'[g].pending = group[g].pending
               /\ group'[g].active = group[g].active
               /\ group'[g].started = group[g].started
    <2> DEFINE k == more(g) - own(g)
    <2>1. /\ group[g] \in GroupRecord /\ own(g) \in {0, 1} /\ more(g) \in Nat
          /\ group'[g] = [group[g] EXCEPT !.open = group[g].open + k]
      BY <1>1, <1>3, <1>4
    <2>2. group[g].open \in Int
      BY <2>1 DEF GroupRecord
    <2>3. k = more(g) - own(g)
      OBVIOUS
    <2> HIDE DEF k, more, own
    <2>4. /\ group'[g].open = group[g].open + k
          /\ group'[g].pending = group[g].pending
          /\ group'[g].active = group[g].active
          /\ group'[g].started = group[g].started
      BY <2>1 DEF GroupRecord
    <2> QED
      BY <2>1, <2>2, <2>3, <2>4
  <1>7. RequestCountersSame /\ TotalCountersSame
    BY <1>2, <1>3, <1>5, <1>6 DEF RequestCountersSame, TotalCountersSame
  <1> QED
    BY <1>2, <1>5, <1>6, <1>7 DEF n, CommitEffect

\* A commit opens its discoveries and completes its own job.
LEMMA CommitJobs ==
    ASSUME LedgerInv, NEW w \in Workers, NEW j \in Jobs, NEW f \in Nat,
           NEW D \in SUBSET Jobs, NEW A \in SUBSET Jobs, Commit(w, j, f, D, A)
    PROVE  JobsCounted'
  <1> DEFINE fresh == Fresh(D, j)
             all == fresh \cup {j}
             size(S) == Cardinality(S)
  <1>1. TypeInv /\ JobsCounted
    BY DEF LedgerInv, RecordInv, CountInv
  <1>2. /\ fresh \in SUBSET Jobs /\ j \notin fresh /\ all \in SUBSET Jobs
        /\ \A i \in fresh : /\ job[i].state = "absent" /\ job'[i].state = "ready"
                            /\ job[i].last_reason # "published"
                            /\ job'[i].last_reason # "published"
        /\ job[j].state = "leased" /\ job'[j].state = "completed"
        /\ job[j].last_reason # "published" /\ job'[j].last_reason = "published"
        /\ \A i \in Jobs \ all : job'[i] = job[i]
    BY CommitRecords
  <1>3. /\ run'.job_count = run.job_count + size(fresh)
        /\ run'.open_job_count = run.open_job_count + size(fresh) - 1
        /\ run'.completed = run.completed + 1
        /\ run'.commits = run.commits + 1
        /\ run'.dead = run.dead /\ run'.cancelled = run.cancelled
        /\ \A g \in Groups :
              group'[g].open = group[g].open
                                   + size(OpenedFor(fresh, g))
                                   - (IF SourceGroup[j] = g THEN 1 ELSE 0)
    <2>1. CommitEffect(j, fresh)
      BY CommitFields
    <2> HIDE DEF fresh
    <2> QED
      BY <2>1 DEF CommitEffect
  <1> HIDE DEF fresh
  <1>4. /\ size({}) = 0 /\ size({j}) = 1 /\ size(fresh) \in Nat
        /\ size(Jobs) \in Nat /\ Jobs \in SUBSET Jobs
    <2>1. Jobs \in SUBSET Jobs
      OBVIOUS
    <2>2. size(fresh) \in Nat /\ size(Jobs) \in Nat
      BY <1>2, <2>1, CardinalityOfJobs
    <2>3. size({}) = 0 /\ size({j}) = 1
      BY FS_EmptySet, FS_Singleton
    <2> QED
      BY <2>1, <2>2, <2>3
  <1>5. ASSUME NEW J \in SUBSET Jobs, NEW Z
        PROVE  /\ size(JobsIn(J, Z)') =
                      size(JobsIn(J, Z)) - size(JobsIn(J, Z) \cap all)
                          + size(JobsIn(J, Z)' \cap all)
               /\ size(JobsIn(J, Z)) \in Nat
    <2>1. \A i \in Jobs \ all : job[i].state \in Z <=> job'[i].state \in Z
      BY <1>2
    <2> HIDE DEF all
    <2> QED
      BY <1>2, <2>1, JobsChanged
  <1>6. ASSUME NEW J \in SUBSET Jobs
        PROVE  /\ size(JobsIn(J, OpenStates)') =
                      size(JobsIn(J, OpenStates))
                          - (IF j \in J THEN 1 ELSE 0) + size(J \cap fresh)
               /\ size(JobsIn(J, OpenStates)) \in Nat
               /\ size(J \cap fresh) \in Nat
    <2>1. /\ JobsIn(J, OpenStates) \cap all = IF j \in J THEN {j} ELSE {}
          /\ JobsIn(J, OpenStates)' \cap all = J \cap fresh
      BY <1>2 DEF JobsIn, OpenStates
    <2>2. /\ size(JobsIn(J, OpenStates)') =
                 size(JobsIn(J, OpenStates)) - size(JobsIn(J, OpenStates) \cap all)
                     + size(JobsIn(J, OpenStates)' \cap all)
          /\ size(JobsIn(J, OpenStates)) \in Nat
      BY <1>5
    <2>3. size(JobsIn(J, OpenStates) \cap all) = IF j \in J THEN 1 ELSE 0
      BY <1>4, <2>1
    <2>4. size(J \cap fresh) \in Nat
      <3>1. J \cap fresh \in SUBSET Jobs
        OBVIOUS
      <3> QED
        BY <3>1, CardinalityOfJobs
    <2> QED
      BY <2>1, <2>2, <2>3, <2>4
  <1>7. run'.open_job_count = size(JobsIn(Jobs, OpenStates)')
    <2>1. Jobs \cap fresh = fresh
      BY <1>2
    <2>2. /\ size(JobsIn(Jobs, OpenStates)') =
                 size(JobsIn(Jobs, OpenStates)) - 1 + size(fresh)
          /\ size(JobsIn(Jobs, OpenStates)) \in Nat
      BY <1>4, <1>6, <2>1
    <2>3. run.open_job_count = size(JobsIn(Jobs, OpenStates))
      BY <1>1 DEF JobsCounted
    <2> HIDE DEF size
    <2> QED
      BY <1>3, <1>4, <2>2, <2>3
  <1>8. run'.job_count = Cardinality(Jobs) - size(JobsIn(Jobs, {"absent"})')
    <2>1. /\ JobsIn(Jobs, {"absent"}) \cap all = fresh
          /\ JobsIn(Jobs, {"absent"})' \cap all = {}
      BY <1>2 DEF JobsIn
    <2>2. /\ size(JobsIn(Jobs, {"absent"})') =
                 size(JobsIn(Jobs, {"absent"}))
                     - size(JobsIn(Jobs, {"absent"}) \cap all)
                     + size(JobsIn(Jobs, {"absent"})' \cap all)
          /\ size(JobsIn(Jobs, {"absent"})) \in Nat
      BY <1>4, <1>5
    <2>3. size(JobsIn(Jobs, {"absent"})') =
              size(JobsIn(Jobs, {"absent"})) - size(fresh) + 0
      BY <1>4, <2>1, <2>2
    <2>4. run.job_count = Cardinality(Jobs) - size(JobsIn(Jobs, {"absent"}))
      BY <1>1 DEF JobsCounted
    <2>5. Cardinality(Jobs) \in Nat
      BY <1>4
    <2> HIDE DEF size
    <2> QED
      BY <1>3, <1>4, <2>2, <2>3, <2>4, <2>5
  <1>9. run'.completed = size(JobsIn(Jobs, {"completed"})')
    <2>1. /\ JobsIn(Jobs, {"completed"}) \cap all = {}
          /\ JobsIn(Jobs, {"completed"})' \cap all = {j}
      BY <1>2 DEF JobsIn
    <2>2. /\ size(JobsIn(Jobs, {"completed"})') =
                 size(JobsIn(Jobs, {"completed"}))
                     - size(JobsIn(Jobs, {"completed"}) \cap all)
                     + size(JobsIn(Jobs, {"completed"})' \cap all)
          /\ size(JobsIn(Jobs, {"completed"})) \in Nat
      BY <1>4, <1>5
    <2>3. size(JobsIn(Jobs, {"completed"})') =
              size(JobsIn(Jobs, {"completed"})) - 0 + 1
      BY <1>4, <2>1, <2>2
    <2>4. run.completed = size(JobsIn(Jobs, {"completed"}))
      BY <1>1 DEF JobsCounted
    <2> HIDE DEF size
    <2> QED
      BY <1>3, <2>2, <2>3, <2>4
  <1>10. /\ JobsIn(Jobs, {"dead"})' = JobsIn(Jobs, {"dead"})
         /\ JobsIn(Jobs, {"cancelled"})' = JobsIn(Jobs, {"cancelled"})
    BY <1>2 DEF JobsIn
  <1>11. run'.commits = size(PublishedJobs')
    <2> DEFINE was == PublishedJobs
               is == PublishedJobs'
    <2>1. /\ was \in SUBSET Jobs /\ is \in SUBSET Jobs
          /\ \A i \in Jobs \ {j} : i \in was <=> i \in is
          /\ j \notin was /\ j \in is
      BY <1>2 DEF PublishedJobs
    <2>2. run.commits = size(was)
      BY <1>1 DEF JobsCounted
    <2> HIDE DEF was, is
    <2>3. Cardinality(is) = Cardinality(was) + 1
      BY <2>1, CountOne
    <2> QED
      BY <1>3, <2>2, <2>3 DEF is
  <1>12. ASSUME NEW g \in Groups
         PROVE  group'[g].open = size(JobsIn(Owned(g), OpenStates)')
    <2>1. /\ Owned(g) \in SUBSET Jobs /\ (j \in Owned(g) <=> SourceGroup[j] = g)
          /\ Owned(g) \cap fresh = OpenedFor(fresh, g)
      BY <1>2 DEF Owned, OpenedFor
    <2>2. /\ size(JobsIn(Owned(g), OpenStates)') =
                 size(JobsIn(Owned(g), OpenStates))
                     - (IF SourceGroup[j] = g THEN 1 ELSE 0)
                     + size(OpenedFor(fresh, g))
          /\ size(JobsIn(Owned(g), OpenStates)) \in Nat
          /\ size(OpenedFor(fresh, g)) \in Nat
      BY <1>6, <2>1
    <2>3. group[g].open = size(JobsIn(Owned(g), OpenStates))
      BY <1>1 DEF JobsCounted
    <2>4. group'[g].open = group[g].open
                               + size(OpenedFor(fresh, g))
                               - (IF SourceGroup[j] = g THEN 1 ELSE 0)
      BY <1>3
    <2> HIDE DEF size
    <2> QED
      BY <2>2, <2>3, <2>4
  <1> QED
    BY <1>1, <1>3, <1>7, <1>8, <1>9, <1>10, <1>11, <1>12 DEF JobsCounted, Owned

\* Commits keep all counters exact.
LEMMA CommitCounts ==
    ASSUME LedgerInv, TypeInv', NEW w \in Workers, NEW j \in Jobs, NEW f \in Nat,
           NEW D \in SUBSET Jobs, NEW A \in SUBSET Jobs, Commit(w, j, f, D, A)
    PROVE  CountInv'
  <1>1. /\ TypeInv /\ RequestsCounted /\ TotalsCounted /\ StartsCounted
        /\ WithinLimits /\ RequestCountersSame /\ TotalCountersSame
    BY CommitFields DEF LedgerInv, RecordInv, CountInv, CommitEffect
  <1>2. \A i \in Jobs : /\ job'[i].reservation = job[i].reservation
                        /\ SameTotals(job[i], job'[i])
    BY CommitRecords
  <1>3. /\ run'.pending =< run.pending
        /\ \A g \in Groups : /\ group'[g].active =< group[g].active
                             /\ group'[g].pending =< group[g].pending
        /\ \A s \in Scopes : scope'[s].active =< scope[s].active
    BY <1>1, CounterTypes DEF RequestCountersSame
  <1>4. RequestsCounted'
    BY <1>1, <1>2, SameRequestsCounted
  <1>5. TotalsCounted' /\ StartsCounted'
    BY <1>1, <1>2, <1>3, SameTotalsCounted
  <1>6. WithinLimits'
    BY <1>1, <1>3, LimitsKept
  <1> QED
    BY <1>4, <1>5, <1>6, CommitJobs DEF CountInv

-----------------------------------------------------------------------------
(* The other steps, and the step of the whole invariant.                   *)

\* A ready job that is claimed, rejected or found visited.
LEMMA ReadyCounts ==
    ASSUME LedgerInv, TypeInv', NEW j \in Jobs, ReadyStep(j)
    PROVE  CountInv'
  <1> DEFINE r == job[j]
  <1>1. RecordInv /\ SourceGroup[j] \in Groups /\ "ready" \in OpenStates
    BY SetsAssumption DEF LedgerInv, OpenStates
  <1>2. ASSUME NEW prior, ClaimVisited(j, prior)
        PROVE  CountInv'
    BY <1>2, ReadySettles, SettlementCounts
  <1>3. ASSUME NEW reason \in ReadyReasons, RejectReady(j, reason)
        PROVE  CountInv'
    BY <1>3, ReadySettles, SettlementCounts
  <1>4. ASSUME NEW prior, NEW w \in Workers, NEW k \in RequestKinds, NEW heard,
               Claim(w, j, prior, k, heard)
        PROVE  CountInv'
    <2>1. Admission(j, SourceGroup[j], 1) /\ 1 \in {0, 1}
      BY <1>4, ClaimAdmits
    <2> QED
      BY <1>1, <2>1, AdmissionCounts
  <1>5. ASSUME NEW w \in Workers, ReplayClaim(w, j)
        PROVE  CountInv'
    BY <1>5, NothingIsNeutral, NeutralCounts DEF ReplayClaim
  <1> QED
    BY <1>2, <1>3, <1>4, <1>5 DEF ReadyStep

\* A call on the record of one job that changes nothing which is counted.
LEMMA OwnRecordCounts ==
    ASSUME LedgerInv, TypeInv', NEW j \in Jobs, NEW q,
           job' = [job EXCEPT ![j] = q], UNCHANGED <<run, group, scope>>,
           q.reservation = job[j].reservation, SameTotals(job[j], q),
           q.state = job[j].state,
           job[j].last_reason # "published", q.last_reason # "published"
    PROVE  CountInv'
  <1>1. job'[j] = q /\ (\A i \in Jobs \ {j} : job'[i] = job[i]) /\ {j} \in SUBSET Jobs
    BY DEF LedgerInv, RecordInv, TypeInv, TypeOK
  <1>2. SameStatus(job[j], q)
    BY DEF SameStatus
  <1>3. \A i \in {j} : /\ job'[i].reservation = job[i].reservation
                       /\ SameTotals(job[i], job'[i])
                       /\ SameStatus(job[i], job'[i])
    BY <1>1, <1>2
  <1>4. /\ run' = run /\ group' = group
        /\ \A s \in Scopes : /\ scope'[s].active = scope[s].active
                             /\ scope'[s].pending = scope[s].pending
                             /\ scope'[s].started = scope[s].started
    OBVIOUS
  <1>5. Neutral
    BY <1>1, <1>3, <1>4, FewJobsNeutral
  <1> QED
    BY <1>5, NeutralCounts

\* Renewals, stages and backpressure are not counted.
LEMMA LeaseNeutral ==
    ASSUME LedgerInv, TypeInv', NEW w \in Workers, NEW j \in Jobs, NEW f \in Nat,
           \/ \E heard \in BOOLEAN : Renew(w, j, f, heard)
           \/ ReplayStart(w, j, f) \/ BeginStage(w, j, f) \/ SealStage(w, j, f)
           \/ AbortStage(w, j, f)
           \/ \E reason \in BlockReasons : Backpressure(w, j, f, reason)
    PROVE  CountInv'
  <1> DEFINE r == job[j]
  <1>1. CASE ReplayStart(w, j, f) \/ SealStage(w, j, f)
    BY <1>1, NothingIsNeutral, NeutralCounts DEF ReplayStart, SealStage
  <1>2. ASSUME \/ \E heard \in BOOLEAN : Renew(w, j, f, heard)
               \/ BeginStage(w, j, f) \/ AbortStage(w, j, f)
               \/ \E reason \in BlockReasons : Backpressure(w, j, f, reason)
        PROVE  r \in JobRecord /\ r.last_reason # "published"
    <2>1. r.state \in OpenStates
      BY <1>2 DEF Renew, BeginStage, AbortStage, Backpressure, OwnsStage,
                  StageReady, Holds, OpenStates
    <2> QED
      BY <2>1, OpenRecord DEF LedgerInv
  <1>3. ASSUME NEW heard \in BOOLEAN, Renew(w, j, f, heard)
        PROVE  CountInv'
    <2> DEFINE left == RenewedLease(j)
               q == [r EXCEPT !.lease_left = left]
    <2>1. job' = [job EXCEPT ![j] = q] /\ UNCHANGED <<run, group, scope>>
      BY <1>3 DEF Renew
    <2>2. r \in JobRecord /\ r.last_reason # "published"
      BY <1>2, <1>3
    <2> HIDE DEF left
    <2>3. /\ q.reservation = r.reservation /\ SameTotals(r, q)
          /\ q.state = r.state /\ q.last_reason = r.last_reason
      BY <2>2 DEF JobRecord, SameTotals
    <2> HIDE DEF q
    <2> QED
      BY <2>1, <2>2, <2>3, OwnRecordCounts
  <1>4. CASE BeginStage(w, j, f)
    <2> DEFINE q == [r EXCEPT !.active_stage = TRUE, !.last_stage_fence = f]
    <2>1. job' = [job EXCEPT ![j] = q] /\ UNCHANGED <<run, group, scope>>
      BY <1>4 DEF BeginStage
    <2>2. r \in JobRecord /\ r.last_reason # "published"
      BY <1>2, <1>4
    <2>3. /\ q.reservation = r.reservation /\ SameTotals(r, q)
          /\ q.state = r.state /\ q.last_reason = r.last_reason
      BY <2>2 DEF JobRecord, SameTotals
    <2> HIDE DEF q
    <2> QED
      BY <2>1, <2>2, <2>3, OwnRecordCounts
  <1>5. CASE AbortStage(w, j, f)
    <2> DEFINE q == [r EXCEPT !.active_stage = FALSE, !.last_reason = "none",
                              !.last_status = "STAGE_ABORTED"]
    <2>1. job' = [job EXCEPT ![j] = q] /\ UNCHANGED <<run, group, scope>>
      BY <1>5 DEF AbortStage
    <2>2. r \in JobRecord /\ r.last_reason # "published"
      BY <1>2, <1>5
    <2>3. /\ q.reservation = r.reservation /\ SameTotals(r, q)
          /\ q.state = r.state /\ q.last_reason = "none"
      BY <2>2 DEF JobRecord, SameTotals
    <2> HIDE DEF q
    <2> QED
      BY <2>1, <2>2, <2>3, OwnRecordCounts
  <1>6. ASSUME NEW reason \in BlockReasons, Backpressure(w, j, f, reason)
        PROVE  CountInv'
    <2> DEFINE left == BlockedFor(j)
               q == [r EXCEPT !.blocked = reason, !.blocked_left = left]
    <2>1. job' = [job EXCEPT ![j] = q] /\ UNCHANGED <<run, group, scope>>
      BY <1>6 DEF Backpressure
    <2>2. r \in JobRecord /\ r.last_reason # "published"
      BY <1>2, <1>6
    <2> HIDE DEF left
    <2>3. /\ q.reservation = r.reservation /\ SameTotals(r, q)
          /\ q.state = r.state /\ q.last_reason = r.last_reason
      BY <2>2 DEF JobRecord, SameTotals
    <2> HIDE DEF q
    <2> QED
      BY <2>1, <2>2, <2>3, OwnRecordCounts
  <1> QED
    BY <1>1, <1>3, <1>4, <1>5, <1>6

\* Every call under a lease keeps all counters exact.
LEMMA LeaseCounts ==
    ASSUME LedgerInv, TypeInv', NEW w \in Workers, NEW j \in Jobs, NEW f \in Nat,
           LeaseStep(w, j, f)
    PROVE  CountInv'
  <1>1. ASSUME NEW g \in Groups, NEW k \in RequestKinds, Reserve(w, j, f, g, k)
        PROVE  CountInv'
    <2>1. Admission(j, g, 0) /\ 0 \in {0, 1}
      BY <1>1, ReserveAdmits
    <2> QED
      BY <2>1, AdmissionCounts
  <1>2. ASSUME NEW heard \in BOOLEAN, Start(w, j, f, heard)
        PROVE  CountInv'
    BY <1>2, StartKeepsCounts
  <1>3. CASE FinishRequest(w, j, f) \/ CancelReservation(w, j, f)
    BY <1>3, EndReservationCounts DEF FinishRequest, CancelReservation
  <1>4. ASSUME NEW D \in SUBSET Jobs, NEW A \in SUBSET Jobs, Commit(w, j, f, D, A)
        PROVE  CountInv'
    BY <1>4, CommitCounts
  <1> QED
    BY <1>1, <1>2, <1>3, <1>4, OutcomeSettles, SettlementCounts, LeaseNeutral DEF LeaseStep

\* A change of the run's state, reason or authorization is not counted.
LEMMA RunNeutral ==
    ASSUME LedgerInv, TypeInv', UNCHANGED <<group, scope, job>>,
           \/ \E reason \in CancelReasons : CancelRun(reason)
           \/ FinalizeRun \/ AuthorizationExpires
    PROVE  CountInv'
  <1>1. /\ run'.job_count = run.job_count
        /\ run'.open_job_count = run.open_job_count
        /\ run'.completed = run.completed /\ run'.dead = run.dead
        /\ run'.cancelled = run.cancelled /\ run'.commits = run.commits
        /\ run'.pending = run.pending /\ run'.started = run.started
        /\ run'.claims = run.claims /\ run'.request_starts = run.request_starts
        /\ run'.retries = run.retries /\ run'.recovered = run.recovered
        /\ run'.reservation_creations = run.reservation_creations
    <2>1. run \in RunRecord
      BY DEF LedgerInv, RecordInv, TypeInv, TypeOK
    <2>2. CASE \E reason \in CancelReasons : CancelRun(reason)
      BY ZenonT(60), <2>1, <2>2 DEF CancelRun, RunRecord
    <2>3. CASE FinalizeRun
      <3> DEFINE st == Verdict[1]
                 why == Verdict[2]
      <3>1. run' = [run EXCEPT !.state = st, !.terminal_reason = why,
                               !.finalized = TRUE]
        BY <2>3 DEF FinalizeRun
      <3> HIDE DEF st, why
      <3> QED
        BY <2>1, <3>1 DEF RunRecord
    <2>4. CASE AuthorizationExpires
      BY <2>1, <2>4 DEF AuthorizationExpires, RunRecord
    <2> QED
      BY <2>2, <2>3, <2>4
  <1>2. RequestCountersSame /\ TotalCountersSame /\ JobCountersSame
    BY <1>1 DEF RequestCountersSame, TotalCountersSame, JobCountersSame
  <1>3. \A i \in Jobs : SameStatus(job[i], job'[i])
    BY Zenon DEF SameStatus
  <1>4. \A i \in Jobs : /\ job'[i].reservation = job[i].reservation
                        /\ SameTotals(job[i], job'[i])
    BY DEF SameTotals
  <1>5. Neutral
    BY <1>2, <1>3, <1>4 DEF Neutral
  <1> QED
    BY <1>5, NeutralCounts

\* A promotion moves open jobs only.
LEMMA PromoteCounts ==
    ASSUME LedgerInv, TypeInv', NEW b \in SUBSET Jobs, PromoteDue(b)
    PROVE  CountInv'
  <1>1. /\ \A i \in Jobs \ b : job'[i] = job[i]
        /\ \A i \in b : job'[i] = [job[i] EXCEPT !.state = "ready"]
        /\ run' = run /\ group' = group /\ scope' = scope
    BY DEF PromoteDue
  <1>2. ASSUME NEW i \in b
        PROVE  /\ job'[i].reservation = job[i].reservation
               /\ SameTotals(job[i], job'[i]) /\ SameStatus(job[i], job'[i])
    <2> DEFINE r == job[i]
               q == [r EXCEPT !.state = "ready"]
    <2>1. r \in JobRecord /\ r.state = "delayed"
      BY DEF PromoteDue, IsBatch, DueRetries, InState, LedgerInv, RecordInv,
             TypeInv, TypeOK
    <2>2. /\ q.reservation = r.reservation /\ SameTotals(r, q)
          /\ q.state = "ready" /\ q.last_reason = r.last_reason
      BY <2>1 DEF JobRecord, SameTotals
    <2>3. job'[i] = q
      BY <1>1
    <2> HIDE DEF q
    <2>4. SameStatus(r, q)
      BY <2>1, <2>2 DEF SameStatus, OpenStates
    <2> QED
      BY <2>2, <2>3, <2>4
  <1>3. \A s \in Scopes : /\ scope'[s].active = scope[s].active
                          /\ scope'[s].pending = scope[s].pending
                          /\ scope'[s].started = scope[s].started
    BY <1>1
  <1>4. Neutral
    BY <1>1, <1>2, <1>3, FewJobsNeutral
  <1> QED
    BY <1>4, NeutralCounts

\* Time is not counted.
LEMMA TickCounts ==
    ASSUME LedgerInv, TypeInv', Tick
    PROVE  CountInv'
  <1>1. run' = run /\ group' = group
    BY DEF Tick
  <1>2. ASSUME NEW s \in Scopes
        PROVE  /\ scope'[s].active = scope[s].active
               /\ scope'[s].pending = scope[s].pending
               /\ scope'[s].started = scope[s].started
    <2> DEFINE left == Less(scope[s].next_left)
    <2>1. /\ scope'[s] = [scope[s] EXCEPT !.next_left = left]
          /\ scope[s] \in ScopeRecord
      BY DEF Tick, LedgerInv, RecordInv, TypeInv, TypeOK
    <2> HIDE DEF left
    <2> QED
      BY <2>1 DEF ScopeRecord
  <1>3. ASSUME NEW i \in Jobs
        PROVE  /\ job'[i].reservation = job[i].reservation
               /\ SameTotals(job[i], job'[i]) /\ SameStatus(job[i], job'[i])
    <2> DEFINE r == job[i]
               a == Less(r.lease_left)
               d == Less(r.not_before_left)
               e == Less(r.blocked_left)
               q == [r EXCEPT !.lease_left = a, !.not_before_left = d,
                              !.blocked_left = e]
    <2>1. r \in JobRecord /\ job'[i] = q
      BY DEF Tick, LedgerInv, RecordInv, TypeInv, TypeOK
    <2> HIDE DEF a, d, e
    <2>2. /\ q.reservation = r.reservation /\ SameTotals(r, q)
          /\ q.state = r.state /\ q.last_reason = r.last_reason
      BY <2>1 DEF JobRecord, SameTotals
    <2> HIDE DEF q
    <2>3. SameStatus(r, q)
      BY <2>2, Zenon DEF SameStatus
    <2> QED
      BY <2>1, <2>2, <2>3
  <1>4. Neutral
    <2>1. Jobs \in SUBSET Jobs /\ \A i \in Jobs \ Jobs : job'[i] = job[i]
      OBVIOUS
    <2> QED
      BY <1>1, <1>2, <1>3, <2>1, FewJobsNeutral
  <1> QED
    BY <1>4, NeutralCounts

\* Every step keeps every counter exact and every budget.
LEMMA CountStep ==
    ASSUME LedgerInv, [Next]_vars
    PROVE  TypeInv' /\ CountInv'
  <1>1. TypeInv'
    BY TypeStep DEF LedgerInv, RecordInv
  <1>2. ASSUME NEW j \in Jobs, NEW w \in Workers,
               NEW f \in 1 .. job[j].lease_fence, LeaseStep(w, j, f)
        PROVE  CountInv'
    <2>1. f \in Nat
      BY DEF LedgerInv, RecordInv, TypeInv, TypeOK, JobRecord
    <2> QED
      BY <1>1, <1>2, <2>1, LeaseCounts
  <1>3. ASSUME NEW j \in Jobs, ReadyStep(j)
        PROVE  CountInv'
    BY <1>1, <1>3, ReadyCounts
  <1>4. CASE Maintenance
    <2>1. ASSUME NEW b \in SUBSET Jobs, PromoteDue(b)
          PROVE  CountInv'
      BY <1>1, <2>1, PromoteCounts
    <2>2. ASSUME NEW b \in SUBSET Jobs, CancelBatch(b)
          PROVE  CountInv'
      BY <1>1, <2>2, BatchSettles, SettlementCounts
    <2>3. CASE RecoverExpired
      BY <1>1, <2>3, BatchSettles, SettlementCounts
    <2>4. ASSUME NEW reason \in CancelReasons, CancelRun(reason)
          PROVE  CountInv'
      <3>1. UNCHANGED <<group, scope, job>>
        BY <2>4 DEF CancelRun
      <3> QED
        BY <1>1, <2>4, <3>1, RunNeutral
    <2>5. CASE FinalizeRun
      <3>1. UNCHANGED <<group, scope, job>>
        BY <2>5 DEF FinalizeRun
      <3> QED
        BY <1>1, <2>5, <3>1, RunNeutral
    <2> QED
      BY <1>1, <1>4, <2>1, <2>2, <2>3, <2>4, <2>5 DEF Maintenance
  <1>5. CASE Tick
    BY <1>1, <1>5, TickCounts
  <1>6. CASE AuthorizationExpires
    <2>1. UNCHANGED <<group, scope, job>>
      BY <1>6 DEF AuthorizationExpires
    <2> QED
      BY <1>1, <1>6, <2>1, RunNeutral
  <1>7. CASE Done \/ UNCHANGED vars \/ \E w \in Workers : Abandon(w)
    <2>1. UNCHANGED <<run, group, scope, job>>
      BY <1>7 DEF Done, Abandon, vars
    <2> QED
      BY <1>1, <2>1, NothingIsNeutral, NeutralCounts
  <1> QED
    BY <1>1, <1>2, <1>3, <1>4, <1>5, <1>6, <1>7 DEF Next

\* What a step leaves room for in a record, before the budgets are known to hold:
\* a lease starts below the limit, or as its first request is reserved.
Poised(i) ==
    /\ job'[i].next_request_ordinal >= 1
    /\ \/ job'[i].baseline < JobStartLimit
       \/ /\ job'[i].baseline = job'[i].request_starts
          /\ job'[i].reservation.state = "pending"
          /\ job'[i].reservation.group \in Groups

\* Sound records do.
LEMMA SoundIsPoised ==
    ASSUME RecordInv, NEW i \in Jobs, Keeps(i) \/ job'[i] = job[i]
    PROVE  Poised(i)
  <1>1. Sound(job[i], stage[i])
    BY DEF RecordInv
  <1>2. \E r, s : Sound(r, s) /\ job'[i] = r
    BY <1>1 DEF Keeps
  <1>3. PICK r, s : Sound(r, s) /\ job'[i] = r
    BY <1>2
  <1>4. r.next_request_ordinal \in 1 .. MaxReservations + 1
        /\ r.baseline < JobStartLimit
    BY <1>3 DEF Sound, CountersValid, BaselineValid
  <1>5. r.next_request_ordinal >= 1
    BY <1>4, BoundsAssumption
  <1> QED
    BY <1>3, <1>4, <1>5 DEF Poised

\* So does a record whose baseline stays and whose ordinals do not shrink.
LEMMA OwnPoised ==
    ASSUME RecordInv, NEW j \in Jobs, NEW q, job' = [job EXCEPT ![j] = q],
           NEW n \in Nat, q.next_request_ordinal = job[j].next_request_ordinal + n,
           q.baseline = job[j].baseline, NEW i \in Jobs
    PROVE  Poised(i)
  <1>1. /\ job \in [Jobs -> JobRecord] /\ job[j] \in JobRecord
        /\ Sound(job[j], stage[j])
    BY DEF RecordInv, TypeInv, TypeOK
  <1>2. /\ job'[j] = q /\ \A k \in Jobs \ {j} : job'[k] = job[k]
    BY <1>1
  <1>3. CASE i # j
    BY <1>2, <1>3, SoundIsPoised
  <1>4. CASE i = j
    <2>1. /\ job[j].next_request_ordinal \in Nat
          /\ job[j].next_request_ordinal >= 1
          /\ job[j].baseline < JobStartLimit
      BY <1>1, RecordNumbers, OrdinalsPositive DEF Sound, BaselineValid
    <2>2. q.next_request_ordinal >= 1
      BY <2>1
    <2> QED
      BY <1>2, <1>4, <2>1, <2>2 DEF Poised
  <1> QED
    BY <1>3, <1>4

\* The calls on requests.
LEMMA RequestPoised ==
    ASSUME RecordInv, TypeInv', NEW w \in Workers, NEW j \in Jobs, NEW f \in Nat,
           \/ \E g \in Groups, k \in RequestKinds : Reserve(w, j, f, g, k)
           \/ \E heard \in BOOLEAN : Start(w, j, f, heard) \/ Renew(w, j, f, heard)
           \/ ReplayStart(w, j, f)
           \/ FinishRequest(w, j, f) \/ CancelReservation(w, j, f),
           NEW i \in Jobs
    PROVE  Poised(i)
  <1> DEFINE r == job[j]
  <1>1. r \in JobRecord /\ r.next_request_ordinal \in Nat
    BY RecordNumbers DEF RecordInv, TypeInv, TypeOK
  <1>2. 0 \in Nat /\ 1 \in Nat
        /\ r.next_request_ordinal + 0 = r.next_request_ordinal
    BY <1>1
  <1>3. ASSUME NEW g \in Groups, NEW k \in RequestKinds, Reserve(w, j, f, g, k)
        PROVE  Poised(i)
    <2> DEFINE p == PendingReservation(j, g, k, "reserve")
               q == [r EXCEPT !.reservation = p,
                              !.next_request_ordinal = r.next_request_ordinal + 1]
    <2>1. job' = [job EXCEPT ![j] = q]
      BY <1>3 DEF Reserve
    <2> HIDE DEF p
    <2>2. /\ q.next_request_ordinal = r.next_request_ordinal + 1
          /\ q.baseline = r.baseline
      BY <1>1 DEF JobRecord
    <2> HIDE DEF q
    <2> QED
      BY <1>2, <2>1, <2>2, OwnPoised
  <1>4. ASSUME NEW heard \in BOOLEAN, Start(w, j, f, heard)
        PROVE  Poised(i)
    <2> DEFINE q == StartedRecord(r, f)
    <2>1. job' = [job EXCEPT ![j] = q]
      BY <1>4 DEF Start
    <2>2. /\ q.next_request_ordinal = r.next_request_ordinal
          /\ q.baseline = r.baseline
      BY <1>1 DEF JobRecord, StartedRecord
    <2>3. q.next_request_ordinal = r.next_request_ordinal + 0
      BY <1>2, <2>2
    <2> HIDE DEF q
    <2> QED
      BY <1>2, <2>1, <2>2, <2>3, OwnPoised
  <1>5. ASSUME NEW heard \in BOOLEAN, Renew(w, j, f, heard)
        PROVE  Poised(i)
    <2> DEFINE left == RenewedLease(j)
               q == [r EXCEPT !.lease_left = left]
    <2>1. job' = [job EXCEPT ![j] = q]
      BY <1>5 DEF Renew
    <2> HIDE DEF left
    <2>2. /\ q.next_request_ordinal = r.next_request_ordinal
          /\ q.baseline = r.baseline
      BY <1>1 DEF JobRecord
    <2>3. q.next_request_ordinal = r.next_request_ordinal + 0
      BY <1>2, <2>2
    <2> HIDE DEF q
    <2> QED
      BY <1>2, <2>1, <2>2, <2>3, OwnPoised
  <1>6. CASE ReplayStart(w, j, f)
    BY <1>6, SoundIsPoised DEF ReplayStart
  <1>7. CASE FinishRequest(w, j, f) \/ CancelReservation(w, j, f)
    <2> DEFINE q == [r EXCEPT !.reservation = NoReservation]
    <2>1. job' = [job EXCEPT ![j] = q]
      BY <1>7 DEF FinishRequest, CancelReservation, EndReservation
    <2>2. /\ q.next_request_ordinal = r.next_request_ordinal
          /\ q.baseline = r.baseline
      BY <1>1 DEF JobRecord
    <2>3. q.next_request_ordinal = r.next_request_ordinal + 0
      BY <1>2, <2>2
    <2> HIDE DEF q
    <2> QED
      BY <1>2, <2>1, <2>2, <2>3, OwnPoised
  <1> QED
    BY <1>3, <1>4, <1>5, <1>6, <1>7

\* The steps on a ready job.
LEMMA ReadyPoised ==
    ASSUME RecordInv, TypeInv', NEW j \in Jobs, ReadyStep(j), NEW i \in Jobs
    PROVE  Poised(i)
  <1> DEFINE r == job[j]
  <1>1. /\ job \in [Jobs -> JobRecord] /\ r \in JobRecord
        /\ r.next_request_ordinal \in Nat /\ Sound(r, stage[j])
        /\ "ready" \in OpenStates /\ SourceGroup[j] \in Groups
    BY RecordNumbers, SetsAssumption DEF RecordInv, TypeInv, TypeOK, OpenStates
  <1>2. ASSUME NEW prior, ClaimVisited(j, prior)
        PROVE  Poised(i)
    <2> DEFINE q == Outcome(r, "completed", "already_visited", "VISITED_COMPLETED")
    <2>1. Settle({j}, [k \in {j} |-> q], 0) /\ r.state = "ready"
      BY <1>2 DEF ClaimVisited
    <2>2. q \in JobRecord => Sound(q, NoStage) /\ Faithful(r, q)
      BY <1>1, <2>1, PlainOutcome
    <2> HIDE DEF q
    <2> QED
      BY <2>1, <2>2, SettleOneKeeps, SoundIsPoised
  <1>3. ASSUME NEW reason \in ReadyReasons, RejectReady(j, reason)
        PROVE  Poised(i)
    <2> DEFINE q == Failed(r, reason, reason, "DEAD")
    <2>1. Settle({j}, [k \in {j} |-> q], 0) /\ r.state = "ready"
      BY <1>3 DEF RejectReady
    <2>2. q \in JobRecord => Sound(q, NoStage) /\ Faithful(r, q)
      BY <1>1, <1>3, <2>1, FailedRecord, ReasonsAssumption
    <2> HIDE DEF q
    <2> QED
      BY <2>1, <2>2, SettleOneKeeps, SoundIsPoised
  <1>4. ASSUME NEW prior, NEW w \in Workers, NEW k \in RequestKinds, NEW heard,
               Claim(w, j, prior, k, heard)
        PROVE  Poised(i)
    <2> DEFINE p == PendingReservation(j, SourceGroup[j], k, "claim")
               q == [r EXCEPT !.state = "leased", !.claim_count = r.claim_count + 1,
                         !.lease_fence = r.lease_fence + 1, !.lease_owner = w,
                         !.lease_left = LeaseTTL, !.lease_delivery_started = 0,
                         !.baseline = r.request_starts, !.reservation = p,
                         !.next_request_ordinal = r.next_request_ordinal + 1,
                         !.last_status = "CLAIMED"]
    <2>1. job' = [job EXCEPT ![j] = q]
      BY <1>4 DEF Claim
    <2>2. p.state = "pending" /\ p.group \in Groups
      BY <1>1 DEF PendingReservation
    <2>3. job'[j] = q /\ \A l \in Jobs \ {j} : job'[l] = job[l]
      BY <1>1, <2>1
    <2> HIDE DEF p
    <2>4. /\ q.next_request_ordinal = r.next_request_ordinal + 1
          /\ q.baseline = r.request_starts /\ q.request_starts = r.request_starts
          /\ q.reservation = p
      BY <1>1 DEF JobRecord
    <2> HIDE DEF q
    <2>5. q.next_request_ordinal >= 1
      BY <1>1, <2>4
    <2>6. CASE i = j
      BY <2>2, <2>3, <2>4, <2>5, <2>6 DEF Poised
    <2>7. CASE i # j
      BY <2>3, <2>7, SoundIsPoised
    <2> QED
      BY <2>6, <2>7
  <1>5. ASSUME NEW w \in Workers, ReplayClaim(w, j)
        PROVE  Poised(i)
    BY <1>5, SoundIsPoised DEF ReplayClaim
  <1> QED
    BY <1>2, <1>3, <1>4, <1>5 DEF ReadyStep

\* Every step does.
LEMMA StepPoised ==
    ASSUME RecordInv, [Next]_vars, NEW i \in Jobs
    PROVE  Poised(i)
  <1>1. TypeInv'
    BY TypeStep DEF RecordInv
  <1>2. ASSUME NEW j \in Jobs, NEW w \in Workers,
               NEW f \in 1 .. job[j].lease_fence, LeaseStep(w, j, f)
        PROVE  Poised(i)
    <2>1. f \in Nat
      BY DEF RecordInv, TypeInv, TypeOK, JobRecord
    <2> QED
      BY <1>1, <1>2, <2>1, OutcomeKeeps, RequestPoised, StageKeeps, CommitKeeps,
         SoundIsPoised DEF LeaseStep
  <1>3. ASSUME NEW j \in Jobs, ReadyStep(j)
        PROVE  Poised(i)
    BY <1>1, <1>3, ReadyPoised
  <1>4. CASE Maintenance
    BY <1>1, <1>4, MaintenanceKeeps, SoundIsPoised
  <1>5. CASE Tick
    BY <1>1, <1>5, TickKeeps, SoundIsPoised
  <1>6. CASE \/ AuthorizationExpires \/ Done \/ UNCHANGED vars
             \/ \E w \in Workers : Abandon(w)
    BY <1>6, SoundIsPoised DEF AuthorizationExpires, Done, Abandon, vars
  <1> QED
    BY <1>2, <1>3, <1>4, <1>5, <1>6 DEF Next

\* The budgets of the run bound each record after a step.
LEMMA BudgetsBound ==
    ASSUME TypeInv', CountInv', NEW j \in Jobs, \A i \in Jobs : Poised(i)
    PROVE  Bounded(job'[j])
  <1> DEFINE q == job'[j]
  <1>1. /\ IsFiniteSet(Jobs) /\ q \in JobRecord /\ job' \in [Jobs -> JobRecord]
        /\ \A i \in Jobs : job'[i] \in JobRecord
    BY SetsAssumption DEF TypeInv, TypeOK
  <1>2. StartCounts' \in [Jobs -> Nat] /\ StartCounts'[j] = q.request_starts
    <2>1. \A i \in Jobs : job'[i].request_starts \in Nat
      BY <1>1, RecordNumbers
    <2> QED
      BY <2>1 DEF StartCounts
  <1>3. /\ CreationCounts' \in [Jobs -> Nat]
        /\ CreationCounts'[j] = q.next_request_ordinal - 1
    <2>1. \A i \in Jobs : job'[i].next_request_ordinal - 1 \in Nat
      <3> SUFFICES ASSUME NEW i \in Jobs
                   PROVE  job'[i].next_request_ordinal - 1 \in Nat
        OBVIOUS
      <3>1. job'[i].next_request_ordinal \in Nat
        BY <1>1, RecordNumbers
      <3>2. job'[i].next_request_ordinal >= 1
        BY DEF Poised
      <3> QED
        BY <3>1, <3>2
    <2> QED
      BY <2>1 DEF CreationCounts
  <1>4. /\ q.request_starts =< Total(StartCounts')
        /\ q.next_request_ordinal - 1 =< Total(CreationCounts')
    BY <1>1, <1>2, <1>3, PartOfTotal
  <1>5. /\ run'.request_starts = Total(StartCounts')
        /\ run'.reservation_creations = Total(CreationCounts')
        /\ run'.pending = Cardinality(Held(Groups, "pending")')
        /\ run'.request_starts + run'.pending =< MaxRequestStarts
        /\ run'.reservation_creations =< MaxReservations
    <2>1. /\ Total(StartCounts)' = Total(StartCounts')
          /\ Total(CreationCounts)' = Total(CreationCounts')
      BY DEF Total, Units
    <2>2. (TotalsCounted /\ RequestsCounted /\ WithinLimits)'
      BY DEF CountInv
    <2> QED
      BY <2>1, <2>2 DEF TotalsCounted, RequestsCounted, WithinLimits
  <1>6. /\ Cardinality(Held(Groups, "pending")') \in Nat
        /\ (q.reservation.state = "pending" /\ q.reservation.group \in Groups)
               => Cardinality(Held(Groups, "pending")') > 0
    <2> DEFINE H == Held(Groups, "pending")'
    <2>1. /\ H \in SUBSET Jobs
          /\ (q.reservation.state = "pending" /\ q.reservation.group \in Groups)
                 => j \in H
      BY DEF Held
    <2> HIDE DEF H
    <2>2. IsFiniteSet(H) /\ Cardinality(H) \in Nat
      BY <2>1, CardinalityOfJobs
    <2>3. j \in H => Cardinality(H) > 0
      BY <2>2, FS_EmptySet
    <2> QED
      BY <2>1, <2>2, <2>3 DEF H
  <1>7. /\ run'.request_starts \in Nat /\ run'.reservation_creations \in Nat
        /\ q.request_starts \in Nat /\ q.next_request_ordinal \in Nat
        /\ MaxRequestStarts \in Nat /\ MaxReservations \in Nat
        /\ JobStartLimit \in Nat /\ MaxRequestStarts =< JobStartLimit
    BY <1>1, RecordNumbers, BoundsAssumption DEF TypeInv, TypeOK, RunRecord
  <1>8. /\ q.request_starts =< JobStartLimit
        /\ q.next_request_ordinal =< MaxReservations + 1
    BY <1>4, <1>5, <1>6, <1>7
  <1>9. q.baseline < JobStartLimit
    <2>1. CASE /\ q.baseline = q.request_starts /\ q.reservation.state = "pending"
               /\ q.reservation.group \in Groups
      <3>1. run'.pending > 0 /\ run'.pending \in Nat
        BY <1>5, <1>6, <2>1
      <3> QED
        BY <1>4, <1>5, <1>7, <2>1, <3>1
    <2> QED
      BY <2>1 DEF Poised
  <1> QED
    BY <1>8, <1>9 DEF Bounded

\* A step keeps the records sound and the counters exact, and is faithful to every
\* lease: the budgets bound the records, and the records feed the counters.
LEMMA LedgerStep ==
    ASSUME LedgerInv, [Next]_vars
    PROVE  LedgerInv' /\ \A j \in Jobs : Faithful(job[j], job'[j])
  <1>1. RecordInv /\ TypeInv' /\ CountInv'
    BY CountStep DEF LedgerInv
  <1>2. \A i \in Jobs : Poised(i)
    BY <1>1, StepPoised
  <1>3. \A j \in Jobs : Bounded(job'[j])
    BY <1>1, <1>2, BudgetsBound
  <1> QED
    BY <1>1, <1>3, RecordStep DEF LedgerInv

-----------------------------------------------------------------------------
(* The initial states.                                                     *)

\* At the start no request is held and nothing has been counted, and the seeds are
\* the open jobs.
LEMMA LedgerInit == Init => LedgerInv
  <1> SUFFICES ASSUME Init PROVE LedgerInv
    OBVIOUS
  <1>1. RecordInv /\ TypeInv
    BY RecordInit DEF RecordInv
  <1>2. ASSUME NEW j \in Jobs
        PROVE  /\ job[j].state = IF j \in Seeds THEN "ready" ELSE "absent"
               /\ job[j].reservation.state = "none" /\ job[j].last_reason = "none"
               /\ job[j].claim_count = 0 /\ job[j].request_starts = 0
               /\ job[j].retry_count = 0 /\ job[j].pre_io_recoveries = 0
               /\ job[j].next_request_ordinal = 1
    <2>1. /\ j \in Seeds => job[j] = InitialRecord
          /\ j \notin Seeds => job[j] = AbsentRecord
      BY DEF Init
    <2> QED
      BY <2>1 DEF InitialRecord, AbsentRecord, NoReservation
  <1>3. /\ run.job_count = Cardinality(Seeds)
        /\ run.open_job_count = Cardinality(Seeds)
        /\ run.request_starts = 0 /\ run.pending = 0 /\ run.started = 0
        /\ run.reservation_creations = 0 /\ run.claims = 0 /\ run.retries = 0
        /\ run.recovered = 0 /\ run.completed = 0 /\ run.dead = 0
        /\ run.cancelled = 0 /\ run.commits = 0
    BY DEF Init
  <1>4. /\ \A g \in Groups : /\ group[g].started = 0 /\ group[g].pending = 0
                             /\ group[g].active = 0
        /\ \A s \in Scopes : /\ scope[s].active = 0 /\ scope[s].pending = 0
                             /\ scope[s].started = 0
    BY DEF Init
  <1>5. \A g \in Groups :
             group[g].open = Cardinality({j \in Seeds : SourceGroup[j] = g})
    BY DEF Init
  <1>6. Cardinality({}) = 0
    BY FS_EmptySet
  <1>7. RequestsCounted
    <2>1. /\ \A G : Held(G, "pending") = {}
          /\ \A G : Held(G, "started") = {}
      BY <1>2 DEF Held
    <2>2. /\ run.pending = Cardinality(Held(Groups, "pending"))
          /\ run.started = Cardinality(Held(Groups, "started"))
      BY <1>3, <1>6, <2>1
    <2>3. ASSUME NEW g \in Groups
          PROVE  /\ group[g].pending = Cardinality(Held({g}, "pending"))
                 /\ group[g].active = Cardinality(Held({g}, "started"))
      BY <1>4, <1>6, <2>1
    <2>4. ASSUME NEW s \in Scopes
          PROVE  /\ scope[s].pending = Cardinality(Held(Payers(s), "pending"))
                 /\ scope[s].started = Cardinality(Held(Payers(s), "started"))
                 /\ scope[s].active = scope[s].pending + scope[s].started
      BY <1>4, <1>6, <2>1
    <2> QED
      BY <2>2, <2>3, <2>4 DEF RequestsCounted
  <1>8. JobsCounted
    <2>1. /\ JobsIn(Jobs, {"absent"}) = Jobs \ Seeds
          /\ JobsIn(Jobs, OpenStates) = Seeds
          /\ JobsIn(Jobs, {"completed"}) = {} /\ JobsIn(Jobs, {"dead"}) = {}
          /\ JobsIn(Jobs, {"cancelled"}) = {} /\ PublishedJobs = {}
      BY <1>2, SetsAssumption DEF JobsIn, OpenStates, PublishedJobs
    <2>2. Cardinality(Jobs) - Cardinality(Jobs \ Seeds) = Cardinality(Seeds)
      <3>1. /\ Jobs \in SUBSET Jobs /\ Seeds \in SUBSET Jobs
            /\ Jobs \cap Seeds = Seeds
        BY SetsAssumption
      <3>2. /\ IsFiniteSet(Jobs) /\ Cardinality(Jobs) \in Nat
            /\ Cardinality(Seeds) \in Nat
        BY <3>1, CardinalityOfJobs
      <3>3. Cardinality(Jobs \ Seeds) =
                Cardinality(Jobs) - Cardinality(Jobs \cap Seeds)
        BY <3>2, FS_Difference
      <3>4. Cardinality(Jobs \ Seeds) = Cardinality(Jobs) - Cardinality(Seeds)
        BY <3>1, <3>3
      <3> QED
        BY <3>2, <3>4
    <2>3. \A g \in Groups :
              JobsIn(Owned(g), OpenStates) = {j \in Seeds : SourceGroup[j] = g}
      BY <1>2, SetsAssumption DEF JobsIn, Owned, OpenStates
    <2> QED
      BY <1>3, <1>6, <1>5, <2>1, <2>2, <2>3 DEF JobsCounted
  <1>9. TotalsCounted
    <2>1. /\ ClaimCounts \in [Jobs -> Nat] /\ \A j \in Jobs : ClaimCounts[j] = 0
          /\ StartCounts \in [Jobs -> Nat] /\ \A j \in Jobs : StartCounts[j] = 0
          /\ RetryCounts \in [Jobs -> Nat] /\ \A j \in Jobs : RetryCounts[j] = 0
          /\ RecoveryCounts \in [Jobs -> Nat]
          /\ \A j \in Jobs : RecoveryCounts[j] = 0
          /\ CreationCounts \in [Jobs -> Nat]
          /\ \A j \in Jobs : CreationCounts[j] = 0
      BY <1>2 DEF ClaimCounts, StartCounts, RetryCounts, RecoveryCounts,
                  CreationCounts
    <2>2. /\ Total(ClaimCounts) = 0 /\ Total(StartCounts) = 0
          /\ Total(RetryCounts) = 0 /\ Total(RecoveryCounts) = 0
          /\ Total(CreationCounts) = 0
      BY <2>1, TotalOfNothing
    <2> QED
      BY <1>3, <2>2 DEF TotalsCounted
  <1>10. StartsCounted
    <2>1. GroupStarts \in [Groups -> Nat] /\ \A g \in Groups : GroupStarts[g] = 0
      BY <1>4 DEF GroupStarts
    <2>2. Total(GroupStarts) = 0
      BY <2>1, TotalOfNothing
    <2>3. \A g \in Groups : group[g].active =< group[g].started
      BY <1>4
    <2> QED
      BY <1>3, <2>2, <2>3 DEF StartsCounted
  <1>11. WithinLimits
    <2>1. /\ MaxRequestStarts \in Nat /\ MaxReservations \in Nat
          /\ \A g \in Groups : GroupLimit[g] \in Nat
          /\ \A s \in Scopes : Concurrency[s] \in Nat
      BY BoundsAssumption, PolicyAssumption
    <2>2. /\ run.request_starts + run.pending =< MaxRequestStarts
          /\ run.reservation_creations =< MaxReservations
      BY <1>3, <2>1
    <2>3. ASSUME NEW g \in Groups
          PROVE  group[g].started + group[g].pending =< GroupLimit[g]
      BY <1>4, <2>1
    <2>4. ASSUME NEW s \in Scopes
          PROVE  scope[s].active =< Concurrency[s]
      BY <1>4, <2>1
    <2> QED
      BY <2>2, <2>3, <2>4 DEF WithinLimits
  <1> QED
    BY <1>1, <1>7, <1>8, <1>9, <1>10, <1>11 DEF LedgerInv, CountInv

\* The inductive invariant of the ledger holds at all times.
LEMMA LedgerSound == Spec => []LedgerInv
  <1>1. Init => LedgerInv
    BY LedgerInit
  <1>2. LedgerInv /\ [Next]_vars => LedgerInv'
    BY LedgerStep
  <1> QED
    BY <1>1, <1>2, PTL DEF Spec

-----------------------------------------------------------------------------
(* What the invariant says.                                                *)

\* The run's counters are those that ledger_run.lua's validator computes.
LEMMA RunAccepted ==
    ASSUME LedgerInv
    PROVE  RunValid
  <1> DEFINE size(st) == Cardinality(InState(st))
  <1>1. TypeInv /\ RequestsCounted /\ JobsCounted /\ TotalsCounted /\ RecordInv
    BY DEF LedgerInv, RecordInv, CountInv
  <1>2. \A st : InState(st) \in SUBSET Jobs
    BY DEF InState
  <1>3. /\ JobsIn(Jobs, {"absent"}) = InState("absent")
        /\ JobsIn(Jobs, {"completed"}) = InState("completed")
        /\ JobsIn(Jobs, {"dead"}) = InState("dead")
        /\ JobsIn(Jobs, {"cancelled"}) = InState("cancelled")
    BY DEF JobsIn, InState
  <1>4. run.open_job_count = size("ready") + size("leased") + size("delayed")
    <2> DEFINE A == InState("ready")
               B == InState("leased")
               C == InState("delayed")
    <2>1. /\ IsFiniteSet(A) /\ IsFiniteSet(B) /\ IsFiniteSet(C)
          /\ Cardinality(A) \in Nat /\ Cardinality(B) \in Nat
          /\ Cardinality(C) \in Nat /\ Cardinality({}) = 0
      BY <1>2, CardinalityOfJobs, FS_EmptySet
    <2>2. /\ A \cap B = {} /\ (A \cup B) \cap C = {}
          /\ JobsIn(Jobs, OpenStates) = (A \cup B) \cup C
      BY DEF InState, JobsIn, OpenStates
    <2> HIDE DEF A, B, C
    <2>3. /\ IsFiniteSet(A \cup B)
          /\ Cardinality(A \cup B) =
                 Cardinality(A) + Cardinality(B) - Cardinality(A \cap B)
      BY <2>1, FS_Union
    <2>4. Cardinality(A \cup B) = Cardinality(A) + Cardinality(B) - 0
      BY <2>1, <2>2, <2>3
    <2>5. Cardinality((A \cup B) \cup C) =
              Cardinality(A \cup B) + Cardinality(C)
                  - Cardinality((A \cup B) \cap C)
      BY <2>1, <2>3, FS_Union
    <2>6. Cardinality((A \cup B) \cup C) =
              Cardinality(A \cup B) + Cardinality(C) - 0
      BY <2>1, <2>2, <2>5
    <2>7. Cardinality(JobsIn(Jobs, OpenStates)) =
              Cardinality(A) + Cardinality(B) + Cardinality(C)
      BY <2>1, <2>2, <2>4, <2>6
    <2> QED
      BY <1>1, <2>7 DEF JobsCounted, A, B, C
  <1>5. /\ Held(Groups, "pending") = Holding(Jobs, "pending")
        /\ Held(Groups, "started") = Holding(Jobs, "started")
    BY <1>1, PayerIsGroup DEF Held, Holding
  <1>6. /\ run.job_count = Cardinality(Jobs) - size("absent")
        /\ run.completed = size("completed") /\ run.dead = size("dead")
        /\ run.cancelled = size("cancelled")
        /\ run.commits = Cardinality(PublishedJobs)
    BY <1>1, <1>3 DEF JobsCounted
  <1>7. /\ run.pending = Cardinality(Holding(Jobs, "pending"))
        /\ run.started = Cardinality(Holding(Jobs, "started"))
    BY <1>1, <1>5 DEF RequestsCounted
  <1> HIDE DEF size
  <1>8. /\ run.claims = Total([j \in Jobs |-> job[j].claim_count])
        /\ run.request_starts = Total([j \in Jobs |-> job[j].request_starts])
        /\ run.retries = Total([j \in Jobs |-> job[j].retry_count])
        /\ run.recovered >= Total([j \in Jobs |-> job[j].pre_io_recoveries])
        /\ run.reservation_creations =
               Total([j \in Jobs |-> job[j].next_request_ordinal - 1])
    BY <1>1 DEF TotalsCounted, ClaimCounts, StartCounts, RetryCounts,
                RecoveryCounts, CreationCounts
  <1> QED
    BY <1>4, <1>6, <1>7, <1>8 DEF RunValid, PublishedJobs, size

\* The policy group maps agree with the run and the jobs.
LEMMA GroupsAccepted ==
    ASSUME LedgerInv
    PROVE  GroupsValid
  <1>1. RequestsCounted /\ JobsCounted /\ StartsCounted
    BY DEF LedgerInv, CountInv
  <1>2. run.request_starts = Total([g \in Groups |-> group[g].started])
    BY <1>1 DEF StartsCounted, GroupStarts
  <1>3. ASSUME NEW g \in Groups
        PROVE  LET charged == {j \in Jobs : job[j].reservation.group = g}
               IN  /\ Held({g}, "pending") = Holding(charged, "pending")
                   /\ Held({g}, "started") = Holding(charged, "started")
                   /\ JobsIn(Owned(g), OpenStates) =
                          {j \in Jobs : /\ SourceGroup[j] = g
                                        /\ job[j].state \in OpenStates}
    BY DEF Held, Holding, JobsIn, Owned
  <1> QED
    BY <1>1, <1>2, <1>3 DEF GroupsValid, RequestsCounted, JobsCounted, StartsCounted

\* Every rate scope counts the live requests that it is charged with.
LEMMA ScopesAccepted ==
    ASSUME LedgerInv
    PROVE  ScopesValid
  <1>1. RequestsCounted /\ WithinLimits /\ RecordInv
    BY DEF LedgerInv, CountInv
  <1>2. ASSUME NEW s \in Scopes
        PROVE  /\ Held(Payers(s), "pending") = Holding(ChargedTo(Jobs, s), "pending")
               /\ Held(Payers(s), "started") = Holding(ChargedTo(Jobs, s), "started")
    BY <1>1, PayerIsGroup DEF Held, Holding, ChargedTo, Payers
  <1> QED
    BY <1>1, <1>2 DEF ScopesValid, RequestsCounted, WithinLimits

\* The counters are exact.
LEMMA CountersAccepted == LedgerInv => CountersExact
  BY RunAccepted, GroupsAccepted, ScopesAccepted DEF CountersExact

\* The budgets hold: a group's own rate scope keeps it within its concurrency.
LEMMA BudgetsAccepted ==
    ASSUME LedgerInv
    PROVE  BudgetsHold
  <1>1. TypeInv /\ RequestsCounted /\ WithinLimits
    BY DEF LedgerInv, RecordInv, CountInv
  <1>2. ASSUME NEW g \in Groups
        PROVE  group[g].pending + group[g].active =< GroupConcurrency[g]
    <2>1. PICK s \in ScopesOf[g] : Concurrency[s] =< GroupConcurrency[g]
      BY PolicyAssumption
    <2>2. s \in Scopes /\ g \in Payers(s)
      BY PolicyAssumption DEF Payers
    <2>3. \A st : /\ Held({g}, st) \in SUBSET Jobs
                  /\ Held(Payers(s), st) \in SUBSET Jobs
                  /\ Held({g}, st) \subseteq Held(Payers(s), st)
      BY <2>2 DEF Held
    <2>4. \A st : /\ Cardinality(Held({g}, st)) \in Nat
                  /\ Cardinality(Held(Payers(s), st)) \in Nat
                  /\ Cardinality(Held({g}, st)) =< Cardinality(Held(Payers(s), st))
      BY <2>3, CardinalityOfJobs, FS_Subset
    <2>5. /\ group[g].pending =< scope[s].pending
          /\ group[g].active =< scope[s].started
          /\ scope[s].active = scope[s].pending + scope[s].started
          /\ scope[s].active =< Concurrency[s]
      BY <1>1, <2>2, <2>4 DEF RequestsCounted, WithinLimits
    <2>6. /\ group[g].pending \in Int /\ group[g].active \in Int
          /\ scope[s].active \in Int /\ scope[s].pending \in Int
          /\ scope[s].started \in Int
          /\ Concurrency[s] \in Nat /\ GroupConcurrency[g] \in Nat
      BY <1>1, <2>2, CounterTypes, PolicyAssumption
    <2> QED
      BY <2>1, <2>5, <2>6
  <1> QED
    BY <1>1, <1>2 DEF WithinLimits, BudgetsHold

-----------------------------------------------------------------------------
(* The theorems.                                                           *)

\* ledger_job.lua's validator accepts every job record, and every stage binds the
\* transcript of its lease, at all times: no sequence of claims, starts, stages,
\* outcomes, crashes and recoveries leads to INVALID_STATE or STAGE_INVALID.
THEOREM RecordsAlwaysValid == Spec => []RecordsValid
  <1>1. LedgerInv => RecordsValid
    BY RecordsAccepted DEF LedgerInv
  <1> QED
    BY <1>1, LedgerSound, PTL

\* ledger_run.lua's validate_ledger accepts the counters at all times: no sequence
\* of calls, redirects, expiries and batches leads to COUNTER_CORRUPT.
THEOREM CountersAlwaysExact == Spec => []CountersExact
  BY CountersAccepted, LedgerSound, PTL

\* No sequence of admissions, retries and redirects oversubscribes the budget of
\* the run or of a group, or the concurrency of a group.
THEOREM BudgetsAlwaysHold == Spec => []BudgetsHold
  BY BudgetsAccepted, LedgerSound, PTL

\* No step of any call changes the owner, the baseline or the frozen transcript of
\* a lease, and a new lease takes the next fence of a ready job.
THEOREM LeasesKeepFaith == Spec => LeaseIntegrity
  <1>1. LedgerInv /\ [Next]_vars =>
            [\A j \in Jobs : Faithful(job[j], job'[j])]_vars
    BY LedgerStep
  <1>2. LeaseIntegrity <=> [][\A j \in Jobs : Faithful(job[j], job'[j])]_vars
    BY DEF LeaseIntegrity, Faithful
  <1> QED
    BY <1>1, <1>2, LedgerSound, PTL DEF Spec
==============================================================================

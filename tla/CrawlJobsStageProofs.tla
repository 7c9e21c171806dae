-------------------------- MODULE CrawlJobsStageProofs --------------------------
(***************************************************************************)
(* What the Crawl Jobs V2 ledger promises about its stage slots, about the *)
(* pages it has published and about the end of a run, for all values of    *)
(* the constants that the assumptions of CrawlJobs allow.                  *)
(*                                                                         *)
(* The inductive invariant adds to LedgerInv that the slots are finitely   *)
(* many and owned, that a published page is visited, and that a finalized  *)
(* run is not active and has no lease.  What else a finalized run is free  *)
(* of follows: without a lease no record holds a request or a slot.        *)
(***************************************************************************)
EXTENDS CrawlJobsCountProofs

-----------------------------------------------------------------------------
(* The kinds of steps.                                                     *)

\* The calls under a lease that leave its job leased or publish it.
LeaseCalls(w, j, f) ==
    \/ \E g \in Groups, k \in RequestKinds : Reserve(w, j, f, g, k)
    \/ \E heard \in BOOLEAN : Start(w, j, f, heard)
    \/ EndReservation(w, j, f)
    \/ \E heard \in BOOLEAN : Renew(w, j, f, heard)
    \/ BeginStage(w, j, f) \/ SealStage(w, j, f) \/ AbortStage(w, j, f)
    \/ \E reason \in BlockReasons : Backpressure(w, j, f, reason)
    \/ \E D, A \in SUBSET Jobs : Commit(w, j, f, D, A)

\* The steps that settle no job, hold no request and write no record of a job.
RunTurns ==
    \/ \E reason \in CancelReasons : CancelRun(reason)
    \/ FinalizeRun \/ AuthorizationExpires
Listens == UNCHANGED <<run, group, scope, job, stage, slots, visited>>

\* Every step settles jobs, is a call under a lease, a claim or a promotion, turns
\* the run, passes the time, or concerns what a worker knows only.
LEMMA StepKinds ==
    ASSUME LedgerInv, [Next]_vars
    PROVE  \/ Settlement /\ UNCHANGED visited
           \/ \E w \in Workers, j \in Jobs, f \in Nat : LeaseCalls(w, j, f)
           \/ \E w \in Workers, j \in Jobs, k \in RequestKinds, heard \in BOOLEAN :
                 \E prior : Claim(w, j, prior, k, heard)
           \/ \E b \in SUBSET Jobs : PromoteDue(b)
           \/ RunTurns \/ Tick \/ Listens
  <1> DEFINE Settled == Settlement /\ UNCHANGED visited
             Called == \E w \in Workers, j \in Jobs, f \in Nat : LeaseCalls(w, j, f)
  <1>1. ASSUME NEW j \in Jobs, NEW w \in Workers,
               NEW f \in 1 .. job[j].lease_fence, LeaseStep(w, j, f)
        PROVE  Settled \/ Called \/ Listens
    <2>1. f \in Nat
      BY DEF LedgerInv, RecordInv, TypeInv, TypeOK, JobRecord
    <2>2. CASE LeaseCalls(w, j, f)
      BY <2>1, <2>2
    <2>3. CASE \/ ReleaseBeforeIo(w, j, f)
               \/ \E r \in RetryReasons : Retry(w, j, f, r)
               \/ \E r \in DeadReasons : Dead(w, j, f, r)
               \/ CompleteNoOutput(w, j, f)
               \/ CancelJob(w, j, f)
      <3>1. Settlement
        BY <2>1, <2>3, OutcomeSettles
      <3>2. visited' = visited
        BY <2>3 DEF ReleaseBeforeIo, Retry, Dead, CompleteNoOutput, CancelJob,
                    EndLease
      <3> QED
        BY <3>1, <3>2
    <2>4. CASE ReplayStart(w, j, f)
      BY <2>4 DEF ReplayStart, Listens
    <2> QED
      BY <1>1, <2>2, <2>3, <2>4
         DEF LeaseStep, LeaseCalls, FinishRequest, CancelReservation
  <1>2. ASSUME NEW j \in Jobs, NEW prior, ClaimVisited(j, prior)
        PROVE  Settled
    BY <1>2, ReadySettles DEF ClaimVisited
  <1>3. ASSUME NEW j \in Jobs, NEW reason \in ReadyReasons, RejectReady(j, reason)
        PROVE  Settled
    BY <1>3, ReadySettles DEF RejectReady
  <1>4. ASSUME NEW b \in SUBSET Jobs, CancelBatch(b)
        PROVE  Settled
    BY <1>4, BatchSettles DEF CancelBatch
  <1>5. CASE RecoverExpired
    <2>1. Settlement
      BY <1>5, BatchSettles
    <2> QED
      BY <1>5, <2>1 DEF RecoverExpired
  <1>6. \/ \E w \in Workers : Abandon(w)
        \/ \E w \in Workers, j \in Jobs : ReplayClaim(w, j)
        \/ Done \/ UNCHANGED vars
        => Listens
    BY DEF Abandon, ReplayClaim, Done, vars, Listens
  <1> HIDE DEF Settled, Called
  <1>7. \/ \E j \in Jobs : ReadyStep(j)
        \/ \E j \in Jobs : \E w \in Workers, f \in 1 .. job[j].lease_fence :
              LeaseStep(w, j, f)
        \/ Maintenance \/ Tick \/ AuthorizationExpires
        \/ \E w \in Workers : Abandon(w)
        \/ Done \/ UNCHANGED vars
    BY DEF Next
  <1>8. CASE \E j \in Jobs : ReadyStep(j)
    <2>1. PICK j \in Jobs : ReadyStep(j)
      BY <1>8
    <2>2. \/ \E prior : \/ ClaimVisited(j, prior)
                        \/ \E w \in Workers, k \in RequestKinds, heard \in BOOLEAN :
                              Claim(w, j, prior, k, heard)
          \/ \E w \in Workers : ReplayClaim(w, j)
          \/ \E reason \in ReadyReasons : RejectReady(j, reason)
      BY <2>1 DEF ReadyStep
    <2> QED
      BY <1>2, <1>3, <1>6, <2>2 DEF Settled
  <1>9. CASE Maintenance
    BY <1>4, <1>5, <1>9 DEF Maintenance, RunTurns, Settled
  <1> QED
    BY <1>1, <1>5, <1>6, <1>7, <1>8, <1>9 DEF RunTurns, Settled, Called

-----------------------------------------------------------------------------
(* The run's state, its commits and the visited pages.                     *)

RunStays == run'.state = run.state /\ run'.finalized = run.finalized
NothingPublished == run'.commits = run.commits /\ visited' = visited

\* A release of requests, a settlement and an admission leave the run as it is, but
\* for its counters.
LEMMA CountersOnly ==
    ASSUME TypeInv
    PROVE  /\ \A D \in SUBSET Jobs :
                 run' = ReleasedRun(D) => RunStays /\ run'.commits = run.commits
           /\ \A D \in SUBSET Jobs : \A post, n :
                 Settle(D, post, n) => RunStays /\ run'.commits = run.commits
           /\ \A g \in Groups, c \in Nat :
                 Charge(g, c) => RunStays /\ run'.commits = run.commits
  <1>1. run \in RunRecord
    BY DEF TypeInv, TypeOK
  <1>2. ASSUME NEW D \in SUBSET Jobs
        PROVE  /\ ReleasedRun(D) \in RunRecord
               /\ ReleasedRun(D).state = run.state
               /\ ReleasedRun(D).finalized = run.finalized
               /\ ReleasedRun(D).commits = run.commits
    <2> DEFINE a == run.pending - Cardinality(Holding(D, "pending"))
               b == run.started - Cardinality(Holding(D, "started"))
               q == [run EXCEPT !.pending = a, !.started = b]
    <2>1. ReleasedRun(D) = q
      BY DEF ReleasedRun
    <2>2. ReleasedRun(D) \in RunRecord
      BY ReleasedType
    <2> HIDE DEF a, b
    <2>3. /\ q.state = run.state /\ q.finalized = run.finalized
          /\ q.commits = run.commits
      BY <1>1 DEF RunRecord
    <2> HIDE DEF q
    <2> QED
      BY <2>1, <2>2, <2>3
  <1>3. ASSUME NEW D \in SUBSET Jobs, NEW post, NEW n, Settle(D, post, n)
        PROVE  RunStays /\ run'.commits = run.commits
    <2> DEFINE freed == ReleasedRun(D)
               m(st) == Entering(D, post, st)
               open == freed.open_job_count
                          - (m("completed") + m("dead") + m("cancelled"))
               completed == freed.completed + m("completed")
               dead == freed.dead + m("dead")
               cancelled == freed.cancelled + m("cancelled")
               retries == freed.retries + m("delayed")
               recovered == freed.recovered + n
    <2>1. run' = [freed EXCEPT !.open_job_count = open, !.completed = completed,
                               !.dead = dead, !.cancelled = cancelled,
                               !.retries = retries, !.recovered = recovered]
      BY <1>3 DEF Settle
    <2> HIDE DEF open, completed, dead, cancelled, retries, recovered
    <2>2. freed \in RunRecord
      BY <1>2
    <2> HIDE DEF freed
    <2>3. /\ run'.state = freed.state /\ run'.finalized = freed.finalized
          /\ run'.commits = freed.commits
      BY <2>1, <2>2 DEF RunRecord
    <2> QED
      BY <1>2, <2>3 DEF freed, RunStays
  <1>4. ASSUME NEW g \in Groups, NEW c \in Nat, Charge(g, c)
        PROVE  RunStays /\ run'.commits = run.commits
    <2> DEFINE pending == run.pending + 1
               creations == run.reservation_creations + 1
               claims == run.claims + c
    <2>1. run' = [run EXCEPT !.pending = pending, !.claims = claims,
                             !.reservation_creations = creations]
      BY <1>4 DEF Charge
    <2> HIDE DEF pending, creations, claims
    <2> QED
      BY <1>1, <2>1 DEF RunRecord, RunStays
  <1> QED
    BY <1>2, <1>3, <1>4 DEF RunStays

\* No call under a lease changes the state of the run.
LEMMA CallsStay ==
    ASSUME TypeInv, NEW w \in Workers, NEW j \in Jobs, NEW f \in Nat,
           LeaseCalls(w, j, f)
    PROVE  /\ RunStays
           /\ NothingPublished \/ \E D, A \in SUBSET Jobs : Commit(w, j, f, D, A)
  <1>1. run \in RunRecord
    BY DEF TypeInv, TypeOK
  <1>2. ASSUME NEW g \in Groups, NEW k \in RequestKinds, Reserve(w, j, f, g, k)
        PROVE  RunStays /\ NothingPublished
    <2>1. Charge(g, 0) /\ 0 \in Nat /\ visited' = visited
      BY <1>2 DEF Reserve
    <2> QED
      BY <2>1, CountersOnly DEF NothingPublished
  <1>3. ASSUME NEW heard \in BOOLEAN, Start(w, j, f, heard)
        PROVE  RunStays /\ NothingPublished
    <2> DEFINE pending == run.pending - 1
               started == run.started + 1
               starts == run.request_starts + 1
    <2>1. /\ run' = [run EXCEPT !.pending = pending, !.started = started,
                                !.request_starts = starts]
          /\ visited' = visited
      BY <1>3 DEF Start
    <2> HIDE DEF pending, started, starts
    <2> QED
      BY <1>1, <2>1 DEF RunRecord, RunStays, NothingPublished
  <1>4. CASE EndReservation(w, j, f)
    <2>1. run' = ReleasedRun({j}) /\ {j} \in SUBSET Jobs /\ visited' = visited
      BY <1>4 DEF EndReservation
    <2> QED
      BY <2>1, CountersOnly DEF NothingPublished
  <1>5. CASE \/ \E heard \in BOOLEAN : Renew(w, j, f, heard)
             \/ BeginStage(w, j, f) \/ SealStage(w, j, f) \/ AbortStage(w, j, f)
             \/ \E reason \in BlockReasons : Backpressure(w, j, f, reason)
    <2>1. run' = run /\ visited' = visited
      BY <1>5 DEF Renew, BeginStage, SealStage, AbortStage, Backpressure
    <2> QED
      BY <2>1 DEF RunStays, NothingPublished
  <1>6. ASSUME NEW D \in SUBSET Jobs, NEW A \in SUBSET Jobs, Commit(w, j, f, D, A)
        PROVE  RunStays
    <2> DEFINE n == Cardinality(Fresh(D, j))
               jobs == run.job_count + n
               open == run.open_job_count + n - 1
               completed == run.completed + 1
               commits == run.commits + 1
    <2>1. run' = [run EXCEPT !.job_count = jobs, !.open_job_count = open,
                             !.completed = completed, !.commits = commits]
      BY <1>6 DEF Commit
    <2> HIDE DEF jobs, open, completed, commits
    <2> QED
      BY <1>1, <2>1 DEF RunRecord, RunStays
  <1> QED
    BY <1>2, <1>3, <1>4, <1>5, <1>6 DEF LeaseCalls

\* The run's own steps touch no job; only an active run that is not finalized is
\* cancelled, and none is finalized twice.
LEMMA TurnsStay ==
    ASSUME TypeInv, RunTurns
    PROVE  /\ UNCHANGED <<group, scope, job, stage, slots>> /\ NothingPublished
           /\ run'.open_job_count = run.open_job_count
           /\ run'.request_starts = run.request_starts
           /\ run'.reservation_creations = run.reservation_creations
           /\ \/ RunStays \/ FinalizeRun
              \/ run.state = "active" /\ run'.finalized = run.finalized
  <1>1. run \in RunRecord
    BY DEF TypeInv, TypeOK
  <1>2. CASE \E reason \in CancelReasons : CancelRun(reason)
    BY <1>1, <1>2 DEF CancelRun, RunRecord, NothingPublished
  <1>3. CASE FinalizeRun
    <2> DEFINE st == Verdict[1]
               why == Verdict[2]
    <2>1. /\ run' = [run EXCEPT !.state = st, !.terminal_reason = why,
                                !.finalized = TRUE]
          /\ UNCHANGED <<group, scope, job, stage, slots, visited>>
      BY <1>3 DEF FinalizeRun
    <2> HIDE DEF st, why
    <2>2. /\ run'.open_job_count = run.open_job_count
          /\ run'.request_starts = run.request_starts
          /\ run'.reservation_creations = run.reservation_creations
          /\ run'.commits = run.commits
      BY <1>1, <2>1 DEF RunRecord
    <2> QED
      BY <1>3, <2>1, <2>2 DEF NothingPublished
  <1>4. CASE AuthorizationExpires
    BY <1>1, <1>4 DEF AuthorizationExpires, RunRecord, RunStays, NothingPublished
  <1> QED
    BY <1>2, <1>3, <1>4 DEF RunTurns

-----------------------------------------------------------------------------
(* Published pages are visited.                                            *)

\* Only a commit publishes a page or marks one visited.
LEMMA CommitsOnly ==
    ASSUME LedgerInv, [Next]_vars
    PROVE  \/ NothingPublished
           \/ \E w \in Workers, j \in Jobs, f \in Nat :
                 \E D, A \in SUBSET Jobs : Commit(w, j, f, D, A)
  <1>1. TypeInv
    BY DEF LedgerInv, RecordInv
  <1>2. CASE Settlement /\ UNCHANGED visited
    BY <1>1, <1>2, CountersOnly DEF Settlement, Settling, NothingPublished
  <1>3. ASSUME NEW w \in Workers, NEW j \in Jobs, NEW k \in RequestKinds,
               NEW heard \in BOOLEAN, NEW prior, Claim(w, j, prior, k, heard)
        PROVE  NothingPublished
    <2>1. /\ Charge(SourceGroup[j], 1) /\ 1 \in Nat /\ SourceGroup[j] \in Groups
          /\ visited' = visited
      BY <1>3, SetsAssumption DEF Claim
    <2> QED
      BY <1>1, <2>1, CountersOnly DEF NothingPublished
  <1>4. CASE Tick \/ Listens \/ \E b \in SUBSET Jobs : PromoteDue(b)
    BY <1>4 DEF Tick, Listens, PromoteDue, NothingPublished
  <1> QED
    BY <1>1, <1>2, <1>3, <1>4, StepKinds, CallsStay, TurnsStay

\* A step that publishes nothing publishes no job: a published record is terminal,
\* so the published jobs stay published, and their number stays the same.
LEMMA PublishedSame ==
    ASSUME LedgerInv, LedgerInv', QuietInv, [Next]_vars,
           run'.commits = run.commits
    PROVE  PublishedJobs' = PublishedJobs
  <1>1. PublishedJobs \subseteq PublishedJobs'
    <2> SUFFICES ASSUME NEW j \in PublishedJobs
                 PROVE  j \in PublishedJobs'
      OBVIOUS
    <2>1. j \in Jobs /\ job[j].last_reason = "published" /\ Sound(job[j], stage[j])
      BY DEF PublishedJobs, LedgerInv, RecordInv
    <2>2. job[j].state \in TerminalStates
      BY <2>1 DEF Sound, ReasonsValid, TerminalStates
    <2>3. job'[j] = job[j]
      BY <2>1, <2>2, QuietStep
    <2> QED
      BY <2>1, <2>3 DEF PublishedJobs
  <1>2. PublishedJobs \in SUBSET Jobs /\ PublishedJobs' \in SUBSET Jobs
    BY DEF PublishedJobs
  <1>3. /\ run.commits = Cardinality(PublishedJobs)
        /\ run'.commits = Cardinality(PublishedJobs')
    BY DEF LedgerInv, CountInv, JobsCounted
  <1>4. IsFiniteSet(PublishedJobs')
    BY <1>2, CardinalityOfJobs
  <1> QED
    BY <1>1, <1>3, <1>4, FS_Subset

\* A visit is never forgotten, and the committed page is one of those it marks.
LEMMA VisitedStep ==
    ASSUME LedgerInv, LedgerInv', QuietInv, [Next]_vars, PublishedIsVisited
    PROVE  PublishedIsVisited'
  <1>1. CASE NothingPublished
    <2>1. PublishedJobs' = PublishedJobs /\ visited' = visited
      BY <1>1, PublishedSame DEF NothingPublished
    <2> QED
      BY <2>1 DEF PublishedIsVisited, PublishedJobs, VisitedAlready
  <1>2. ASSUME NEW w \in Workers, NEW j \in Jobs, NEW f \in Nat,
               NEW D \in SUBSET Jobs, NEW A \in SUBSET Jobs, Commit(w, j, f, D, A)
        PROVE  PublishedIsVisited'
    <2>1. /\ Depth \in [Jobs -> Nat] /\ visited \in [Jobs -> Nat \cup {Unvisited}]
          /\ Unvisited \notin Nat
      BY SetsAssumption DEF LedgerInv, RecordInv, TypeInv, TypeOK, Unvisited
    <2>2. visited' = Visit(j, A) /\ j \in A
      BY <1>2 DEF Commit
    <2>3. ASSUME NEW i \in Jobs, VisitedAlready(i) \/ i = j
          PROVE  visited'[i] # Unvisited /\ visited'[i] =< Depth[i]
      <3>1. visited'[i] = IF i \in A /\ (visited[i] = Unvisited \/ Depth[j] < visited[i])
                          THEN Depth[j] ELSE visited[i]
        BY <2>2 DEF Visit
      <3>2. /\ visited[i] \in Nat \cup {Unvisited}
            /\ Depth[i] \in Nat /\ Depth[j] \in Nat
        BY <2>1
      <3> QED
        BY <2>1, <2>2, <2>3, <3>1, <3>2 DEF VisitedAlready
    <2>4. \A i \in Jobs : job'[i].last_reason = "published" =>
              i = j \/ job[i].last_reason = "published"
      <3> DEFINE fresh == Fresh(D, j)
      <3>1. /\ \A i \in fresh : job'[i].last_reason # "published"
            /\ \A i \in Jobs \ (fresh \cup {j}) : job'[i] = job[i]
        BY <1>2, CommitRecords
      <3> HIDE DEF fresh
      <3> QED
        BY <3>1
    <2> QED
      BY <2>3, <2>4 DEF PublishedIsVisited, VisitedAlready
  <1> QED
    BY <1>1, <1>2, CommitsOnly

-----------------------------------------------------------------------------
(* Stage slots.                                                            *)

\* The lease of record r has had a stage, and so has a slot; the slot of job j.
HasSlot(r) == r.state = "leased" /\ StageFrozen(r)
SlotOf(j, r) ==
    [job |-> j, fence |-> r.lease_fence, aborted |-> ~r.active_stage]
SlotInv == IsFiniteSet(slots) /\ SlotsOwned

\* Record q has the slot that r has, or neither has one.
SameSlot(r, q) ==
    /\ HasSlot(q) <=> HasSlot(r)
    /\ HasSlot(r) => q.lease_fence = r.lease_fence /\ q.active_stage = r.active_stage

\* What it is for the slots to be owned.
LEMMA SlotMembers ==
    SlotsOwned <=>
        /\ Cardinality(slots) =< StageSlots
        /\ \A s : s \in slots <=>
                      \E j \in Jobs : HasSlot(job[j]) /\ s = SlotOf(j, job[j])
  <1>1. {[job |-> j, fence |-> job[j].lease_fence,
          aborted |-> ~job[j].active_stage] :
            j \in {i \in InState("leased") : StageFrozen(job[i])}}
        = {SlotOf(j, job[j]) : j \in {i \in Jobs : HasSlot(job[i])}}
    BY DEF SlotOf, HasSlot, InState
  <1> QED
    BY <1>1 DEF SlotsOwned

\* The same after a step.
LEMMA SlotMembersNext ==
    SlotsOwned' <=>
        /\ Cardinality(slots') =< StageSlots
        /\ \A s : s \in slots' <=>
                      \E j \in Jobs : HasSlot(job'[j]) /\ s = SlotOf(j, job'[j])
  <1>1. {[job |-> j, fence |-> job'[j].lease_fence,
          aborted |-> ~job'[j].active_stage] :
            j \in {i \in InState("leased")' : StageFrozen(job'[i])}}
        = {SlotOf(j, job'[j]) : j \in {i \in Jobs : HasSlot(job'[i])}}
    BY DEF SlotOf, HasSlot, InState
  <1> QED
    BY <1>1 DEF SlotsOwned

\* The slots of the jobs of D are given up, and the other jobs keep theirs.
LEMMA SlotsLeft ==
    ASSUME SlotInv, NEW D \in SUBSET Jobs, slots' = SlotsWithout(D),
           \A i \in D : ~HasSlot(job'[i]),
           \A i \in Jobs \ D : SameSlot(job[i], job'[i])
    PROVE  SlotInv'
  <1>1. slots' \subseteq slots
    BY DEF SlotsWithout
  <1>2. /\ IsFiniteSet(slots) /\ Cardinality(slots) \in Nat
        /\ Cardinality(slots) =< StageSlots /\ StageSlots \in Nat
        /\ \A s : s \in slots <=>
                      \E j \in Jobs : HasSlot(job[j]) /\ s = SlotOf(j, job[j])
    BY SlotMembers, FS_CardinalityType, BoundsAssumption DEF SlotInv, SlotsOwned
  <1>3. /\ IsFiniteSet(slots') /\ Cardinality(slots') \in Nat
        /\ Cardinality(slots') =< Cardinality(slots)
    BY <1>1, <1>2, FS_Subset, FS_CardinalityType
  <1>4. Cardinality(slots') =< StageSlots
    BY <1>2, <1>3
  <1>5. ASSUME NEW s
        PROVE  s \in slots' <=>
                   \E j \in Jobs : HasSlot(job'[j]) /\ s = SlotOf(j, job'[j])
    <2>1. ASSUME NEW j \in Jobs \ D, HasSlot(job[j])
          PROVE  HasSlot(job'[j]) /\ SlotOf(j, job'[j]) = SlotOf(j, job[j])
      BY <2>1 DEF SameSlot, SlotOf
    <2>2. ASSUME NEW j \in Jobs \ D, HasSlot(job'[j])
          PROVE  HasSlot(job[j])
      BY <2>2 DEF SameSlot
    <2>3. \A j \in Jobs : SlotOf(j, job[j]).job = j
      BY DEF SlotOf
    <2>4. ASSUME s \in slots'
          PROVE  \E j \in Jobs : HasSlot(job'[j]) /\ s = SlotOf(j, job'[j])
      <3>1. s \in slots /\ s.job \notin D
        BY <2>4 DEF SlotsWithout
      <3>2. PICK j \in Jobs : HasSlot(job[j]) /\ s = SlotOf(j, job[j])
        BY <1>2, <3>1
      <3> QED
        BY <2>1, <2>3, <3>1, <3>2
    <2>5. ASSUME NEW j \in Jobs, HasSlot(job'[j]), s = SlotOf(j, job'[j])
          PROVE  s \in slots'
      <3>1. j \in Jobs \ D
        BY <2>5
      <3>2. HasSlot(job[j]) /\ s = SlotOf(j, job[j])
        BY <2>1, <2>2, <2>5, <3>1
      <3> QED
        BY <1>2, <2>3, <3>1, <3>2 DEF SlotsWithout
    <2> QED
      BY <2>4, <2>5
  <1> QED
    BY <1>3, <1>4, <1>5, SlotMembersNext DEF SlotInv

\* In particular, if nothing is given up.
LEMMA SlotsKept ==
    ASSUME SlotInv, slots' = slots, \A i \in Jobs : SameSlot(job[i], job'[i])
    PROVE  SlotInv'
  <1>1. SlotsWithout({}) = slots /\ {} \in SUBSET Jobs
    BY DEF SlotsWithout
  <1> QED
    BY <1>1, SlotsLeft

\* A stage begins in a slot of its own, which only a lease without one is given.
LEMMA BeginSlot ==
    ASSUME TypeInv, SlotInv, NEW w \in Workers, NEW j \in Jobs, NEW f \in Nat,
           BeginStage(w, j, f)
    PROVE  SlotInv'
  <1> DEFINE r == job[j]
             q == [r EXCEPT !.active_stage = TRUE, !.last_stage_fence = f]
             new == [job |-> j, fence |-> f, aborted |-> FALSE]
  <1>1. /\ job \in [Jobs -> JobRecord] /\ r \in JobRecord
        /\ r.state = "leased" /\ r.lease_fence = f /\ r.last_stage_fence < f
        /\ r.last_stage_fence \in Nat
        /\ Cardinality(slots) # StageSlots
        /\ job' = [job EXCEPT ![j] = q] /\ slots' = slots \cup {new}
    BY DEF TypeInv, TypeOK, BeginStage, StageReady, Holds, JobRecord
  <1>2. /\ q.state = "leased" /\ q.lease_fence = f /\ q.last_stage_fence = f
        /\ q.active_stage = TRUE
    BY <1>1 DEF JobRecord
  <1>3. ~HasSlot(r) /\ HasSlot(q) /\ SlotOf(j, q) = new
    <2>1. ~HasSlot(r) /\ HasSlot(q)
      BY <1>1, <1>2 DEF HasSlot, StageFrozen
    <2>2. SlotOf(j, q) = [job |-> j, fence |-> f, aborted |-> ~TRUE]
      BY <1>2, Zenon DEF SlotOf
    <2>3. ~TRUE = FALSE
      OBVIOUS
    <2> QED
      BY <2>1, <2>2, <2>3, Zenon
  <1> HIDE DEF q, new
  <1>4. job'[j] = q /\ \A i \in Jobs \ {j} : job'[i] = job[i]
    BY <1>1
  <1>5. /\ IsFiniteSet(slots) /\ Cardinality(slots) \in Nat
        /\ Cardinality(slots) =< StageSlots /\ StageSlots \in Nat
        /\ \A s : s \in slots <=>
                      \E i \in Jobs : HasSlot(job[i]) /\ s = SlotOf(i, job[i])
    BY SlotMembers, FS_CardinalityType, BoundsAssumption DEF SlotInv, SlotsOwned
  <1>6. /\ IsFiniteSet(slots') /\ Cardinality(slots') \in Nat
        /\ Cardinality(slots') =< Cardinality(slots) + 1
    <2>1. Cardinality(slots \cup {new}) =
              IF new \in slots THEN Cardinality(slots) ELSE Cardinality(slots) + 1
      BY <1>5, FS_AddElement
    <2>2. IsFiniteSet(slots \cup {new})
      BY <1>5, FS_AddElement
    <2> QED
      BY <1>1, <1>5, <2>1, <2>2
  <1>7. Cardinality(slots') =< StageSlots
    BY <1>1, <1>5, <1>6
  <1>8. ASSUME NEW s
        PROVE  s \in slots' <=>
                   \E i \in Jobs : HasSlot(job'[i]) /\ s = SlotOf(i, job'[i])
    <2>1. s \in slots <=>
              \E i \in Jobs \ {j} : HasSlot(job[i]) /\ s = SlotOf(i, job[i])
      BY <1>3, <1>5
    <2> QED
      BY <1>1, <1>3, <1>4, <2>1
  <1> QED
    BY <1>6, <1>7, <1>8, SlotMembersNext DEF SlotInv

\* An abort marks the slot of its own lease, and that one only.
LEMMA AbortSlot ==
    ASSUME TypeInv, SlotInv, NEW w \in Workers, NEW j \in Jobs, NEW f \in Nat,
           f > 0, AbortStage(w, j, f)
    PROVE  SlotInv'
  <1> DEFINE r == job[j]
             q == [r EXCEPT !.active_stage = FALSE, !.last_reason = "none",
                            !.last_status = "STAGE_ABORTED"]
             old == [job |-> j, fence |-> f, aborted |-> FALSE]
             new == [job |-> j, fence |-> f, aborted |-> TRUE]
             mark(s) == IF s.job = j THEN [s EXCEPT !.aborted = TRUE] ELSE s
  <1>1. /\ job \in [Jobs -> JobRecord] /\ r \in JobRecord
        /\ r.state = "leased" /\ r.lease_fence = f /\ r.last_stage_fence = f
        /\ r.active_stage = TRUE
        /\ job' = [job EXCEPT ![j] = q] /\ slots' = {mark(s) : s \in slots}
    BY DEF TypeInv, TypeOK, AbortStage, OwnsStage, StageReady, Holds, JobRecord
  <1>2. /\ q.state = "leased" /\ q.lease_fence = f /\ q.last_stage_fence = f
        /\ q.active_stage = FALSE
    BY <1>1 DEF JobRecord
  <1>3. /\ HasSlot(r) /\ SlotOf(j, r) = old
        /\ HasSlot(q) /\ SlotOf(j, q) = new
    BY <1>1, <1>2 DEF HasSlot, StageFrozen, SlotOf
  <1>4. mark(old) = new
    OBVIOUS
  <1> HIDE DEF q
  <1>5. job'[j] = q /\ \A i \in Jobs \ {j} : job'[i] = job[i]
    BY <1>1
  <1>6. /\ IsFiniteSet(slots) /\ Cardinality(slots) \in Nat
        /\ Cardinality(slots) =< StageSlots /\ StageSlots \in Nat
        /\ \A s : s \in slots <=>
                      \E i \in Jobs : HasSlot(job[i]) /\ s = SlotOf(i, job[i])
    BY SlotMembers, FS_CardinalityType, BoundsAssumption DEF SlotInv, SlotsOwned
  <1>7. \A i \in Jobs : \A p : SlotOf(i, p).job = i
    BY DEF SlotOf
  <1>8. old \in slots /\ \A s \in slots : s.job = j => s = old
    BY <1>3, <1>6, <1>7
  <1>9. \A s \in slots : mark(s) = IF s = old THEN new ELSE s
    BY <1>4, <1>8
  <1> HIDE DEF mark, old, new
  <1>10. slots' = (slots \ {old}) \cup {new}
    BY <1>1, <1>8, <1>9
  <1>11. IsFiniteSet(slots') /\ Cardinality(slots') =< StageSlots
    <2> DEFINE rest == slots \ {old}
    <2>1. IsFiniteSet(rest) /\ Cardinality(rest) = Cardinality(slots) - 1
      BY <1>6, <1>8, FS_RemoveElement
    <2> HIDE DEF rest
    <2>2. /\ IsFiniteSet(rest \cup {new})
          /\ Cardinality(rest \cup {new}) =
                 IF new \in rest THEN Cardinality(rest) ELSE Cardinality(rest) + 1
      BY <2>1, FS_AddElement
    <2>3. slots' = rest \cup {new}
      BY <1>10 DEF rest
    <2> QED
      BY <1>6, <2>1, <2>2, <2>3
  <1>12. ASSUME NEW s
         PROVE  s \in slots' <=>
                    \E i \in Jobs : HasSlot(job'[i]) /\ s = SlotOf(i, job'[i])
    <2>1. s \in slots /\ s # old <=>
              \E i \in Jobs \ {j} : HasSlot(job[i]) /\ s = SlotOf(i, job[i])
      BY <1>3, <1>6, <1>7
    <2> QED
      BY <1>3, <1>5, <1>10, <2>1
  <1> QED
    BY <1>11, <1>12, SlotMembersNext DEF SlotInv

\* A record keeps its slot as long as it keeps its state, fences and stage.
LEMMA SameFields ==
    ASSUME NEW r, NEW q, q.state = r.state, q.lease_fence = r.lease_fence,
           q.last_stage_fence = r.last_stage_fence,
           q.active_stage = r.active_stage
    PROVE  SameSlot(r, q)
  BY DEF SameSlot, HasSlot, StageFrozen

\* A call that changes the record of one job, and no slot.
LEMMA OwnSlot ==
    ASSUME TypeInv, SlotInv, NEW j \in Jobs, NEW q, job' = [job EXCEPT ![j] = q],
           slots' = slots, SameSlot(job[j], q)
    PROVE  SlotInv'
  <1>1. job'[j] = q /\ \A i \in Jobs \ {j} : job'[i] = job[i]
    BY DEF TypeInv, TypeOK
  <1>2. \A r : SameSlot(r, r)
    BY SameFields
  <1> QED
    BY <1>1, <1>2, SlotsKept

\* A settled job loses its slot with its lease.
LEMMA SettlementSlots ==
    ASSUME SlotInv, Settlement
    PROVE  SlotInv'
  <1>1. PICK D \in SUBSET Jobs, n \in Nat : \E post : Settling(D, post, n)
    BY DEF Settlement
  <1>2. PICK post : Settling(D, post, n)
    BY <1>1
  <1>3. /\ slots' = SlotsWithout(D)
        /\ \A i \in D : job'[i] = post[i]
        /\ \A i \in Jobs \ D : job'[i] = job[i]
    BY <1>2 DEF Settling, Settle
  <1>4. \A i \in D : post[i].state # "leased"
    BY <1>2 DEF Settling, Ends, TerminalStates
  <1>5. /\ \A i \in D : ~HasSlot(job'[i])
        /\ \A i \in Jobs \ D : SameSlot(job[i], job'[i])
    BY <1>3, <1>4, SameFields DEF HasSlot
  <1> QED
    BY <1>3, <1>5, SlotsLeft

\* A claim takes the next fence, under which there has been no stage.
LEMMA ClaimSlots ==
    ASSUME RecordInv, SlotInv, NEW w \in Workers, NEW j \in Jobs, NEW prior,
           NEW k \in RequestKinds, NEW heard, Claim(w, j, prior, k, heard)
    PROVE  SlotInv'
  <1> DEFINE r == job[j]
             p == PendingReservation(j, SourceGroup[j], k, "claim")
             q == [r EXCEPT !.state = "leased", !.claim_count = r.claim_count + 1,
                       !.lease_fence = r.lease_fence + 1, !.lease_owner = w,
                       !.lease_left = LeaseTTL, !.lease_delivery_started = 0,
                       !.baseline = r.request_starts, !.reservation = p,
                       !.next_request_ordinal = r.next_request_ordinal + 1,
                       !.last_status = "CLAIMED"]
  <1>1. TypeInv /\ r \in JobRecord /\ CountersValid(r)
    BY DEF RecordInv, TypeInv, TypeOK, Sound
  <1>2. job' = [job EXCEPT ![j] = q] /\ slots' = slots /\ r.state = "ready"
    BY DEF Claim
  <1> HIDE DEF p
  <1>3. /\ q.lease_fence = r.lease_fence + 1
        /\ q.last_stage_fence = r.last_stage_fence
        /\ r.last_stage_fence =< r.lease_fence
        /\ r.last_stage_fence \in Nat /\ r.lease_fence \in Nat
    BY <1>1 DEF JobRecord, CountersValid
  <1>4. ~HasSlot(r) /\ ~HasSlot(q)
    BY <1>2, <1>3 DEF HasSlot, StageFrozen
  <1>5. SameSlot(r, q)
    BY <1>4 DEF SameSlot
  <1> HIDE DEF q
  <1> QED
    BY <1>1, <1>2, <1>5, OwnSlot

\* Calls under a lease keep every slot owned.
LEMMA CallSlots ==
    ASSUME LedgerInv, SlotInv, NEW w \in Workers, NEW j \in Jobs, NEW f \in Nat,
           LeaseCalls(w, j, f)
    PROVE  SlotInv'
  <1> DEFINE r == job[j]
  <1>1. TypeInv /\ RecordInv /\ r \in JobRecord /\ Sound(r, stage[j])
    BY DEF LedgerInv, RecordInv, TypeInv, TypeOK
  <1>2. ASSUME NEW g \in Groups, NEW k \in RequestKinds, Reserve(w, j, f, g, k)
        PROVE  SlotInv'
    <2> DEFINE p == PendingReservation(j, g, k, "reserve")
               q == [r EXCEPT !.reservation = p,
                              !.next_request_ordinal = r.next_request_ordinal + 1]
    <2>1. job' = [job EXCEPT ![j] = q] /\ slots' = slots
      BY <1>2 DEF Reserve
    <2> HIDE DEF p
    <2>2. /\ q.state = r.state /\ q.lease_fence = r.lease_fence
          /\ q.last_stage_fence = r.last_stage_fence
          /\ q.active_stage = r.active_stage
      BY <1>1 DEF JobRecord
    <2> HIDE DEF q
    <2> QED
      BY <1>1, <2>1, <2>2, SameFields, OwnSlot
  <1>3. ASSUME NEW heard \in BOOLEAN, Start(w, j, f, heard)
        PROVE  SlotInv'
    <2> DEFINE p == [r.reservation EXCEPT !.state = "started"]
               attempts == r.delivery_attempts + 1 - r.lease_delivery_started
               fence == IF r.reservation.kind = "document" THEN f
                        ELSE r.document_fence
               q == [r EXCEPT !.delivery_attempts = attempts,
                              !.lease_delivery_started = 1,
                              !.request_starts = r.request_starts + 1,
                              !.reservation = p, !.document_fence = fence]
    <2>1. job' = [job EXCEPT ![j] = q] /\ slots' = slots
      BY <1>3 DEF Start, StartedRecord
    <2> HIDE DEF p, attempts, fence
    <2>2. /\ q.state = r.state /\ q.lease_fence = r.lease_fence
          /\ q.last_stage_fence = r.last_stage_fence
          /\ q.active_stage = r.active_stage
      BY <1>1 DEF JobRecord
    <2> HIDE DEF q
    <2> QED
      BY <1>1, <2>1, <2>2, SameFields, OwnSlot
  <1>4. CASE EndReservation(w, j, f)
    <2> DEFINE q == [r EXCEPT !.reservation = NoReservation]
    <2>1. job' = [job EXCEPT ![j] = q] /\ slots' = slots
      BY <1>4 DEF EndReservation
    <2>2. /\ q.state = r.state /\ q.lease_fence = r.lease_fence
          /\ q.last_stage_fence = r.last_stage_fence
          /\ q.active_stage = r.active_stage
      BY <1>1 DEF JobRecord
    <2> HIDE DEF q
    <2> QED
      BY <1>1, <2>1, <2>2, SameFields, OwnSlot
  <1>5. ASSUME NEW heard \in BOOLEAN, Renew(w, j, f, heard)
        PROVE  SlotInv'
    <2> DEFINE left == RenewedLease(j)
               q == [r EXCEPT !.lease_left = left]
    <2>1. job' = [job EXCEPT ![j] = q] /\ slots' = slots
      BY <1>5 DEF Renew
    <2> HIDE DEF left
    <2>2. /\ q.state = r.state /\ q.lease_fence = r.lease_fence
          /\ q.last_stage_fence = r.last_stage_fence
          /\ q.active_stage = r.active_stage
      BY <1>1 DEF JobRecord
    <2> HIDE DEF q
    <2> QED
      BY <1>1, <2>1, <2>2, SameFields, OwnSlot
  <1>6. CASE BeginStage(w, j, f)
    BY <1>1, <1>6, BeginSlot
  <1>7. CASE SealStage(w, j, f)
    <2>1. slots' = slots /\ job' = job
      BY <1>7 DEF SealStage
    <2> QED
      BY <2>1, SameFields, SlotsKept
  <1>8. CASE AbortStage(w, j, f)
    <2>1. r.active_stage /\ r.last_stage_fence = f
      BY <1>8 DEF AbortStage, OwnsStage
    <2>2. f > 0
      BY <1>1, <2>1 DEF Sound, StageValid, StageFrozen
    <2> QED
      BY <1>1, <1>8, <2>2, AbortSlot
  <1>9. ASSUME NEW reason \in BlockReasons, Backpressure(w, j, f, reason)
        PROVE  SlotInv'
    <2> DEFINE left == BlockedFor(j)
               q == [r EXCEPT !.blocked = reason, !.blocked_left = left]
    <2>1. job' = [job EXCEPT ![j] = q] /\ slots' = slots
      BY <1>9 DEF Backpressure
    <2> HIDE DEF left
    <2>2. /\ q.state = r.state /\ q.lease_fence = r.lease_fence
          /\ q.last_stage_fence = r.last_stage_fence
          /\ q.active_stage = r.active_stage
      BY <1>1 DEF JobRecord
    <2> HIDE DEF q
    <2> QED
      BY <1>1, <2>1, <2>2, SameFields, OwnSlot
  <1>10. ASSUME NEW D \in SUBSET Jobs, NEW A \in SUBSET Jobs, Commit(w, j, f, D, A)
         PROVE  SlotInv'
    <2> DEFINE fresh == Fresh(D, j)
    <2>1. slots' = SlotsWithout({j}) /\ {j} \in SUBSET Jobs
      BY <1>10 DEF Commit
    <2>2. /\ \A i \in fresh : /\ job[i].state = "absent"
                              /\ job'[i].state = "ready"
                              /\ job[i].last_reason # "published"
                              /\ job'[i].last_reason # "published"
          /\ \A i \in Jobs \ (fresh \cup {j}) : job'[i] = job[i]
      BY <1>10, CommitRecords
    <2>3. job'[j].state = "completed"
      BY <1>10, CommitRecords
    <2> HIDE DEF fresh
    <2>4. \A i \in fresh : SameSlot(job[i], job'[i])
      BY <2>2 DEF SameSlot, HasSlot
    <2>5. \A i \in Jobs \ (fresh \cup {j}) : SameSlot(job[i], job'[i])
      BY <2>2, SameFields
    <2>6. \A i \in {j} : ~HasSlot(job'[i])
      BY <2>3 DEF HasSlot
    <2> QED
      BY <2>1, <2>4, <2>5, <2>6, SlotsLeft
  <1> QED
    BY <1>2, <1>3, <1>4, <1>5, <1>6, <1>7, <1>8, <1>9, <1>10 DEF LeaseCalls

\* Every step keeps the slots owned.
LEMMA SlotStep ==
    ASSUME LedgerInv, SlotInv, [Next]_vars
    PROVE  SlotInv'
  <1>1. TypeInv /\ RecordInv /\ job \in [Jobs -> JobRecord]
    BY DEF LedgerInv, RecordInv, TypeInv, TypeOK
  <1>2. ASSUME NEW b \in SUBSET Jobs, PromoteDue(b)
        PROVE  SlotInv'
    <2>1. /\ slots' = slots
          /\ \A i \in Jobs \ b : job'[i] = job[i]
          /\ \A i \in b : job'[i] = [job[i] EXCEPT !.state = "ready"]
          /\ \A i \in b : job[i].state = "delayed"
      BY <1>2 DEF PromoteDue, IsBatch, DueRetries, InState
    <2>2. \A i \in b : job'[i].state = "ready"
      BY ZenonT(60), <1>1, <2>1 DEF JobRecord
    <2>3. \A i \in b : SameSlot(job[i], job'[i])
      BY <2>1, <2>2 DEF SameSlot, HasSlot
    <2>4. \A i \in Jobs \ b : SameSlot(job[i], job'[i])
      BY <2>1, SameFields
    <2> QED
      BY <2>1, <2>3, <2>4, SlotsKept
  <1>3. CASE Tick
    <2> SUFFICES ASSUME NEW i \in Jobs PROVE SameSlot(job[i], job'[i])
      BY <1>3, SlotsKept DEF Tick
    <2> DEFINE r == job[i]
               a == Less(r.lease_left)
               d == Less(r.not_before_left)
               e == Less(r.blocked_left)
               q == [r EXCEPT !.lease_left = a, !.not_before_left = d,
                              !.blocked_left = e]
    <2>1. r \in JobRecord /\ job'[i] = q
      BY <1>1, <1>3 DEF Tick
    <2> HIDE DEF a, d, e
    <2>2. /\ q.state = r.state /\ q.lease_fence = r.lease_fence
          /\ q.last_stage_fence = r.last_stage_fence
          /\ q.active_stage = r.active_stage
      BY <2>1 DEF JobRecord
    <2> HIDE DEF q
    <2> QED
      BY <2>1, <2>2, SameFields
  <1>4. CASE RunTurns \/ Listens
    <2>1. slots' = slots /\ job' = job
      BY <1>1, <1>4, TurnsStay DEF Listens
    <2> QED
      BY <2>1, SameFields, SlotsKept
  <1> QED
    BY <1>1, <1>2, <1>3, <1>4, StepKinds, SettlementSlots, CallSlots, ClaimSlots

-----------------------------------------------------------------------------
(* A finalized run.                                                        *)

\* A finalized run is over and has no lease, and unless a budget ended it no job
\* of it is open.
EndInv ==
    run.finalized =>
        /\ run.state # "active" /\ InState("leased") = {}
        /\ run.state # "budget_exhausted" => JobsIn(Jobs, OpenStates) = {}

\* What a finalized run is free of follows: without a lease there is neither a
\* request nor a slot.
LEMMA EndIsClean ==
    ASSUME LedgerInv, SlotInv, EndInv
    PROVE  FinalizedIsClean
  <1> SUFFICES ASSUME run.finalized
               PROVE  /\ InState("leased") = {} /\ slots = {}
                      /\ \A s \in Scopes : scope[s].active = 0
                      /\ run.state # "budget_exhausted" =>
                            InState("ready") \cup InState("delayed") = {}
    BY DEF FinalizedIsClean
  <1>1. \A j \in Jobs : job[j].state # "leased"
    BY DEF EndInv, InState
  <1>2. slots = {}
    BY <1>1, SlotMembers DEF SlotInv, HasSlot
  <1>3. ASSUME NEW s \in Scopes
        PROVE  scope[s].active = 0
    <2>1. \A j \in Jobs : job[j].reservation.state = "none"
      BY <1>1 DEF LedgerInv, RecordInv, Sound, LeaseValid, NoReservation
    <2>2. Held(Payers(s), "pending") = {} /\ Held(Payers(s), "started") = {}
      BY <2>1 DEF Held
    <2>3. Cardinality({}) = 0
      BY FS_EmptySet
    <2>4. /\ scope[s].pending = Cardinality(Held(Payers(s), "pending"))
          /\ scope[s].started = Cardinality(Held(Payers(s), "started"))
          /\ scope[s].active = scope[s].pending + scope[s].started
      BY DEF LedgerInv, CountInv, RequestsCounted
    <2>5. scope[s].pending = 0 /\ scope[s].started = 0
      BY <2>2, <2>3, <2>4
    <2> QED
      BY <2>4, <2>5
  <1>4. run.state # "budget_exhausted" =>
            InState("ready") \cup InState("delayed") = {}
    BY DEF EndInv, JobsIn, InState, OpenStates
  <1> QED
    BY <1>2, <1>3, <1>4 DEF EndInv

\* CJ2_FINALIZE_RUN ends a run only when nothing of it is held.
LEMMA FinalizeEnds ==
    ASSUME LedgerInv, FinalizeRun
    PROVE  EndInv'
  <1> DEFINE st == Verdict[1]
             why == Verdict[2]
  <1>1. run \in RunRecord
    BY DEF LedgerInv, RecordInv, TypeInv, TypeOK
  <1>2. st \in {"cancelled", "completed", "budget_exhausted"}
    BY DEF FinalizeRun, Verdict
  <1>3. st # "budget_exhausted" => run.open_job_count = 0
    BY <1>2 DEF FinalizeRun, Verdict
  <1>4. /\ run' = [run EXCEPT !.state = st, !.terminal_reason = why,
                              !.finalized = TRUE]
        /\ InState("leased") = {} /\ job' = job
    BY DEF FinalizeRun, Drained
  <1> HIDE DEF st, why
  <1>5. run'.state = st
    BY <1>1, <1>4 DEF RunRecord
  <1>6. run.open_job_count = 0 => JobsIn(Jobs, OpenStates) = {}
    <2>1. JobsIn(Jobs, OpenStates) \in SUBSET Jobs
      BY DEF JobsIn
    <2> QED
      BY <2>1, CardinalityOfJobs, FS_EmptySet DEF LedgerInv, CountInv, JobsCounted
  <1>7. InState("leased")' = {}
    BY <1>4 DEF InState
  <1>8. JobsIn(Jobs, OpenStates)' = JobsIn(Jobs, OpenStates)
    BY <1>4 DEF JobsIn
  <1> QED
    BY <1>2, <1>3, <1>5, <1>6, <1>7, <1>8 DEF EndInv

\* A step that leaves the run as it is, leases no job and opens none keeps it so.
LEMMA EndKept ==
    ASSUME EndInv, RunStays,
           \A i \in Jobs : /\ job'[i].state = "leased" => job[i].state = "leased"
                           /\ job'[i].state \in OpenStates =>
                                 job[i].state \in OpenStates
    PROVE  EndInv'
  <1>1. InState("leased")' \subseteq InState("leased")
    BY DEF InState
  <1>2. JobsIn(Jobs, OpenStates)' \subseteq JobsIn(Jobs, OpenStates)
    BY DEF JobsIn
  <1> QED
    BY <1>1, <1>2 DEF EndInv, RunStays

\* No step takes anything up again after the run is finalized.
LEMMA EndStep ==
    ASSUME LedgerInv, EndInv, [Next]_vars
    PROVE  EndInv'
  <1>1. TypeInv /\ job \in [Jobs -> JobRecord]
    BY DEF LedgerInv, RecordInv, TypeInv, TypeOK
  <1>2. CASE Settlement
    <2>1. PICK D \in SUBSET Jobs, n \in Nat : \E post : Settling(D, post, n)
      BY <1>2 DEF Settlement
    <2>2. PICK post : Settling(D, post, n)
      BY <2>1
    <2>3. /\ RunStays
          /\ \A i \in D : job'[i] = post[i]
          /\ \A i \in Jobs \ D : job'[i] = job[i]
      BY <1>1, <2>2, CountersOnly DEF Settling, Settle
    <2>4. \A i \in D : post[i].state # "leased" /\ job[i].state \in OpenStates
      BY <2>2 DEF Settling, Ends, TerminalStates
    <2> QED
      BY <2>3, <2>4, EndKept
  <1>3. ASSUME RunStays, run.finalized => FALSE
        PROVE  EndInv'
    BY <1>3 DEF RunStays, EndInv
  <1>4. ASSUME NEW w \in Workers, NEW j \in Jobs, NEW f \in Nat,
               LeaseCalls(w, j, f)
        PROVE  EndInv'
    <2>1. job[j].state = "leased"
      BY <1>4 DEF LeaseCalls, Reserve, Start, EndReservation, Renew, BeginStage,
                  SealStage, AbortStage, Backpressure, Commit, OwnsStage,
                  StageReady, Holds
    <2>2. InState("leased") # {}
      BY <2>1 DEF InState
    <2> QED
      BY <1>1, <1>3, <1>4, <2>2, CallsStay DEF EndInv
  <1>5. ASSUME NEW w \in Workers, NEW j \in Jobs, NEW k \in RequestKinds,
               NEW heard \in BOOLEAN, NEW prior, Claim(w, j, prior, k, heard)
        PROVE  EndInv'
    <2>1. /\ Charge(SourceGroup[j], 1) /\ 1 \in Nat /\ SourceGroup[j] \in Groups
          /\ run.state = "active"
      BY <1>5, SetsAssumption DEF Claim, Authorized
    <2> QED
      BY <1>1, <1>3, <2>1, CountersOnly DEF EndInv
  <1>6. ASSUME NEW b \in SUBSET Jobs, PromoteDue(b)
        PROVE  EndInv'
    <2>1. RunStays /\ run.state = "active"
      BY <1>6 DEF PromoteDue, Authorized, RunStays
    <2> QED
      BY <1>3, <2>1 DEF EndInv
  <1>7. CASE RunTurns
    <2>1. CASE FinalizeRun
      BY <2>1, FinalizeEnds
    <2>2. CASE RunStays
      BY <1>1, <1>7, <2>2, TurnsStay, EndKept
    <2>3. CASE run.state = "active" /\ run'.finalized = run.finalized
      BY <2>3 DEF EndInv
    <2> QED
      BY <1>1, <1>7, <2>1, <2>2, <2>3, TurnsStay
  <1>8. CASE Tick
    <2>1. RunStays
      BY <1>8 DEF Tick, RunStays
    <2>2. ASSUME NEW i \in Jobs
          PROVE  job'[i].state = job[i].state
      <3> DEFINE a == Less(job[i].lease_left)
                 d == Less(job[i].not_before_left)
                 e == Less(job[i].blocked_left)
      <3>1. job'[i] = [job[i] EXCEPT !.lease_left = a, !.not_before_left = d,
                                     !.blocked_left = e]
        BY <1>8 DEF Tick
      <3> HIDE DEF a, d, e
      <3> QED
        BY <1>1, <3>1 DEF JobRecord
    <2> QED
      BY <2>1, <2>2, EndKept
  <1>9. CASE Listens
    <2>1. RunStays /\ job' = job
      BY <1>9 DEF Listens, RunStays
    <2> QED
      BY <2>1, EndKept
  <1> QED
    BY <1>2, <1>4, <1>5, <1>6, <1>7, <1>8, <1>9, StepKinds

-----------------------------------------------------------------------------
(* A run that is withdrawn.                                                *)

\* What WithdrawnOnlyShrinks asks of a step.
Shrinks ==
    /\ run'.request_starts = run.request_starts
    /\ run'.reservation_creations = run.reservation_creations
    /\ run'.commits = run.commits
    /\ run'.open_job_count =< run.open_job_count
    /\ \A s \in Scopes : scope'[s].active =< scope[s].active
    /\ \A j \in Jobs : job'[j].lease_left =< job[j].lease_left

\* A settlement opens no job, holds no request and renews no lease.
LEMMA SettlementShrinks ==
    ASSUME LedgerInv, LedgerInv', Settlement
    PROVE  Shrinks
  <1>1. PICK D \in SUBSET Jobs, n \in Nat : \E post : Settling(D, post, n)
    BY DEF Settlement
  <1>2. PICK post : Settling(D, post, n)
    BY <1>1
  <1> DEFINE m(st) == Entering(D, post, st)
  <1>3. /\ run'.open_job_count =
               run.open_job_count - (m("completed") + m("dead") + m("cancelled"))
        /\ run'.request_starts = run.request_starts
        /\ run'.reservation_creations = run.reservation_creations
        /\ run'.commits = run.commits /\ Releases(D)
    BY <1>2, SettleFields
  <1>4. \A st : m(st) \in Nat
    <2>1. \A st : {j \in D : post[j].state = st} \in SUBSET Jobs
      OBVIOUS
    <2> QED
      BY <2>1, CardinalityOfJobs DEF Entering
  <1>5. run.open_job_count \in Int
    BY DEF LedgerInv, RecordInv, TypeInv, TypeOK, RunRecord
  <1> HIDE DEF m
  <1>6. run'.open_job_count =< run.open_job_count
    <2> DEFINE a == m("completed")
               b == m("dead")
               c == m("cancelled")
    <2>1. a \in Nat /\ b \in Nat /\ c \in Nat
      BY <1>4
    <2>2. run'.open_job_count = run.open_job_count - (a + b + c)
      BY <1>3
    <2> HIDE DEF a, b, c
    <2> QED
      BY <1>5, <2>1, <2>2
  <1>7. \A s \in Scopes : scope'[s].active =< scope[s].active
    BY <1>3, ReleaseRequests
  <1>8. ASSUME NEW i \in Jobs
        PROVE  job'[i].lease_left =< job[i].lease_left
    <2>1. job[i].lease_left \in Nat
      BY DEF LedgerInv, RecordInv, TypeInv, TypeOK, JobRecord
    <2>2. i \notin D => job'[i] = job[i]
      BY <1>2, SettleFields
    <2>3. CASE i \in D
      <3>1. job'[i] = post[i] /\ post[i].state # "leased"
        BY <1>2, <2>3 DEF Settling, Settle, Ends, TerminalStates
      <3>2. LeaseValid(job'[i])
        BY DEF LedgerInv, RecordInv, Sound
      <3>3. job'[i].lease_left = 0
        BY <3>1, <3>2 DEF LeaseValid
      <3> QED
        BY <2>1, <3>3
    <2> QED
      BY <2>1, <2>2, <2>3
  <1> QED
    BY <1>3, <1>6, <1>7, <1>8 DEF Shrinks

\* The calls that a withdrawn run still answers give a request back, or the pages
\* of a stage.
LEMMA CallShrinks ==
    ASSUME LedgerInv, ~Authorized, NEW w \in Workers, NEW j \in Jobs,
           NEW f \in Nat, LeaseCalls(w, j, f)
    PROVE  Shrinks
  <1> DEFINE r == job[j]
  <1>1. TypeInv /\ job \in [Jobs -> JobRecord] /\ r \in JobRecord
    BY DEF LedgerInv, RecordInv, TypeInv, TypeOK
  <1>2. ASSUME NEW q, job' = [job EXCEPT ![j] = q], q.lease_left = r.lease_left,
               NEW i \in Jobs
        PROVE  job'[i].lease_left =< job[i].lease_left
    <2>1. job'[i].lease_left = job[i].lease_left
      BY <1>1, <1>2
    <2>2. job[i].lease_left \in Nat
      BY <1>1 DEF JobRecord
    <2> QED
      BY <2>1, <2>2
  <1>3. CASE EndReservation(w, j, f)
    <2> DEFINE q == [r EXCEPT !.reservation = NoReservation]
    <2>1. /\ job' = [job EXCEPT ![j] = q] /\ {j} \in SUBSET Jobs
          /\ run' = ReleasedRun({j}) /\ group' = ReleasedGroups({j})
          /\ scope' = ReleasedScopes({j})
      BY <1>3 DEF EndReservation
    <2>2. q.lease_left = r.lease_left /\ q.reservation.state = "none"
      BY <1>1 DEF JobRecord, NoReservation
    <2> HIDE DEF q
    <2>3. job'[j] = q /\ \A i \in Jobs \ {j} : job'[i] = job[i]
      BY <1>1, <2>1
    <2>4. Releases({j})
      BY <1>1, <2>1, <2>2, <2>3, ReleasedFields DEF Releases
    <2>5. \A s \in Scopes : scope'[s].active =< scope[s].active
      BY <2>1, <2>4, ReleaseRequests
    <2>6. /\ run'.request_starts = run.request_starts
          /\ run'.reservation_creations = run.reservation_creations
          /\ run'.commits = run.commits
          /\ run'.open_job_count = run.open_job_count
      <3> DEFINE left == ReleasedRun({j})
      <3>1. /\ left.request_starts = run.request_starts
            /\ left.reservation_creations = run.reservation_creations
            /\ left.commits = run.commits
            /\ left.open_job_count = run.open_job_count
        BY <1>1, <2>1, ReleasedFields
      <3> HIDE DEF left
      <3> QED
        BY <2>1, <3>1 DEF left
    <2>7. run.open_job_count \in Int
      BY <1>1 DEF TypeInv, TypeOK, RunRecord
    <2>8. \A i \in Jobs : job'[i].lease_left =< job[i].lease_left
      BY <1>2, <2>1, <2>2
    <2> QED
      BY <2>5, <2>6, <2>7, <2>8 DEF Shrinks
  <1>4. CASE AbortStage(w, j, f)
    <2> DEFINE q == [r EXCEPT !.active_stage = FALSE, !.last_reason = "none",
                              !.last_status = "STAGE_ABORTED"]
    <2>1. job' = [job EXCEPT ![j] = q] /\ run' = run /\ scope' = scope
      BY <1>4 DEF AbortStage
    <2>2. q.lease_left = r.lease_left
      BY <1>1 DEF JobRecord
    <2>3. run.open_job_count \in Int /\ \A s \in Scopes : scope[s].active \in Int
      BY <1>1, CounterTypes DEF TypeInv, TypeOK, RunRecord
    <2> HIDE DEF q
    <2>4. \A i \in Jobs : job'[i].lease_left =< job[i].lease_left
      BY <1>2, <2>1, <2>2
    <2> QED
      BY <2>1, <2>3, <2>4 DEF Shrinks
  <1> QED
    BY <1>3, <1>4 DEF LeaseCalls, Reserve, Start, Renew, BeginStage, SealStage,
                      Backpressure, Commit

\* Every step of a withdrawn run only gives back.
LEMMA ShrinkStep ==
    ASSUME LedgerInv, LedgerInv', ~Authorized, [Next]_vars
    PROVE  Shrinks
  <1>1. /\ TypeInv /\ job \in [Jobs -> JobRecord] /\ run \in RunRecord
        /\ run.open_job_count \in Int
        /\ \A s \in Scopes : scope[s].active \in Int
        /\ \A j \in Jobs : job[j].lease_left \in Nat
    BY CounterTypes
       DEF LedgerInv, RecordInv, TypeInv, TypeOK, RunRecord, JobRecord
  <1>2. ASSUME run'.request_starts = run.request_starts,
               run'.reservation_creations = run.reservation_creations,
               run'.commits = run.commits,
               run'.open_job_count = run.open_job_count,
               \A s \in Scopes : scope'[s].active = scope[s].active,
               \A j \in Jobs : job'[j].lease_left =< job[j].lease_left
        PROVE  Shrinks
    BY <1>1, <1>2 DEF Shrinks
  <1>3. CASE RunTurns
    BY <1>1, <1>2, <1>3, TurnsStay DEF NothingPublished
  <1>4. CASE Listens
    BY <1>1, <1>2, <1>4 DEF Listens
  <1>5. CASE Tick
    <2>1. run' = run
      BY <1>5 DEF Tick
    <2>2. ASSUME NEW s \in Scopes
          PROVE  scope'[s].active = scope[s].active
      <3> DEFINE left == Less(scope[s].next_left)
      <3>1. /\ scope'[s] = [scope[s] EXCEPT !.next_left = left]
            /\ scope[s] \in ScopeRecord
        BY <1>1, <1>5 DEF Tick, TypeInv, TypeOK
      <3> HIDE DEF left
      <3> QED
        BY <3>1 DEF ScopeRecord
    <2>3. ASSUME NEW i \in Jobs
          PROVE  job'[i].lease_left =< job[i].lease_left
      <3> DEFINE a == Less(job[i].lease_left)
                 d == Less(job[i].not_before_left)
                 e == Less(job[i].blocked_left)
      <3>1. job'[i] = [job[i] EXCEPT !.lease_left = a, !.not_before_left = d,
                                     !.blocked_left = e]
        BY <1>5 DEF Tick
      <3>2. a =< job[i].lease_left
        BY <1>1 DEF Less
      <3> HIDE DEF a, d, e
      <3>3. job'[i].lease_left = a
        BY <1>1, <3>1 DEF JobRecord
      <3> QED
        BY <3>2, <3>3
    <2> QED
      BY <1>2, <2>1, <2>2, <2>3
  <1>6. ASSUME \/ \E w \in Workers, j \in Jobs, k \in RequestKinds,
                      heard \in BOOLEAN : \E prior : Claim(w, j, prior, k, heard)
               \/ \E b \in SUBSET Jobs : PromoteDue(b)
        PROVE  FALSE
    BY ZenonT(60), <1>6 DEF Claim, PromoteDue
  <1> QED
    BY <1>3, <1>4, <1>5, <1>6, StepKinds, SettlementShrinks, CallShrinks

-----------------------------------------------------------------------------
(* The theorems.                                                           *)

WholeInv == LedgerInv /\ QuietInv /\ SlotInv /\ PublishedIsVisited /\ EndInv

\* At the start there is no slot, nothing is published and the run is active.
LEMMA WholeInit == Init => WholeInv
  <1> SUFFICES ASSUME Init PROVE WholeInv
    OBVIOUS
  <1>1. LedgerInv /\ QuietInv
    BY LedgerInit, QuietInit
  <1>2. /\ slots = {}
        /\ \A j \in Jobs : /\ job[j].state \in {"ready", "absent"}
                           /\ job[j].last_reason = "none"
        /\ run.finalized = FALSE
    BY DEF Init, InitialRecord, AbsentRecord
  <1>3. SlotInv
    <2>1. IsFiniteSet(slots) /\ Cardinality(slots) = 0
      BY <1>2, FS_EmptySet
    <2>2. \A j \in Jobs : ~HasSlot(job[j])
      BY <1>2 DEF HasSlot
    <2>3. Cardinality(slots) =< StageSlots
      BY <2>1, BoundsAssumption
    <2> QED
      BY <1>2, <2>1, <2>2, <2>3, SlotMembers DEF SlotInv
  <1>4. PublishedIsVisited /\ EndInv
    BY <1>2 DEF PublishedIsVisited, EndInv
  <1> QED
    BY <1>1, <1>3, <1>4 DEF WholeInv

\* Every step keeps the whole of it.
LEMMA WholeStep ==
    ASSUME WholeInv, [Next]_vars
    PROVE  WholeInv'
  <1>1. LedgerInv /\ QuietInv /\ SlotInv /\ PublishedIsVisited /\ EndInv
    BY DEF WholeInv
  <1>2. LedgerInv' /\ QuietInv'
    BY <1>1, LedgerStep, QuietStep
  <1>3. SlotInv' /\ PublishedIsVisited' /\ EndInv'
    BY <1>1, <1>2, SlotStep, VisitedStep, EndStep
  <1> QED
    BY <1>2, <1>3 DEF WholeInv

\* It holds at all times.
LEMMA WholeSound == Spec => []WholeInv
  <1>1. WholeInv /\ [Next]_vars => WholeInv'
    BY WholeStep
  <1> QED
    BY <1>1, WholeInit, PTL DEF Spec

\* No stage slot is leaked and none is lost: the stage_slots hash holds the stage
\* of every current lease that has had one, active or aborted, and nothing else, and
\* never more than StageSlots of them.
THEOREM SlotsAlwaysOwned == Spec => []SlotsOwned
  <1>1. WholeInv => SlotsOwned
    BY DEF WholeInv, SlotInv
  <1> QED
    BY <1>1, WholeSound, PTL

\* A page that any job has published stays visited at that job's depth or above,
\* whatever is committed later and under whichever aliases.
THEOREM PublishedStaysVisited == Spec => []PublishedIsVisited
  <1>1. WholeInv => PublishedIsVisited
    BY DEF WholeInv
  <1> QED
    BY <1>1, WholeSound, PTL

\* A finalized run holds no lease, no slot and no unit of any rate scope, and has
\* an open job only if a budget ended it.
THEOREM FinalizedStaysClean == Spec => []FinalizedIsClean
  <1>1. WholeInv => FinalizedIsClean
    BY EndIsClean DEF WholeInv
  <1> QED
    BY <1>1, WholeSound, PTL

\* Once a run is cancelled or its authorization has ended, no step of anyone starts
\* or reserves a request, publishes a page, opens a job or extends a lease.
THEOREM WithdrawalOnlyShrinks == Spec => WithdrawnOnlyShrinks
  <1>1. ASSUME WholeInv, WholeInv', [Next]_vars
        PROVE  [run.state # "active" \/ ~run.authorized => Shrinks]_vars
    BY <1>1, ShrinkStep DEF WholeInv, Authorized
  <1>2. WithdrawnOnlyShrinks <=>
            [][run.state # "active" \/ ~run.authorized => Shrinks]_vars
    BY DEF WithdrawnOnlyShrinks, Shrinks
  <1> QED
    BY <1>1, <1>2, WholeSound, PTL DEF Spec
=============================================================================

--------------------------- MODULE CrawlJobsSafety ---------------------------
(***************************************************************************)
(* What the Crawl Jobs V2 ledger promises.                                 *)
(*                                                                         *)
(* Every script re-validates the records it reads before it writes, and    *)
(* refuses to act on a record or on a set of counters it holds impossible  *)
(* (INVALID_STATE, COUNTER_CORRUPT, STATE_INDEX_CORRUPT, STAGE_INVALID).   *)
(* A legal sequence of calls that reached such a record would wedge its    *)
(* run: no script could ever touch it again.  The actions of CrawlJobs do  *)
(* not test these relations, so the invariants below show that no sequence *)
(* of calls, crashes and expiries leads there.                             *)
(***************************************************************************)
EXTENDS CrawlJobs

-----------------------------------------------------------------------------
(* The relations inside one job record.                                    *)

Delivering(r) == IF r.request_starts > r.baseline THEN 1 ELSE 0
StageFrozen(r) == r.last_stage_fence > 0 /\ r.last_stage_fence = r.lease_fence

\* The record of a lease whose stage was aborted.
IsAborted(r) ==
    /\ r.state = "leased" /\ r.reservation.state = "none"
    /\ ~r.active_stage /\ StageFrozen(r)
    /\ r.document_fence = r.lease_fence
    /\ r.lease_delivery_started = 1
    /\ r.last_reason = "none" /\ r.last_status = "STAGE_ABORTED"

CountersValid(r) ==
    /\ r.lease_fence = r.claim_count
    /\ r.delivery_attempts =< MaxDeliveryAttempts
    /\ r.request_starts >= r.delivery_attempts
    /\ r.request_starts =< JobStartLimit
    /\ r.retry_count =< r.delivery_attempts
    /\ r.retry_count < MaxDeliveryAttempts
    /\ r.pre_io_recoveries =< MaxPreIoRecoveries
    /\ r.pre_io_recoveries + r.delivery_attempts =< r.claim_count
    /\ r.next_request_ordinal \in 1 .. MaxReservations + 1
    /\ r.next_request_ordinal > r.claim_count
    /\ r.next_request_ordinal > r.request_starts
    /\ r.last_stage_fence =< r.lease_fence
    /\ r.document_fence =< r.lease_fence

BaselineValid(r) ==
    /\ r.baseline =< r.request_starts /\ r.baseline < JobStartLimit
    /\ r.claim_count = 0 => r.request_starts = 0
    /\ r.delivery_attempts >= Delivering(r) + (IF r.baseline > 0 THEN 1 ELSE 0)
    /\ r.delivery_attempts =< r.baseline + Delivering(r)
    /\ r.lease_fence > 0 =>
          /\ r.delivery_attempts - Delivering(r) < r.lease_fence
          /\ r.delivery_attempts - Delivering(r) < MaxDeliveryAttempts

LeaseValid(r) ==
    /\ r.state = "leased" =>
          /\ r.lease_owner # NoWorker /\ r.lease_fence > 0
          /\ r.lease_delivery_started = 1 <=> r.request_starts > r.baseline
    /\ r.state # "leased" =>
          /\ r.lease_owner = NoWorker /\ r.lease_left = 0
          /\ r.lease_delivery_started = 0 /\ r.reservation = NoReservation
          /\ ~r.active_stage
    /\ r.state # "delayed" => r.not_before_left = 0

StageValid(r) ==
    /\ StageFrozen(r) =>
          /\ r.request_starts > r.baseline
          /\ r.state = "leased" => /\ r.reservation.state = "none"
                                   /\ r.lease_delivery_started = 1
    /\ r.active_stage => r.state = "leased" /\ StageFrozen(r)
    /\ \/ r.last_status = "STAGE_ABORTED"
       \/ r.state = "leased" /\ StageFrozen(r) /\ ~r.active_stage
       => IsAborted(r)
    /\ r.blocked # "none" => r.active_stage \/ IsAborted(r)

FailureValid(r) ==
    /\ r.last_status \in {NoStatus, "DEAD"}
    /\ r.last_reason \in DeadReasons \cup
           {"retry_exhausted", "pre_io_recovery_exhausted"}
    /\ r.last_reason = "retry_exhausted" =>
          /\ r.delivery_attempts = MaxDeliveryAttempts
          /\ r.last_failure_reason \in
                 RetryReasons \cup {"lease_expired_after_io"}
    /\ r.last_reason = "pre_io_recovery_exhausted" =>
          /\ r.delivery_attempts < MaxDeliveryAttempts
          /\ r.last_failure_reason = r.last_reason
    /\ r.last_reason \in DeadReasons => r.last_failure_reason = r.last_reason

ReasonsValid(r) ==
    /\ r.last_reason = "published" =>
          /\ r.state = "completed" /\ StageFrozen(r)
          /\ r.document_fence = r.last_stage_fence
    /\ r.state = "completed" =>
          <<r.last_reason, r.last_status>> \in
              {<<"published", "COMMITTED">>,
               <<"already_visited", "VISITED_COMPLETED">>,
               <<"already_visited", "COMPLETED">>}
    /\ r.pre_io_recoveries = MaxPreIoRecoveries <=>
          r.state = "dead" /\ r.last_reason = "pre_io_recovery_exhausted"
    /\ r.last_reason = "retry_exhausted" => r.state = "dead"
    /\ r.state = "dead" => FailureValid(r)
    /\ r.state = "cancelled" =>
          /\ r.last_reason \in CancelReasons \cup {"authorization_expired"}
          /\ r.last_status \in {NoStatus, "CANCELLED"}

\* ledger_job.lua's validator accepts every job record that any sequence of
\* claims, starts, stages, outcomes, crashes and recoveries can produce: three
\* deliveries at most, no lease or reservation outliving the leased state, a
\* request transcript frozen under a stage, reasons that fit the state.
JobValid ==
    \A j \in Jobs : LET r == job[j]
                    IN  /\ CountersValid(r) /\ BaselineValid(r) /\ LeaseValid(r)
                        /\ StageValid(r) /\ ReasonsValid(r)

-----------------------------------------------------------------------------
(* The relations between the job records and the shared counters.          *)

\* The sum of a function of natural numbers, as the number of units it counts:
\* the pairs of an argument x and a number between 1 and f[x].
Units(f) == UNION {{x} \X (1 .. f[x]) : x \in DOMAIN f}
Total(f) == Cardinality(Units(f))

\* ledger_run.lua's validator accepts the run's counters at all times: they
\* equal the sums and the cardinalities over the jobs they summarize, so no
\* script ever meets COUNTER_CORRUPT.
RunValid ==
    LET claims == [j \in Jobs |-> job[j].claim_count]
        starts == [j \in Jobs |-> job[j].request_starts]
        retries == [j \in Jobs |-> job[j].retry_count]
        preIo == [j \in Jobs |-> job[j].pre_io_recoveries]
        creations == [j \in Jobs |-> job[j].next_request_ordinal - 1]
        size(st) == Cardinality(InState(st))
    IN  /\ run.job_count = Cardinality(Jobs) - size("absent")
        /\ run.open_job_count = size("ready") + size("leased") + size("delayed")
        /\ run.completed = size("completed")
        /\ run.dead = size("dead")
        /\ run.cancelled = size("cancelled")
        /\ run.commits =
             Cardinality({j \in Jobs : job[j].last_reason = "published"})
        /\ run.claims = Total(claims)
        /\ run.request_starts = Total(starts)
        /\ run.retries = Total(retries)
        /\ run.recovered >= Total(preIo)
        /\ run.reservation_creations = Total(creations)
        /\ run.pending = Cardinality(Holding(Jobs, "pending"))
        /\ run.started = Cardinality(Holding(Jobs, "started"))

\* The policy group maps agree with the run and the jobs, although a redirect
\* charges another group than the one that owns the job.
GroupsValid ==
    LET started == [g \in Groups |-> group[g].started]
    IN  /\ run.request_starts = Total(started)
        /\ \A g \in Groups :
              LET charged == {j \in Jobs : job[j].reservation.group = g}
              IN  /\ group[g].pending = Cardinality(Holding(charged, "pending"))
                  /\ group[g].active = Cardinality(Holding(charged, "started"))
                  /\ group[g].active =< group[g].started
                  /\ group[g].open =
                       Cardinality({j \in Jobs : /\ SourceGroup[j] = g
                                                 /\ job[j].state \in OpenStates})

\* No admission, retry or redirect ever oversubscribes a budget: started and
\* pending requests together stay within the run's and each group's limit, and
\* a run never creates more reservations than its cap.
BudgetsHold ==
    /\ run.request_starts + run.pending =< MaxRequestStarts
    /\ run.reservation_creations =< MaxReservations
    /\ \A g \in Groups :
          /\ group[g].started + group[g].pending =< GroupLimit[g]
          /\ group[g].pending + group[g].active =< GroupConcurrency[g]

\* Every rate scope counts exactly the live reservations that charge it, through
\* lost leases and batch recoveries, and never above its concurrency: a leaked
\* unit would throttle its origin forever, a lost one would overload it.
ScopesValid ==
    \A s \in Scopes :
        LET charged == ChargedTo(Jobs, s)
        IN  /\ scope[s].pending = Cardinality(Holding(charged, "pending"))
            /\ scope[s].started = Cardinality(Holding(charged, "started"))
            /\ scope[s].active = scope[s].pending + scope[s].started
            /\ scope[s].active =< Concurrency[s]

\* The stage slots are exactly the stages, active or aborted, of current leases,
\* at most StageSlots: a slot that outlived its lease would block every later claim.
SlotsOwned ==
    /\ Cardinality(slots) =< StageSlots
    /\ slots = {[job |-> j, fence |-> job[j].lease_fence,
                 aborted |-> ~job[j].active_stage] :
                   j \in {i \in InState("leased") : StageFrozen(job[i])}}

\* A stage describes the request transcript of its lease as it still is, and the
\* lease never outlives the stage, however often it is renewed.
StageBinds ==
    \A j \in Jobs : job[j].active_stage =>
        /\ stage[j].generation = job[j].request_starts
        /\ job[j].lease_left =< stage[j].left

\* The records that scripts validate before they use them, the job's and the
\* stage's, are valid together: a stage neither speaks of a transcript its lease
\* does not have nor vanishes under the lease.
RecordsValid == JobValid /\ StageBinds

\* A page that was published is known as visited at its own depth or above, so
\* no later claim of the same URL fetches it again.
PublishedIsVisited ==
    \A j \in Jobs : job[j].last_reason = "published" => VisitedAlready(j)

\* After the run is finalized nobody holds anything of it, and a run that ends
\* as completed or cancelled leaves no open job behind.
FinalizedIsClean ==
    run.finalized =>
        /\ InState("leased") = {} /\ slots = {}
        /\ \A s \in Scopes : scope[s].active = 0
        /\ run.state # "budget_exhausted" => InState("ready") \cup InState("delayed") = {}

\* ledger_run.lua's validate_ledger accepts the run at all times: the counters of
\* the run, of its policy groups and of the rate scopes are exactly what the job
\* records add up to, through redirects, lost leases and batch recoveries.
CountersExact == RunValid /\ GroupsValid /\ ScopesValid

-----------------------------------------------------------------------------
(* What the workers may rely on.                                           *)

\* A worker performs request I/O only within a lease it truly still holds, for a
\* request the ledger still counts.  So a job is never fetched by two workers at
\* once, and no rate scope sees more concurrent requests than it allows, even
\* if replies are lost, workers crash and leases are recovered.
IoIsCovered ==
    \A w \in Workers : belief[w].io /\ belief[w].left > 0 =>
        /\ Holds(belief[w].job, w, belief[w].fence)
        /\ job[belief[w].job].reservation.state = "started"

\* What worker slot w takes for its lease is no newer than the ledger's record.
\* While it counts on time left, the ledger grants it at least as much; while it
\* performs I/O under the current fence, the ledger counts that request.
Tied(w) ==
    LET b == belief[w]
    IN  /\ b.left > 0 => /\ b.job \in Jobs /\ Holds(b.job, w, b.fence)
                         /\ b.left =< job[b.job].lease_left
        /\ b.job \in Jobs =>
              /\ b.fence =< job[b.job].lease_fence
              /\ /\ b.io /\ b.fence = job[b.job].lease_fence
                 /\ job[b.job].state = "leased" /\ job[b.job].lease_owner = w
                 => job[b.job].reservation.state = "started"

\* No worker ever counts on a lease longer than the ledger does, however replies
\* to claims, starts and renewals are lost or repeated: the clock a worker derives
\* from the last reply it heard runs out first.
BeliefsHold ==
    /\ \A w \in Workers : Tied(w)
    /\ \A j \in Jobs : job[j].state = "absent" => job[j].lease_fence = 0

-----------------------------------------------------------------------------
(* What no step may do.                                                    *)

\* A terminal job is never touched again: not by a late outcome, a recovery, a
\* discovery of the same URL, or a cancellation.
TerminalIsFinal ==
    [][\A j \in Jobs : job[j].state \in TerminalStates => job'[j] = job[j]]_vars

\* Within one lease the owner and the baseline stay, its start evidence is never
\* undone, and under a stage its request transcript is frozen; a new lease comes
\* only from a ready job, with the next fence and all earlier starts below it.
LeaseIntegrity ==
    [][\A j \in Jobs :
         LET r == job[j]
             q == job'[j]
         IN  /\ q.lease_fence # r.lease_fence =>
                   /\ r.state = "ready" /\ q.lease_fence = r.lease_fence + 1
                   /\ q.baseline = r.request_starts
             /\ r.state = "leased" /\ q.state = "leased" =>
                   /\ q.lease_owner = r.lease_owner /\ q.baseline = r.baseline
                   /\ q.lease_delivery_started >= r.lease_delivery_started
             /\ StageFrozen(r) /\ q.lease_fence = r.lease_fence =>
                   q.request_starts = r.request_starts]_vars

\* Once the run is cancelled or its authorization has ended, no call starts or
\* reserves a request, publishes a page or opens a job: what is held can only
\* be given back.
WithdrawnOnlyShrinks ==
    [][run.state # "active" \/ ~run.authorized =>
         /\ run'.request_starts = run.request_starts
         /\ run'.reservation_creations = run.reservation_creations
         /\ run'.commits = run.commits
         /\ run'.open_job_count =< run.open_job_count
         /\ \A s \in Scopes : scope'[s].active =< scope[s].active
         /\ \A j \in Jobs : job'[j].lease_left =< job[j].lease_left]_vars

-----------------------------------------------------------------------------
(* What must happen.                                                       *)

\* The run ends and stays clean, whatever its workers do or fail to do: leases
\* expire and are recovered, and once the authorization has ended the jobs are
\* drained and the run is finalized.
RunFinalizes == EndFairness => <>[]run.finalized

\* While the run is authorized, no retry waits for ever: every delayed job is
\* promoted, the ones that a full batch left behind included.
DelayEnds ==
    \A j \in Jobs : job[j].state = "delayed" ~>
                        (job[j].state # "delayed" \/ ~Authorized)
==============================================================================

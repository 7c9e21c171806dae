------------------------------ MODULE CrawlJobs ------------------------------
(***************************************************************************)
(* The Crawl Jobs V2 ledger: one activated run, its jobs, the leases and   *)
(* request reservations that workers hold on them, the output stages, and  *)
(* the maintenance passes that recover what crashed workers leave behind.  *)
(*                                                                         *)
(* The code is a family of Lua scripts under                               *)
(* services/spider/internal/database/crawljobsv2/lua_src; Redis runs each  *)
(* script atomically, so each operation is one action.  A call that the    *)
(* script refuses (LEASE_LOST, NO_CANDIDATE, a blocked status or an error) *)
(* writes nothing and is a stuttering step.                                *)
(*                                                                         *)
(* Deadlines are kept as the time left before them (deadline - now, never  *)
(* below 0): every comparison in the scripts is between a stored deadline  *)
(* and TIME, or between two deadlines at one TIME.                         *)
(*                                                                         *)
(* A worker slot calls the scripts over a network that may lose a reply,   *)
(* repeat a request, or deliver one long after the lease it names ended.   *)
(* What a worker slot knows is its variable belief[w].                     *)
(*                                                                         *)
(* A definition marked "Faulty" is no part of the specification: it is a   *)
(* plausible mistake in the definition below it, one that a property of    *)
(* CrawlJobsSafety excludes.                                               *)
(***************************************************************************)
EXTENDS Integers, FiniteSets

CONSTANTS
    Jobs,               \* every job id that the run may come to hold
    Seeds,              \* the jobs loaded before activation
    SourceGroup,        \* the policy group that a job's own URL belongs to
    Depth,              \* the crawl depth of a job
    Workers,            \* worker slots (owner_id with its lease tokens)
    Groups,             \* the run's policy groups
    Scopes,             \* rate scopes: global, one per group, one per origin
    GlobalScope,
    ScopesOf,           \* the scopes that a request of a group is charged to
    Concurrency,        \* effective_concurrency of a scope
    Interval,           \* effective_interval_ms of a scope
    GroupLimit,         \* request_start_limit of a group
    GroupConcurrency,   \* concurrency of a group
    MaxRequestStarts,   \* max_request_starts of the run
    MaxReservations,    \* the cap on reservation_creations_total
    MaxLeases,          \* the cap on active_leases
    StageSlots,         \* the number of stage slots
    JobStartLimit,      \* the request starts a job record may carry
    LeaseTTL, StageTTL, \* lifetime of a lease and of a stage
    RetryDelay,         \* the delay after the first and the second delivery
    BlockWindow, BlockMargin, \* a commit backpressure deadline
    BatchSize,          \* jobs per maintenance call
    RequestKinds,       \* the request kinds that workers use
    RetryReasons, DeadReasons, ReadyReasons, CancelReasons,
    BlockReasons,       \* the reasons for commit backpressure
    NoJob, NoWorker, NoGroup

\* Concurrency[GlobalScope] is run.global_concurrency_limit, and
\* MaxDeliveryAttempts is run.max_delivery_attempts, which the run record's
\* validator pins.
MaxDeliveryAttempts == 3
MaxPreIoRecoveries == 3

ASSUME SetsAssumption ==
    /\ IsFiniteSet(Jobs) /\ Seeds \subseteq Jobs /\ Seeds # {}
    /\ NoJob \notin Jobs /\ NoWorker \notin Workers /\ NoGroup \notin Groups
    /\ IsFiniteSet(Workers) /\ IsFiniteSet(Groups) /\ IsFiniteSet(Scopes)
    /\ GlobalScope \in Scopes
    /\ SourceGroup \in [Jobs -> Groups]
    /\ Depth \in [Jobs -> Nat]
    /\ RequestKinds \subseteq {"robots", "document"}

ASSUME PolicyAssumption ==
    /\ ScopesOf \in [Groups -> SUBSET Scopes]
    /\ \A g \in Groups : GlobalScope \in ScopesOf[g]
    /\ Concurrency \in [Scopes -> Nat \ {0}]
    /\ Interval \in [Scopes -> Nat] /\ Interval[GlobalScope] = 0
    /\ GroupLimit \in [Groups -> Nat \ {0}]
    /\ GroupConcurrency \in [Groups -> Nat \ {0}]
    \* a group's own rate scope has the group's concurrency
    /\ \A g \in Groups : \E s \in ScopesOf[g] :
           Concurrency[s] =< GroupConcurrency[g]

ASSUME BoundsAssumption ==
    /\ MaxRequestStarts \in Nat \ {0} /\ JobStartLimit \in Nat
    /\ MaxRequestStarts =< JobStartLimit
    /\ MaxReservations \in Nat \ {0} /\ MaxLeases \in Nat \ {0}
    /\ StageSlots \in Nat \ {0} /\ BatchSize \in Nat \ {0}
    /\ LeaseTTL \in Nat \ {0} /\ StageTTL \in Nat /\ LeaseTTL =< StageTTL
    /\ RetryDelay \in [1 .. 2 -> Nat \ {0}]
    /\ BlockWindow \in Nat /\ BlockMargin \in Nat

ASSUME ReasonsAssumption ==
    /\ RetryReasons \subseteq STRING /\ DeadReasons \subseteq STRING
    /\ ReadyReasons \subseteq DeadReasons
    /\ CancelReasons \subseteq
           {"operator_cancelled", "source_cancelled", "authorization_expired"}
    /\ BlockReasons \subseteq {"pages_queue_full", "memory_headroom_low"}
    /\ "lease_expired_after_io" \notin RetryReasons
    /\ RetryReasons \cap DeadReasons = {}
    /\ (RetryReasons \cup DeadReasons) \cap
           {"none", "retry_exhausted", "published",
            "pre_io_recovery_exhausted", "already_visited"} = {}

VARIABLES
    run,     \* the run record
    group,   \* the group_started, _pending, _active_started, _open_jobs maps
    scope,   \* the rate scope records
    job,     \* the job records
    stage,   \* the metadata of a job's active stage
    slots,   \* the stage_slots hash
    visited, \* visited_depth: the least depth at which a job id was published
    belief   \* what each worker slot knows of its lease
vars == <<run, group, scope, job, stage, slots, visited, belief>>

OpenStates == {"ready", "leased", "delayed"}
TerminalStates == {"completed", "dead", "cancelled"}
Unvisited == -1

NoReservation ==
    [id |-> 0, state |-> "none", group |-> NoGroup, kind |-> "none",
     by |-> "none"]
NoStage == [sealed |-> FALSE, generation |-> 0, left |-> 0]
Idle == [job |-> NoJob, fence |-> 0, left |-> 0, io |-> FALSE]

MinOf(a, b) == IF a =< b THEN a ELSE b
MaxOf(a, b) == IF a >= b THEN a ELSE b
Less(t) == IF t > 0 THEN t - 1 ELSE 0

NoStatus == ""
\* A job record before its first claim, and the absence of one.
InitialRecord ==
    [state |-> "ready", claim_count |-> 0, lease_fence |-> 0,
     lease_owner |-> NoWorker, lease_left |-> 0, lease_delivery_started |-> 0,
     delivery_attempts |-> 0, request_starts |-> 0, baseline |-> 0,
     retry_count |-> 0, pre_io_recoveries |-> 0, next_request_ordinal |-> 1,
     reservation |-> NoReservation, document_fence |-> 0,
     active_stage |-> FALSE, last_stage_fence |-> 0, not_before_left |-> 0,
     blocked |-> "none", blocked_left |-> 0,
     last_reason |-> "none", last_failure_reason |-> "none",
     last_status |-> NoStatus]
AbsentRecord == [InitialRecord EXCEPT !.state = "absent"]

Reasons ==
    RetryReasons \cup DeadReasons \cup CancelReasons \cup
    {"none", "lease_expired_after_io", "retry_exhausted",
     "pre_io_recovery_exhausted", "already_visited", "published",
     "authorization_expired"}
Statuses ==
    {NoStatus, "CLAIMED", "VISITED_COMPLETED", "RELEASED_READY", "RETRY_SCHEDULED",
     "DEAD", "COMPLETED", "CANCELLED", "STAGE_ABORTED", "COMMITTED"}
RunReasons ==
    CancelReasons \cup
    {"none", "all_jobs_terminal", "request_budget_exhausted",
     "reservation_limit_exhausted", "group_budgets_exhausted"}

Reservation ==
    [id : Nat, state : {"none", "pending", "started"},
     group : Groups \cup {NoGroup}, kind : RequestKinds \cup {"none"},
     by : {"none", "claim", "reserve"}]
JobRecord ==
    [state : OpenStates \cup TerminalStates \cup {"absent"},
     claim_count : Nat, lease_fence : Nat,
     lease_owner : Workers \cup {NoWorker}, lease_left : Nat,
     lease_delivery_started : {0, 1},
     delivery_attempts : Nat, request_starts : Nat, baseline : Nat,
     retry_count : Nat, pre_io_recoveries : Nat, next_request_ordinal : Nat,
     reservation : Reservation, document_fence : Nat,
     active_stage : BOOLEAN, last_stage_fence : Nat, not_before_left : Nat,
     blocked : BlockReasons \cup {"none"}, blocked_left : Nat,
     last_reason : Reasons, last_failure_reason : Reasons,
     last_status : Statuses]
RunRecord ==
    [state : {"active", "completed", "budget_exhausted", "cancelled"},
     terminal_reason : RunReasons, finalized : BOOLEAN, authorized : BOOLEAN,
     job_count : Nat, open_job_count : Int, request_starts : Nat,
     pending : Int, started : Int, reservation_creations : Nat,
     claims : Nat, retries : Nat, recovered : Nat,
     completed : Nat, dead : Nat, cancelled : Nat, commits : Nat]

GroupRecord == [started : Nat, pending : Int, active : Int, open : Int]
ScopeRecord == [active : Int, pending : Int, started : Int, next_left : Nat]
StageRecord == [sealed : BOOLEAN, generation : Nat, left : Nat]
SlotRecord == [job : Jobs, fence : Nat, aborted : BOOLEAN]
BeliefRecord == [job : Jobs \cup {NoJob}, fence : Nat, left : Nat, io : BOOLEAN]

\* The types of the variables.  Every time left is a natural number: a deadline
\* that is over is time 0, however long ago it was.
TypeOK ==
    /\ run \in RunRecord
    /\ group \in [Groups -> GroupRecord]
    /\ scope \in [Scopes -> ScopeRecord]
    /\ job \in [Jobs -> JobRecord]
    /\ stage \in [Jobs -> StageRecord]
    /\ slots \subseteq SlotRecord
    /\ visited \in [Jobs -> Nat \cup {Unvisited}]
    /\ belief \in [Workers -> BeliefRecord]

Init ==
    /\ run = [state |-> "active", terminal_reason |-> "none",
              finalized |-> FALSE, authorized |-> TRUE,
              job_count |-> Cardinality(Seeds),
              open_job_count |-> Cardinality(Seeds),
              request_starts |-> 0, pending |-> 0, started |-> 0,
              reservation_creations |-> 0, claims |-> 0, retries |-> 0,
              recovered |-> 0, completed |-> 0, dead |-> 0, cancelled |-> 0,
              commits |-> 0]
    /\ group = [g \in Groups |->
                   [started |-> 0, pending |-> 0, active |-> 0,
                    open |-> Cardinality({j \in Seeds : SourceGroup[j] = g})]]
    /\ scope = [s \in Scopes |->
                   [active |-> 0, pending |-> 0, started |-> 0,
                    next_left |-> 0]]
    /\ job = [j \in Jobs |->
                 IF j \in Seeds THEN InitialRecord ELSE AbsentRecord]
    /\ stage = [j \in Jobs |-> NoStage]
    /\ slots = {}
    /\ visited = [j \in Jobs |-> Unvisited]
    /\ belief = [w \in Workers |-> Idle]
-----------------------------------------------------------------------------
(* Who may act, and what admits a request.                                 *)

\* The caller holds job j's current, unexpired lease.
Holds(j, w, f) ==
    /\ job[j].state = "leased"
    /\ job[j].lease_owner = w
    /\ job[j].lease_fence = f
    /\ job[j].lease_left > 0

\* Faulty: forgets that the authorization of an active run may have ended.
AuthorizedByState == run.state = "active"
\* authority_status: the run still permits new work.
Authorized == run.state = "active" /\ run.authorized

\* Job.cancellation: why the run's work is being withdrawn, or "none".
Cancellation ==
    IF run.state = "cancelled" THEN run.terminal_reason
    ELSE IF run.state = "active" /\ ~run.authorized
         THEN "authorization_expired" ELSE "none"

\* Faulty: lets go of the transcript when the stage is aborted.
FrozenWhileActive(j) == job[j].active_stage
\* The current lease has had a stage: its request transcript is frozen.
Frozen(j) == job[j].last_stage_fence >= job[j].lease_fence

\* The stage of the current lease was aborted.
Aborted(j) ==
    job[j].last_stage_fence = job[j].lease_fence /\ ~job[j].active_stage

VisitedAlready(j) ==
    visited[j] # Unvisited /\ visited[j] =< Depth[j]

\* Faulty: only the run's budget is checked.
WithinRunBudget(g) ==
    /\ run.request_starts + run.pending # MaxRequestStarts
    /\ run.reservation_creations # MaxReservations

\* Request.blocked: budgets first, then the concurrency and pace of each scope.
WithinBudget(g) ==
    /\ run.request_starts + run.pending # MaxRequestStarts
    /\ run.reservation_creations # MaxReservations
    /\ group[g].started + group[g].pending # GroupLimit[g]

ScopeAdmits(s) ==
    /\ scope[s].active < Concurrency[s]
    /\ s # GlobalScope /\ Interval[s] > 0 => scope[s].pending = 0
    /\ scope[s].next_left = 0

Admits(g) == WithinBudget(g) /\ \A s \in ScopesOf[g] : ScopeAdmits(s)

\* A claim must also find room among the leases and the stage slots.
AdmitsClaim(g) ==
    /\ Admits(g)
    /\ Cardinality({j \in Jobs : job[j].state = "leased"}) # MaxLeases
    /\ Cardinality(slots) # StageSlots

\* Request.create_reservation: what admission adds to the counters.
Charge(g, claimed) ==
    /\ run' = [run EXCEPT !.pending = @ + 1,
                          !.reservation_creations = @ + 1,
                          !.claims = @ + claimed]
    /\ group' = [group EXCEPT ![g].pending = @ + 1]
    /\ scope' = [s \in Scopes |->
                    IF s \in ScopesOf[g]
                    THEN [scope[s] EXCEPT !.active = @ + 1, !.pending = @ + 1]
                    ELSE scope[s]]

PendingReservation(j, g, k, op) ==
    [id |-> job[j].next_request_ordinal, state |-> "pending",
     group |-> g, kind |-> k, by |-> op]

-----------------------------------------------------------------------------
(* What releasing reservations and ending leases does to the shared state. *)

\* The jobs of D that hold a reservation in state st, and those charged to s.
Holding(D, st) == {j \in D : job[j].reservation.state = st}
ChargedTo(D, s) ==
    {j \in D : /\ job[j].reservation.state # "none"
               /\ s \in ScopesOf[job[j].reservation.group]}

\* The group that pays for job j's request, which a redirect may have changed.
SourceOf(j) == SourceGroup[j] \* Faulty: the group that owns the job.
Payer(j) == job[j].reservation.group

\* Request.plan_terminal, for the reservations held by the jobs of D.
ReleasedScopes(D) ==
    [s \in Scopes |->
        LET charged == ChargedTo(D, s)
        IN  [scope[s] EXCEPT
                !.active = @ - Cardinality(charged),
                !.pending = @ - Cardinality(Holding(charged, "pending")),
                !.started = @ - Cardinality(Holding(charged, "started"))]]

ReleasedGroups(D) ==
    [g \in Groups |->
        LET charged == {j \in D : Payer(j) = g}
        IN  [group[g] EXCEPT
                !.pending = @ - Cardinality(Holding(charged, "pending")),
                !.active = @ - Cardinality(Holding(charged, "started"))]]

ReleasedRun(D) ==
    [run EXCEPT !.pending = @ - Cardinality(Holding(D, "pending")),
                !.started = @ - Cardinality(Holding(D, "started"))]

\* How many of the jobs of D enter a state.
Entering(D, post, st) == Cardinality({j \in D : post[j].state = st})

\* Faulty: the slot of an aborted stage is kept.
SlotsButActive(D) == {s \in slots : s.job \in D => s.aborted}
\* The slots left when the leases of the jobs of D are over.
SlotsWithout(D) == {s \in slots : s.job \notin D}

\* Job.plan_outcome and plan_terminal: the jobs of D become post[j], and the
\* counters move with them.
Settle(D, post, recovered) ==
    LET now(st) == Entering(D, post, st)
        closed(g) == {j \in D : /\ post[j].state \in TerminalStates
                                /\ SourceGroup[j] = g}
        freed == ReleasedRun(D)
        groups == ReleasedGroups(D)
    IN  /\ job' = [j \in Jobs |-> IF j \in D THEN post[j] ELSE job[j]]
        /\ run' = [freed EXCEPT
                     !.open_job_count =
                        @ - (now("completed") + now("dead") + now("cancelled")),
                     !.completed = @ + now("completed"),
                     !.dead = @ + now("dead"),
                     !.cancelled = @ + now("cancelled"),
                     !.retries = @ + now("delayed"),
                     !.recovered = @ + recovered]
        /\ group' = [g \in Groups |->
                        [groups[g] EXCEPT !.open = @ - Cardinality(closed(g))]]
        /\ scope' = ReleasedScopes(D)
        /\ slots' = SlotsWithout(D)
        /\ stage' = [j \in Jobs |-> IF j \in D THEN NoStage ELSE stage[j]]

\* Job.outcome_record: leaving a state clears every lease, reservation, stage,
\* delay and backpressure field; the counters and the history remain.
Outcome(r, st, reason, status) ==
    [r EXCEPT !.state = st, !.lease_owner = NoWorker, !.lease_left = 0,
              !.lease_delivery_started = 0, !.reservation = NoReservation,
              !.active_stage = FALSE, !.not_before_left = 0,
              !.blocked = "none", !.blocked_left = 0,
              !.last_reason = reason, !.last_status = status]

Withdrawn(r, status) == Outcome(r, "cancelled", Cancellation, status)

Failed(r, reason, failure, status) ==
    [Outcome(r, "dead", reason, status) EXCEPT !.last_failure_reason = failure]

\* A delivery that did request I/O is tried again, up to three deliveries.
Retried(r, reason, delayStatus, deadStatus) ==
    IF r.delivery_attempts = MaxDeliveryAttempts
    THEN Failed(r, "retry_exhausted", reason, deadStatus)
    ELSE [Outcome(r, "delayed", reason, delayStatus) EXCEPT
             !.last_failure_reason = reason,
             !.not_before_left =
                IF r.delivery_attempts = 1 THEN RetryDelay[1] ELSE RetryDelay[2],
             !.retry_count = @ + 1]

\* Faulty: allows one recovery before I/O too many.
RecoveredLate(r) ==
    IF Cancellation # "none" THEN Withdrawn(r, NoStatus)
    ELSE IF r.lease_delivery_started = 1
    THEN Retried(r, "lease_expired_after_io", NoStatus, NoStatus)
    ELSE [Outcome(r, "ready", "none", NoStatus) EXCEPT !.pre_io_recoveries = @ + 1]
\* M.recovery_outcome, with the record changes that M.recover derives from it.
Recovered(r) ==
    IF Cancellation # "none" THEN Withdrawn(r, NoStatus)
    ELSE IF r.lease_delivery_started = 1
    THEN Retried(r, "lease_expired_after_io", NoStatus, NoStatus)
    ELSE IF r.pre_io_recoveries = MaxPreIoRecoveries - 1
    THEN [Failed(r, "pre_io_recovery_exhausted", "pre_io_recovery_exhausted", NoStatus)
            EXCEPT !.pre_io_recoveries = MaxPreIoRecoveries]
    ELSE [Outcome(r, "ready", "none", NoStatus) EXCEPT !.pre_io_recoveries = @ + 1]
-----------------------------------------------------------------------------
(* What a worker slot learns from the reply to a call, if the reply comes. *)

Believes(w, j, f) == belief[w].job = j /\ belief[w].fence = f

\* The reply reaches the worker: it takes over the time left and the permission.
Learn(w, j, f, left, io) ==
    belief' = [belief EXCEPT ![w] = [job |-> j, fence |-> f,
                                     left |-> left, io |-> io]]
\* The worker stopped its request I/O before it made this call.
EndIo(w, j, f) ==
    belief' = IF Believes(w, j, f) THEN [belief EXCEPT ![w].io = FALSE]
              ELSE belief
\* The worker gave up its lease with this call.
Forget(w, j, f) ==
    belief' = IF Believes(w, j, f) THEN [belief EXCEPT ![w] = Idle] ELSE belief

-----------------------------------------------------------------------------
(* Claims and request reservations.                                        *)

\* CJ2_TRY_CLAIM: the lease and its first reservation, in one step.
Claim(w, j, prior, k, heard) ==
    LET r == job[j]
        fence == r.lease_fence + 1
    IN  /\ heard => belief[w] = Idle
        /\ Authorized
        /\ job[j].state = "ready" /\ job[j].lease_fence = prior
        /\ ~VisitedAlready(j)
        /\ job[j].delivery_attempts < MaxDeliveryAttempts
        /\ AdmitsClaim(SourceGroup[j])
        /\ job' = [job EXCEPT ![j] =
              [r EXCEPT !.state = "leased", !.claim_count = @ + 1,
                        !.lease_fence = fence, !.lease_owner = w,
                        !.lease_left = LeaseTTL, !.lease_delivery_started = 0,
                        !.baseline = r.request_starts,
                        !.reservation =
                            PendingReservation(j, SourceGroup[j], k, "claim"),
                        !.next_request_ordinal = @ + 1,
                        !.last_status = "CLAIMED"]]
        /\ Charge(SourceGroup[j], 1)
        /\ IF heard THEN Learn(w, j, fence, LeaseTTL, FALSE)
           ELSE UNCHANGED belief
        /\ UNCHANGED <<stage, slots, visited>>

\* CJ2_TRY_CLAIM on a job whose URL was published meanwhile.
ClaimVisited(j, prior) ==
    /\ Authorized
    /\ job[j].state = "ready" /\ job[j].lease_fence = prior
    /\ VisitedAlready(j)
    /\ Settle({j}, [i \in {j} |-> Outcome(job[j], "completed",
                        "already_visited", "VISITED_COMPLETED")], 0)
    /\ UNCHANGED <<visited, belief>>

\* CJ2_TRY_CLAIM again, by a worker that missed the first reply.
ReplayClaim(w, j) ==
    LET f == job[j].lease_fence
    IN  /\ belief[w] = Idle /\ Holds(j, w, f)
        /\ job[j].reservation.state = "pending"
        /\ job[j].reservation.by = "claim"
        /\ job[j].last_status = "CLAIMED"
        /\ Learn(w, j, f, job[j].lease_left, FALSE)
        /\ UNCHANGED <<run, group, scope, job, stage, slots, visited>>

\* CJ2_RESERVE_REQUEST: one more request under the lease.  A redirect may lead
\* to another group, but not before the lease's first start.
Reserve(w, j, f, g, k) ==
    /\ Holds(j, w, f)
    /\ job[j].reservation = NoReservation
    /\ ~Frozen(j)
    /\ Authorized
    /\ job[j].lease_delivery_started = 0 => g = SourceGroup[j]
    /\ Admits(g)
    /\ job' = [job EXCEPT ![j].reservation = PendingReservation(j, g, k, "reserve"),
                          ![j].next_request_ordinal = @ + 1]
    /\ Charge(g, 0)
    /\ UNCHANGED <<stage, slots, visited, belief>>

\* Faulty: the lease's delivery flag counts its starts.
StartedAgain(r, f) ==
    [r EXCEPT !.delivery_attempts = @ + 1 - r.lease_delivery_started,
              !.lease_delivery_started = @ + 1,
              !.request_starts = @ + 1,
              !.reservation.state = "started",
              !.document_fence = IF r.reservation.kind = "document" THEN f ELSE @]

\* A job's record r once its reserved request has started under fence f.  Only
\* the first start of a lease is a delivery attempt.
StartedRecord(r, f) ==
    [r EXCEPT !.delivery_attempts = @ + 1 - r.lease_delivery_started,
              !.lease_delivery_started = 1,
              !.request_starts = @ + 1,
              !.reservation.state = "started",
              !.document_fence = IF r.reservation.kind = "document" THEN f ELSE @]

\* CJ2_START_REQUEST: the permission to perform the request's I/O.
Start(w, j, f, heard) ==
    LET r == job[j]
        g == r.reservation.group
        charged == ScopesOf[g]
    IN  /\ Holds(j, w, f)
        /\ r.reservation.state = "pending"
        /\ ~Frozen(j)
        /\ Authorized
        /\ \A s \in charged : scope[s].next_left = 0
        /\ job' = [job EXCEPT ![j] = StartedRecord(r, f)]
        /\ run' = [run EXCEPT !.pending = @ - 1, !.started = @ + 1,
                              !.request_starts = @ + 1]
        /\ group' = [group EXCEPT ![g].pending = @ - 1, ![g].active = @ + 1,
                                  ![g].started = @ + 1]
        /\ scope' = [s \in Scopes |->
              IF s \notin charged THEN scope[s]
              ELSE [scope[s] EXCEPT
                      !.pending = @ - 1, !.started = @ + 1,
                      !.next_left = IF s = GlobalScope THEN @
                                    ELSE MaxOf(@, Interval[s])]]
        /\ IF heard /\ Believes(w, j, f)
           THEN Learn(w, j, f, belief[w].left, TRUE) ELSE UNCHANGED belief
        /\ UNCHANGED <<stage, slots, visited>>

\* CJ2_START_REQUEST again: permission only while the request is still live.
ReplayStart(w, j, f) ==
    /\ Holds(j, w, f) /\ job[j].reservation.state = "started"
    /\ Authorized
    /\ Believes(w, j, f) /\ ~belief[w].io
    /\ Learn(w, j, f, belief[w].left, TRUE)
    /\ UNCHANGED <<run, group, scope, job, stage, slots, visited>>

\* CJ2_FINISH_REQUEST and CJ2_CANCEL_RESERVATION ask for no authority: capacity
\* is given back even after the run was cancelled or its authorization ended.
EndReservation(w, j, f) ==
    /\ Holds(j, w, f)
    /\ job' = [job EXCEPT ![j].reservation = NoReservation]
    /\ run' = ReleasedRun({j})
    /\ group' = ReleasedGroups({j})
    /\ scope' = ReleasedScopes({j})
    /\ EndIo(w, j, f)
    /\ UNCHANGED <<stage, slots, visited>>
FinishRequest(w, j, f) ==
    job[j].reservation.state = "started" /\ EndReservation(w, j, f)
CancelReservation(w, j, f) ==
    job[j].reservation.state = "pending" /\ EndReservation(w, j, f)

\* A full lease from now, but never past the active stage.
RenewedLease(j) ==
    IF job[j].active_stage THEN MinOf(LeaseTTL, stage[j].left) ELSE LeaseTTL

\* CJ2_RENEW_LEASE
Renew(w, j, f, heard) ==
    LET left == RenewedLease(j)
    IN  /\ Holds(j, w, f)
        /\ ~Aborted(j)
        /\ Authorized
        /\ left >= job[j].lease_left
        /\ job' = [job EXCEPT ![j].lease_left = left]
        /\ IF heard /\ Believes(w, j, f)
           THEN Learn(w, j, f, left, belief[w].io) ELSE UNCHANGED belief
        /\ UNCHANGED <<run, group, scope, stage, slots, visited>>
-----------------------------------------------------------------------------
(* How a worker gives up its lease, and how a ready job is rejected.       *)

\* Job.prepare_outcome, what the outcomes of a leased job have in common: they
\* leave no request behind, and a stage must have been aborted first.
GivesUp(w, j, f) == Holds(j, w, f) /\ ~job[j].active_stage

\* A withdrawn run overrides the outcome that the worker asked for.
EndLease(w, j, f, post) ==
    /\ GivesUp(w, j, f)
    /\ Settle({j}, [i \in {j} |-> IF Cancellation = "none" THEN post
                                  ELSE Withdrawn(job[j], "CANCELLED")], 0)
    /\ Forget(w, j, f)
    /\ UNCHANGED visited

\* CJ2_RELEASE_BEFORE_IO
ReleaseBeforeIo(w, j, f) ==
    /\ Cancellation = "none"
    /\ job[j].lease_delivery_started = 0
    /\ job[j].request_starts = job[j].baseline
    /\ EndLease(w, j, f, Outcome(job[j], "ready", "none", "RELEASED_READY"))

\* Job.retry_condition: blocked downstream, if at all, for as long as allowed.
RetryAllowed(j, reason) ==
    reason = "downstream_backpressure" =>
        \/ job[j].last_stage_fence < job[j].lease_fence
        \/ job[j].blocked # "none" /\ job[j].blocked_left = 0

\* CJ2_RETRY
Retry(w, j, f, reason) ==
    /\ job[j].reservation = NoReservation
    /\ Cancellation = "none" =>
          /\ job[j].request_starts > job[j].baseline
          /\ job[j].lease_delivery_started = 1
          /\ RetryAllowed(j, reason)
    /\ EndLease(w, j, f, Retried(job[j], reason, "RETRY_SCHEDULED", "DEAD"))

\* CJ2_DEAD
Dead(w, j, f, reason) ==
    /\ reason # "policy_scope_changed"
    /\ job[j].reservation = NoReservation
    /\ (Cancellation = "none" /\ reason = "reservation_limit_exhausted") =>
          /\ job[j].request_starts > job[j].baseline
          /\ run.reservation_creations = MaxReservations
          /\ run.request_starts + run.pending < MaxRequestStarts
    /\ EndLease(w, j, f, Failed(job[j], reason, reason, "DEAD"))

\* CJ2_COMPLETE_NO_OUTPUT
CompleteNoOutput(w, j, f) ==
    /\ job[j].reservation = NoReservation
    /\ EndLease(w, j, f,
                Outcome(job[j], "completed", "already_visited", "COMPLETED"))

\* CJ2_CANCEL_JOB
CancelJob(w, j, f) ==
    /\ Cancellation # "none"
    /\ job[j].reservation = NoReservation
    /\ EndLease(w, j, f, Withdrawn(job[j], "CANCELLED"))

\* CJ2_REJECT_READY: a ready job fails the policy check, without a lease.
RejectReady(j, reason) ==
    /\ Authorized
    /\ job[j].state = "ready"
    /\ Settle({j}, [i \in {j} |-> Failed(job[j], reason, reason, "DEAD")], 0)
    /\ UNCHANGED <<visited, belief>>

-----------------------------------------------------------------------------
(* Output stages.                                                          *)

\* Stage's live(): the lease has done a document request and holds no other.
StageReady(w, j, f) ==
    /\ Holds(j, w, f)
    /\ job[j].reservation = NoReservation
    /\ job[j].lease_delivery_started = 1
    /\ job[j].document_fence = f

\* Stage.check_owned: the lease's stage, with its request transcript unchanged.
OwnsStage(w, j, f) ==
    /\ StageReady(w, j, f)
    /\ job[j].active_stage /\ job[j].last_stage_fence = f
    /\ [job |-> j, fence |-> f, aborted |-> FALSE] \in slots
    /\ stage[j].generation = job[j].request_starts

\* CJ2_BEGIN_STAGE: the transcript is frozen and a stage slot is taken.
BeginStage(w, j, f) ==
    /\ StageReady(w, j, f)
    /\ Authorized
    /\ ~job[j].active_stage /\ job[j].last_stage_fence < f
    /\ Cardinality(slots) # StageSlots
    /\ job' = [job EXCEPT ![j].active_stage = TRUE, ![j].last_stage_fence = f]
    /\ stage' = [stage EXCEPT ![j] = [sealed |-> FALSE, left |-> StageTTL,
                                      generation |-> job[j].request_starts]]
    /\ slots' = slots \cup {[job |-> j, fence |-> f, aborted |-> FALSE]}
    /\ UNCHANGED <<run, group, scope, visited, belief>>

\* CJ2_SEAL_STAGE, after the chunks of the output have been written.
SealStage(w, j, f) ==
    /\ OwnsStage(w, j, f)
    /\ Authorized
    /\ ~stage[j].sealed
    /\ stage' = [stage EXCEPT ![j].sealed = TRUE]
    /\ UNCHANGED <<run, group, scope, job, slots, visited, belief>>

\* CJ2_ABORT_STAGE asks for no authority and keeps the backpressure evidence;
\* the slot stays until the lease ends.
AbortStage(w, j, f) ==
    /\ OwnsStage(w, j, f)
    /\ job' = [job EXCEPT ![j].active_stage = FALSE,
                          ![j].last_reason = "none",
                          ![j].last_status = "STAGE_ABORTED"]
    /\ stage' = [stage EXCEPT ![j] = NoStage]
    /\ slots' = {IF s.job = j THEN [s EXCEPT !.aborted = TRUE] ELSE s : s \in slots}
    /\ UNCHANGED <<run, group, scope, visited, belief>>

\* backpressure_deadline: a stage with less than the margin left gives a deadline
\* that is over at once.
BlockedFor(j) == MinOf(BlockWindow, MaxOf(0, stage[j].left - BlockMargin))

\* CJ2_COMMIT when the pages queue is full or memory is short: the first refusal
\* sets a deadline for the retries of this commit.
Backpressure(w, j, f, reason) ==
    /\ OwnsStage(w, j, f)
    /\ Authorized
    /\ stage[j].sealed
    /\ job[j].blocked = "none"
    /\ job' = [job EXCEPT ![j].blocked = reason, ![j].blocked_left = BlockedFor(j)]
    /\ UNCHANGED <<run, group, scope, stage, slots, visited, belief>>

\* Faulty: a discovery of a known URL starts its job afresh.
EveryDiscovery(D, j) == D \ {j}
\* The discoveries that become jobs: the first admission of a job wins.
Fresh(D, j) == {d \in D \ {j} : job[d].state = "absent"}

\* Faulty: a later, deeper visit hides an earlier one.
LastVisit(j, aliases) ==
    [i \in Jobs |-> IF i \in aliases THEN Depth[j] ELSE visited[i]]
\* The aliases of job j's page are visited at its depth, unless they were at less.
Visit(j, aliases) ==
    [i \in Jobs |->
        IF i \in aliases /\ (visited[i] = Unvisited \/ Depth[j] < visited[i])
        THEN Depth[j] ELSE visited[i]]

\* CJ2_COMMIT: the page is published, its new discoveries become jobs, and
\* its aliases are marked visited.
Commit(w, j, f, discoveries, aliases) ==
    LET fresh == Fresh(discoveries, j)
        posted == Outcome(job[j], "completed", "published", "COMMITTED")
        delta(g) == Cardinality({d \in fresh : SourceGroup[d] = g})
                    - (IF SourceGroup[j] = g THEN 1 ELSE 0)
    IN  /\ OwnsStage(w, j, f)
        /\ Authorized
        /\ stage[j].sealed
        /\ job[j].blocked = "none" \/ job[j].blocked_left > 0
        /\ j \in aliases
        /\ Cardinality(aliases) =< job[j].request_starts - job[j].baseline
        /\ job' = [i \in Jobs |-> IF i = j THEN posted
                                  ELSE IF i \in fresh THEN InitialRecord
                                  ELSE job[i]]
        /\ run' = [run EXCEPT !.job_count = @ + Cardinality(fresh),
                              !.open_job_count = @ + Cardinality(fresh) - 1,
                              !.completed = @ + 1, !.commits = @ + 1]
        /\ group' = [g \in Groups |-> [group[g] EXCEPT !.open = @ + delta(g)]]
        /\ visited' = Visit(j, aliases)
        /\ slots' = SlotsWithout({j})
        /\ stage' = [stage EXCEPT ![j] = NoStage]
        /\ Forget(w, j, f)
        /\ UNCHANGED scope

-----------------------------------------------------------------------------
(* Maintenance, and the end of the run.                                    *)

\* A page of the jobs in due, bounded by the batch size of one call.
IsBatch(b, due) ==
    /\ b \subseteq due
    /\ Cardinality(b) = MinOf(Cardinality(due), BatchSize)

InState(st) == {j \in Jobs : job[j].state = st}

\* Faulty: only a first retry is ever found due.
FirstRetries ==
    {j \in InState("delayed") : /\ job[j].not_before_left = 0
                                /\ job[j].retry_count = 1}
\* The delayed jobs whose delay is over.
DueRetries == {j \in InState("delayed") : job[j].not_before_left = 0}

\* CJ2_PROMOTE_DUE: delayed jobs whose delay is over become ready.
PromoteDue(b) ==
    /\ Authorized
    /\ b # {} /\ IsBatch(b, DueRetries)
    /\ job' = [j \in Jobs |-> IF j \in b THEN [job[j] EXCEPT !.state = "ready"]
                              ELSE job[j]]
    /\ UNCHANGED <<run, group, scope, stage, slots, visited, belief>>

\* CJ2_CANCEL_RUN
CancelRun(reason) ==
    /\ run.state = "active"
    /\ reason = "authorization_expired" => ~run.authorized
    /\ run' = [run EXCEPT !.state = "cancelled", !.terminal_reason = reason]
    /\ UNCHANGED <<group, scope, job, stage, slots, visited, belief>>

\* Faulty: forgets the jobs that wait for a retry.
OnlyReady == InState("ready")
\* The jobs that a cancelled run still has to dispose of, the leased ones aside.
Cancellable == InState("ready") \cup InState("delayed")

\* CJ2_CANCEL_BATCH: the ready jobs of a cancelled run first, then the delayed.
CancelBatch(b) ==
    LET ready == InState("ready")
    IN  /\ run.state = "cancelled" /\ ~run.finalized
        /\ b # {} /\ IsBatch(b, Cancellable)
        /\ b \subseteq ready \/ ready \subseteq b
        /\ Settle(b, [j \in b |-> Withdrawn(job[j], NoStatus)], 0)
        /\ UNCHANGED <<visited, belief>>

\* Faulty: takes a lease away before its deadline.
NearlyExpired == {j \in InState("leased") : job[j].lease_left =< 1}
\* The leases whose deadline has passed.
Expired == {j \in InState("leased") : job[j].lease_left = 0}

\* CJ2_RECOVER_EXPIRED: every lease whose deadline passed (one page holds them
\* all), with the request it held and the stage it owned.
RecoverExpired ==
    /\ run.state \in {"active", "cancelled"} /\ ~run.finalized
    /\ Expired # {}
    /\ Settle(Expired, [j \in Expired |-> Recovered(job[j])], Cardinality(Expired))
    /\ UNCHANGED <<visited, belief>>

\* Faulty: looks at the requests only.
NoRequests == run.pending = 0 /\ run.started = 0
\* Run.live: nothing of the run is still held by anyone.
Drained ==
    InState("leased") = {} /\ slots = {} /\ run.pending = 0 /\ run.started = 0

\* Why a drained run is over, in the order CJ2_FINALIZE_RUN asks.
GroupsExhausted ==
    \A g \in Groups : group[g].open > 0 => group[g].started >= GroupLimit[g]
Verdict ==
    IF run.state = "cancelled"
    THEN IF run.open_job_count = 0 THEN <<"cancelled", run.terminal_reason>>
         ELSE <<"none", "none">>
    ELSE IF run.open_job_count = 0 THEN <<"completed", "all_jobs_terminal">>
    ELSE IF run.request_starts = MaxRequestStarts
         THEN <<"budget_exhausted", "request_budget_exhausted">>
    ELSE IF run.reservation_creations = MaxReservations
         THEN <<"budget_exhausted", "reservation_limit_exhausted">>
    ELSE IF GroupsExhausted THEN <<"budget_exhausted", "group_budgets_exhausted">>
    ELSE <<"none", "none">>

\* CJ2_FINALIZE_RUN
FinalizeRun ==
    /\ run.state \in {"active", "cancelled"} /\ ~run.finalized
    /\ Drained
    /\ Verdict[1] # "none"
    /\ run' = [run EXCEPT !.state = Verdict[1], !.terminal_reason = Verdict[2],
                          !.finalized = TRUE]
    /\ UNCHANGED <<group, scope, job, stage, slots, visited, belief>>

-----------------------------------------------------------------------------
(* The environment: time, the run's authorization, and worker crashes.     *)

Ticking ==
    \/ \E j \in Jobs : \/ job[j].lease_left + job[j].not_before_left > 0
                       \/ job[j].blocked_left + stage[j].left > 0
    \/ \E s \in Scopes : scope[s].next_left > 0
    \/ \E w \in Workers : belief[w].left > 0

\* One unit of time passes, for the server and for every worker alike.
Tick ==
    /\ Ticking
    /\ job' = [j \in Jobs |->
                  [job[j] EXCEPT !.lease_left = Less(@),
                                 !.not_before_left = Less(@),
                                 !.blocked_left = Less(@)]]
    /\ stage' = [j \in Jobs |-> [stage[j] EXCEPT !.left = Less(@)]]
    /\ scope' = [s \in Scopes |-> [scope[s] EXCEPT !.next_left = Less(@)]]
    /\ belief' = [w \in Workers |-> [belief[w] EXCEPT !.left = Less(@)]]
    /\ UNCHANGED <<run, group, slots, visited>>

\* The instant authorization_expires_at_ms is passed.
AuthorizationExpires ==
    /\ run.authorized
    /\ run' = [run EXCEPT !.authorized = FALSE]
    /\ UNCHANGED <<group, scope, job, stage, slots, visited, belief>>

\* A worker crashes and restarts, or drops a lease it believes lost.
Abandon(w) ==
    /\ belief[w] # Idle
    /\ belief' = [belief EXCEPT ![w] = Idle]
    /\ UNCHANGED <<run, group, scope, job, stage, slots, visited>>

\* After the run is finalized nothing remains to be done.
Done == run.finalized /\ UNCHANGED vars

-----------------------------------------------------------------------------
LeaseStep(w, j, f) ==
    \/ \E g \in Groups, k \in RequestKinds : Reserve(w, j, f, g, k)
    \/ \E heard \in BOOLEAN : Start(w, j, f, heard) \/ Renew(w, j, f, heard)
    \/ ReplayStart(w, j, f)
    \/ FinishRequest(w, j, f)
    \/ CancelReservation(w, j, f)
    \/ ReleaseBeforeIo(w, j, f)
    \/ \E r \in RetryReasons : Retry(w, j, f, r)
    \/ \E r \in DeadReasons : Dead(w, j, f, r)
    \/ CompleteNoOutput(w, j, f)
    \/ CancelJob(w, j, f)
    \/ BeginStage(w, j, f)
    \/ SealStage(w, j, f)
    \/ AbortStage(w, j, f)
    \/ \E r \in BlockReasons : Backpressure(w, j, f, r)
    \/ \E D, A \in SUBSET Jobs : Commit(w, j, f, D, A)

ReadyStep(j) ==
    \/ \E prior \in 0 .. job[j].lease_fence :
          \/ ClaimVisited(j, prior)
          \/ \E w \in Workers, k \in RequestKinds, heard \in BOOLEAN :
                Claim(w, j, prior, k, heard)
    \/ \E w \in Workers : ReplayClaim(w, j)
    \/ \E r \in ReadyReasons : RejectReady(j, r)

Maintenance ==
    \/ \E b \in SUBSET Jobs : PromoteDue(b) \/ CancelBatch(b)
    \/ RecoverExpired
    \/ \E r \in CancelReasons : CancelRun(r)
    \/ FinalizeRun

Next ==
    \/ \E j \in Jobs :
          \/ ReadyStep(j)
          \/ \E w \in Workers, f \in 1 .. job[j].lease_fence : LeaseStep(w, j, f)
    \/ Maintenance
    \/ Tick
    \/ AuthorizationExpires
    \/ \E w \in Workers : Abandon(w)
    \/ Done

Spec == Init /\ [][Next]_vars

\* Nothing is assumed of the workers.  Time passes, and the maintenance loop
\* keeps calling the scripts that have something to do.
PassFairness ==
    /\ WF_vars(Tick)
    /\ WF_vars(\E b \in SUBSET Jobs : PromoteDue(b))
    /\ WF_vars(RecoverExpired)

MaintainedSpec == Spec /\ PassFairness

\* The authorization is a fixed time in the run's record, and what follows its
\* end is maintenance too.
EndFairness ==
    /\ WF_vars(AuthorizationExpires)
    /\ WF_vars(CancelRun("authorization_expired"))
    /\ WF_vars(\E b \in SUBSET Jobs : CancelBatch(b))
    /\ WF_vars(FinalizeRun)
==============================================================================

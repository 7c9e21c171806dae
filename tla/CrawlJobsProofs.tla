--------------------------- MODULE CrawlJobsProofs ---------------------------
(***************************************************************************)
(* Theorems about the Crawl Jobs V2 ledger, for all values of the          *)
(* constants that the assumptions of CrawlJobs allow: type correctness,    *)
(* what a worker may rely on, and that outcomes are final.                 *)
(***************************************************************************)
EXTENDS CrawlJobsSafety, FiniteSetTheorems, TLAPS

-----------------------------------------------------------------------------
(* The records that the outcomes of a job build are job records.           *)

\* Job.outcome_record keeps a job record a job record.
LEMMA OutcomeType ==
    ASSUME NEW r \in JobRecord, NEW st \in OpenStates \cup TerminalStates,
           NEW reason \in Reasons, NEW status \in Statuses
    PROVE  Outcome(r, st, reason, status) \in JobRecord
  BY ZenonT(60) DEF Outcome, JobRecord, NoReservation, Reservation

\* A failure is an outcome with a failure reason.
LEMMA FailedType ==
    ASSUME NEW r \in JobRecord, NEW reason \in Reasons,
           NEW failure \in Reasons, NEW status \in Statuses
    PROVE  Failed(r, reason, failure, status) \in JobRecord
  <1>1. Outcome(r, "dead", reason, status) \in JobRecord
    BY OutcomeType DEF TerminalStates
  <1> QED
    BY <1>1 DEF Failed, JobRecord

\* A retry is an outcome with a delay, or a failure.
LEMMA RetriedType ==
    ASSUME NEW r \in JobRecord, NEW reason \in Reasons,
           NEW delayStatus \in Statuses, NEW deadStatus \in Statuses
    PROVE  Retried(r, reason, delayStatus, deadStatus) \in JobRecord
  <1> DEFINE o == Outcome(r, "delayed", reason, delayStatus)
             delay == IF r.delivery_attempts = 1 THEN RetryDelay[1]
                      ELSE RetryDelay[2]
  <1>1. CASE r.delivery_attempts = MaxDeliveryAttempts
    BY <1>1, FailedType DEF Retried, Reasons
  <1>2. CASE r.delivery_attempts # MaxDeliveryAttempts
    <2>1. o \in JobRecord
      BY OutcomeType DEF OpenStates
    <2>2. delay \in Nat
      BY BoundsAssumption
    <2>3. Retried(r, reason, delayStatus, deadStatus)
            = [o EXCEPT !.last_failure_reason = reason,
                        !.not_before_left = delay,
                        !.retry_count = o.retry_count + 1]
      BY <1>2 DEF Retried
    <2>4. o.retry_count + 1 \in Nat
      BY <2>1 DEF JobRecord
    <2> HIDE DEF o, delay
    <2> QED
      BY <2>1, <2>2, <2>3, <2>4, ZenonT(120) DEF JobRecord
  <1> QED
    BY <1>1, <1>2

-----------------------------------------------------------------------------
(* Type correctness.  The reason for a cancellation becomes the last reason *)
(* of the jobs it withdraws, so a cancelled run's reason must be one.       *)

CancelledFor == run.state = "cancelled" => run.terminal_reason \in CancelReasons
TypeInv == TypeOK /\ CancelledFor

\* Sets of jobs have cardinalities.
LEMMA CardinalityOfJobs ==
    ASSUME NEW D \in SUBSET Jobs
    PROVE  IsFiniteSet(D) /\ Cardinality(D) \in Nat
  BY SetsAssumption, FS_Subset, FS_CardinalityType

\* Job.cancellation answers with a reason that a job record may carry.
LEMMA CancellationType ==
    ASSUME TypeInv
    PROVE  Cancellation \in Reasons
  BY ReasonsAssumption DEF TypeInv, CancelledFor, Cancellation, Reasons

\* The record of a withdrawn job is a job record.
LEMMA WithdrawnType ==
    ASSUME TypeInv, NEW r \in JobRecord, NEW status \in Statuses
    PROVE  Withdrawn(r, status) \in JobRecord
  BY CancellationType, OutcomeType DEF Withdrawn, TerminalStates

\* Recovery turns a job record into a job record.
LEMMA RecoveredType ==
    ASSUME TypeInv, NEW r \in JobRecord
    PROVE  Recovered(r) \in JobRecord
  <1> DEFINE gone == Failed(r, "pre_io_recovery_exhausted",
                            "pre_io_recovery_exhausted", NoStatus)
             free == Outcome(r, "ready", "none", NoStatus)
  <1>1. NoStatus \in Statuses
    BY DEF Statuses
  <1>2. {"none", "lease_expired_after_io", "pre_io_recovery_exhausted"}
            \subseteq Reasons
    BY DEF Reasons
  <1>3. Withdrawn(r, NoStatus) \in JobRecord
    BY <1>1, WithdrawnType
  <1>4. Retried(r, "lease_expired_after_io", NoStatus, NoStatus) \in JobRecord
    BY <1>1, <1>2, RetriedType
  <1>5. [gone EXCEPT !.pre_io_recoveries = MaxPreIoRecoveries] \in JobRecord
    <2>1. gone \in JobRecord
      BY <1>1, <1>2, FailedType
    <2> HIDE DEF gone
    <2> QED
      BY <2>1 DEF JobRecord, MaxPreIoRecoveries
  <1>6. [free EXCEPT !.pre_io_recoveries = free.pre_io_recoveries + 1]
            \in JobRecord
    <2>1. free \in JobRecord
      BY <1>1, <1>2, OutcomeType DEF OpenStates
    <2> HIDE DEF free
    <2> QED
      BY <2>1 DEF JobRecord
  <1> QED
    BY <1>3, <1>4, <1>5, <1>6 DEF Recovered

\* Giving back reservations leaves integers in the counters.
LEMMA ReleasedType ==
    ASSUME TypeInv, NEW D \in SUBSET Jobs
    PROVE  /\ ReleasedRun(D) \in RunRecord
           /\ ReleasedRun(D).state = run.state
           /\ ReleasedRun(D).terminal_reason = run.terminal_reason
           /\ ReleasedGroups(D) \in [Groups -> GroupRecord]
           /\ ReleasedScopes(D) \in [Scopes -> ScopeRecord]
  <1>1. \A E \in SUBSET D :
            /\ Cardinality(E) \in Nat
            /\ \A st : Cardinality(Holding(E, st)) \in Nat
    BY CardinalityOfJobs DEF Holding
  <1>2. /\ ReleasedRun(D) \in RunRecord
        /\ ReleasedRun(D).state = run.state
        /\ ReleasedRun(D).terminal_reason = run.terminal_reason
    <2>1. run \in RunRecord
      BY DEF TypeInv, TypeOK
    <2>2. /\ Cardinality(Holding(D, "pending")) \in Nat
          /\ Cardinality(Holding(D, "started")) \in Nat
      BY <1>1
    <2>3. /\ run.pending - Cardinality(Holding(D, "pending")) \in Int
          /\ run.started - Cardinality(Holding(D, "started")) \in Int
      BY <2>1, <2>2 DEF RunRecord
    <2> QED
      BY <2>1, <2>3 DEF ReleasedRun, RunRecord
  <1>3. ReleasedGroups(D) \in [Groups -> GroupRecord]
    <2> SUFFICES ASSUME NEW g \in Groups
                 PROVE  ReleasedGroups(D)[g] \in GroupRecord
      BY DEF ReleasedGroups
    <2> DEFINE charged == {j \in D : Payer(j) = g}
               pending == group[g].pending - Cardinality(Holding(charged, "pending"))
               active == group[g].active - Cardinality(Holding(charged, "started"))
    <2>1. group[g] \in GroupRecord
      BY DEF TypeInv, TypeOK
    <2>2. pending \in Int /\ active \in Int
      <3>1. /\ Cardinality(Holding(charged, "pending")) \in Nat
            /\ Cardinality(Holding(charged, "started")) \in Nat
        BY <1>1
      <3> QED
        BY <2>1, <3>1 DEF GroupRecord
    <2>3. ReleasedGroups(D)[g] = [group[g] EXCEPT !.pending = pending,
                                                  !.active = active]
      BY DEF ReleasedGroups
    <2> HIDE DEF pending, active
    <2> QED
      BY <2>1, <2>2, <2>3 DEF GroupRecord
  <1>4. ReleasedScopes(D) \in [Scopes -> ScopeRecord]
    <2> SUFFICES ASSUME NEW s \in Scopes
                 PROVE  ReleasedScopes(D)[s] \in ScopeRecord
      BY DEF ReleasedScopes
    <2> DEFINE charged == ChargedTo(D, s)
               active == scope[s].active - Cardinality(charged)
               pending == scope[s].pending - Cardinality(Holding(charged, "pending"))
               started == scope[s].started - Cardinality(Holding(charged, "started"))
    <2>1. scope[s] \in ScopeRecord
      BY DEF TypeInv, TypeOK
    <2>2. charged \in SUBSET D
      BY DEF ChargedTo
    <2>3. active \in Int /\ pending \in Int /\ started \in Int
      <3>1. /\ Cardinality(charged) \in Nat
            /\ Cardinality(Holding(charged, "pending")) \in Nat
            /\ Cardinality(Holding(charged, "started")) \in Nat
        BY <1>1, <2>2
      <3> QED
        BY <2>1, <3>1 DEF ScopeRecord
    <2>4. ReleasedScopes(D)[s] = [scope[s] EXCEPT !.active = active,
                                                  !.pending = pending,
                                                  !.started = started]
      BY DEF ReleasedScopes
    <2> HIDE DEF active, pending, started
    <2> QED
      BY <2>1, <2>3, <2>4 DEF ScopeRecord
  <1> QED
    BY <1>2, <1>3, <1>4

\* Settling the jobs of D keeps the counters integers and the records typed.
LEMMA SettleType ==
    ASSUME TypeInv, NEW D \in SUBSET Jobs, NEW recovered \in Nat,
           NEW post, \A j \in D : post[j] \in JobRecord,
           Settle(D, post, recovered)
    PROVE  /\ run' \in RunRecord /\ CancelledFor'
           /\ group' \in [Groups -> GroupRecord]
           /\ scope' \in [Scopes -> ScopeRecord]
           /\ job' \in [Jobs -> JobRecord]
           /\ stage' \in [Jobs -> StageRecord]
           /\ slots' \subseteq SlotRecord
  <1> DEFINE freed == ReleasedRun(D)
             n(st) == Entering(D, post, st)
  <1>1. \A E \in SUBSET D : Cardinality(E) \in Nat
    BY CardinalityOfJobs
  <1>2. \A st : n(st) \in Nat
    BY <1>1 DEF Entering
  <1>3. /\ freed \in RunRecord /\ freed.state = run.state
        /\ freed.terminal_reason = run.terminal_reason
    BY ReleasedType
  <1>4. run' \in RunRecord /\ CancelledFor'
    <2> DEFINE closed == n("completed") + n("dead") + n("cancelled")
    <2>1. run' = [freed EXCEPT
                    !.open_job_count = freed.open_job_count - closed,
                    !.completed = freed.completed + n("completed"),
                    !.dead = freed.dead + n("dead"),
                    !.cancelled = freed.cancelled + n("cancelled"),
                    !.retries = freed.retries + n("delayed"),
                    !.recovered = freed.recovered + recovered]
      BY DEF Settle
    <2>2. /\ freed.open_job_count - closed \in Int
          /\ freed.completed + n("completed") \in Nat
          /\ freed.dead + n("dead") \in Nat
          /\ freed.cancelled + n("cancelled") \in Nat
          /\ freed.retries + n("delayed") \in Nat
          /\ freed.recovered + recovered \in Nat
      <3>1. /\ freed.open_job_count \in Int /\ freed.completed \in Nat
            /\ freed.dead \in Nat /\ freed.cancelled \in Nat
            /\ freed.retries \in Nat /\ freed.recovered \in Nat
        BY <1>3 DEF RunRecord
      <3> QED
        BY <1>2, <3>1
    <2> HIDE DEF freed, n, closed
    <2>3. run' \in RunRecord
      BY <1>3, <2>1, <2>2 DEF RunRecord
    <2>4. run'.state = run.state /\ run'.terminal_reason = run.terminal_reason
      BY <1>3, <2>1 DEF RunRecord
    <2> QED
      BY <2>3, <2>4 DEF TypeInv, CancelledFor
  <1>5. group' \in [Groups -> GroupRecord]
    <2> DEFINE closed(g) == {j \in D : /\ post[j].state \in TerminalStates
                                       /\ SourceGroup[j] = g}
               left(g) == ReleasedGroups(D)[g]
    <2>1. \A g \in Groups : left(g) \in GroupRecord
      BY ReleasedType
    <2>2. \A g \in Groups : Cardinality(closed(g)) \in Nat
      BY <1>1
    <2>3. group' = [g \in Groups |->
                      [left(g) EXCEPT
                         !.open = left(g).open - Cardinality(closed(g))]]
      BY DEF Settle
    <2> HIDE DEF closed, left
    <2> QED
      BY <2>1, <2>2, <2>3 DEF GroupRecord
  <1>6. scope' \in [Scopes -> ScopeRecord]
    BY ReleasedType DEF Settle
  <1>7. job' \in [Jobs -> JobRecord]
    BY DEF Settle, TypeInv, TypeOK
  <1>8. stage' \in [Jobs -> StageRecord]
    BY DEF Settle, TypeInv, TypeOK, NoStage, StageRecord
  <1>9. slots' \subseteq SlotRecord
    BY DEF Settle, SlotsWithout, TypeInv, TypeOK
  <1> QED
    BY <1>4, <1>5, <1>6, <1>7, <1>8, <1>9

\* What a worker learns or forgets is again a worker's belief.
LEMMA BeliefType ==
    ASSUME TypeInv, NEW w \in Workers, NEW j \in Jobs, NEW f \in Nat,
           NEW left \in Nat, NEW io \in BOOLEAN,
           \/ Learn(w, j, f, left, io)
           \/ EndIo(w, j, f)
           \/ Forget(w, j, f)
           \/ UNCHANGED belief
    PROVE  belief' \in [Workers -> BeliefRecord]
  <1>1. belief \in [Workers -> BeliefRecord]
    BY DEF TypeInv, TypeOK
  <1>2. CASE Learn(w, j, f, left, io)
    BY <1>1, <1>2 DEF Learn, BeliefRecord
  <1>3. CASE EndIo(w, j, f)
    <2>1. [belief[w] EXCEPT !.io = FALSE] \in BeliefRecord
      BY <1>1 DEF BeliefRecord
    <2>2. belief' = [belief EXCEPT ![w] = [belief[w] EXCEPT !.io = FALSE]]
          \/ belief' = belief
      BY <1>3 DEF EndIo
    <2> QED
      BY <1>1, <2>1, <2>2
  <1>4. CASE Forget(w, j, f)
    BY <1>1, <1>4 DEF Forget, Idle, BeliefRecord
  <1> QED
    BY <1>1, <1>2, <1>3, <1>4

\* The end of a lease, or of a job, preserves the types.
LEMMA SettledType ==
    ASSUME TypeInv, NEW D \in SUBSET Jobs, NEW recovered \in Nat,
           NEW post, \A j \in D : post[j] \in JobRecord,
           Settle(D, post, recovered), UNCHANGED visited,
           belief' \in [Workers -> BeliefRecord]
    PROVE  TypeInv'
  BY SettleType DEF TypeInv, TypeOK

\* An admission changes counters only.
LEMMA ChargeType ==
    ASSUME TypeInv, NEW g \in Groups, NEW claimed \in Nat, Charge(g, claimed)
    PROVE  /\ run' \in RunRecord /\ CancelledFor'
           /\ group' \in [Groups -> GroupRecord]
           /\ scope' \in [Scopes -> ScopeRecord]
  <1>1. /\ run \in RunRecord /\ group \in [Groups -> GroupRecord]
        /\ scope \in [Scopes -> ScopeRecord]
    BY DEF TypeInv, TypeOK
  <1>2. /\ run.pending + 1 \in Int /\ run.claims + claimed \in Nat
        /\ run.reservation_creations + 1 \in Nat
    BY <1>1 DEF RunRecord
  <1>3. run' \in RunRecord /\ CancelledFor'
    <2>1. run' = [run EXCEPT
                    !.pending = run.pending + 1,
                    !.reservation_creations = run.reservation_creations + 1,
                    !.claims = run.claims + claimed]
      BY DEF Charge
    <2>2. run' \in RunRecord
      BY <1>1, <1>2, <2>1 DEF RunRecord
    <2>3. run'.state = run.state /\ run'.terminal_reason = run.terminal_reason
      BY <1>1, <2>1 DEF RunRecord
    <2> QED
      BY <2>2, <2>3 DEF TypeInv, CancelledFor
  <1>4. group' \in [Groups -> GroupRecord]
    <2>1. group[g].pending + 1 \in Int
      BY <1>1 DEF GroupRecord
    <2>2. [group[g] EXCEPT !.pending = group[g].pending + 1] \in GroupRecord
      BY <1>1, <2>1 DEF GroupRecord
    <2> QED
      BY <1>1, <2>2 DEF Charge
  <1>5. scope' \in [Scopes -> ScopeRecord]
    <2>1. \A s \in Scopes : [scope[s] EXCEPT !.active = scope[s].active + 1,
                                             !.pending = scope[s].pending + 1]
                                \in ScopeRecord
      <3> SUFFICES ASSUME NEW s \in Scopes
                   PROVE  [scope[s] EXCEPT !.active = scope[s].active + 1,
                                           !.pending = scope[s].pending + 1]
                              \in ScopeRecord
        OBVIOUS
      <3>1. scope[s] \in ScopeRecord
        BY <1>1
      <3>2. scope[s].active + 1 \in Int /\ scope[s].pending + 1 \in Int
        BY <3>1 DEF ScopeRecord
      <3> QED
        BY <3>1, <3>2 DEF ScopeRecord
    <2> QED
      BY <1>1, <2>1 DEF Charge
  <1> QED
    BY <1>3, <1>4, <1>5

-----------------------------------------------------------------------------
(* Claims and requests preserve the types.                                 *)

\* CJ2_TRY_CLAIM preserves the types.
LEMMA ClaimType ==
    ASSUME TypeInv, NEW w \in Workers, NEW j \in Jobs, NEW prior,
           NEW k \in RequestKinds, NEW heard \in BOOLEAN,
           Claim(w, j, prior, k, heard)
    PROVE  TypeInv'
  <1>1. job[j] \in JobRecord
    BY DEF TypeInv, TypeOK
  <1>2. SourceGroup[j] \in Groups
    BY SetsAssumption
  <1>3. job[j].lease_fence + 1 \in Nat /\ LeaseTTL \in Nat
    BY <1>1, BoundsAssumption DEF JobRecord
  <1>4. job' \in [Jobs -> JobRecord]
    <2> DEFINE r == job[j]
               p == PendingReservation(j, SourceGroup[j], k, "claim")
    <2>1. p \in Reservation
      BY <1>1, <1>2 DEF PendingReservation, Reservation, JobRecord
    <2>2. /\ r.claim_count + 1 \in Nat /\ r.request_starts \in Nat
          /\ r.next_request_ordinal + 1 \in Nat
      BY <1>1 DEF JobRecord
    <2> DEFINE q == [r EXCEPT !.state = "leased",
                              !.claim_count = r.claim_count + 1,
                              !.lease_fence = r.lease_fence + 1,
                              !.lease_owner = w, !.lease_left = LeaseTTL,
                              !.lease_delivery_started = 0,
                              !.baseline = r.request_starts,
                              !.reservation = p,
                              !.next_request_ordinal = r.next_request_ordinal + 1,
                              !.last_status = "CLAIMED"]
    <2>3. job' = [job EXCEPT ![j] = q]
      BY DEF Claim
    <2>4. q \in JobRecord
      <3>1. r \in JobRecord /\ r.lease_fence + 1 \in Nat
        BY <1>1, <1>3
      <3> HIDE DEF r, p
      <3> QED
        BY <1>3, <2>1, <2>2, <3>1 DEF JobRecord, OpenStates, Statuses
    <2> HIDE DEF q
    <2> QED
      BY <2>3, <2>4 DEF TypeInv, TypeOK
  <1>5. /\ run' \in RunRecord /\ CancelledFor'
        /\ group' \in [Groups -> GroupRecord]
        /\ scope' \in [Scopes -> ScopeRecord]
    BY <1>2, ChargeType DEF Claim
  <1>6. belief' \in [Workers -> BeliefRecord]
    BY <1>3, BeliefType DEF Claim
  <1> QED
    BY <1>4, <1>5, <1>6 DEF Claim, TypeInv, TypeOK

\* CJ2_RESERVE_REQUEST preserves the types.
LEMMA ReserveType ==
    ASSUME TypeInv, NEW w \in Workers, NEW j \in Jobs, NEW f \in Nat,
           NEW g \in Groups, NEW k \in RequestKinds, Reserve(w, j, f, g, k)
    PROVE  TypeInv'
  <1>1. job[j] \in JobRecord
    BY DEF TypeInv, TypeOK
  <1>2. job' \in [Jobs -> JobRecord]
    <2> DEFINE p == PendingReservation(j, g, k, "reserve")
               q == [job[j] EXCEPT !.reservation = p,
                                   !.next_request_ordinal =
                                       job[j].next_request_ordinal + 1]
    <2>1. p \in Reservation
      BY <1>1 DEF PendingReservation, Reservation, JobRecord
    <2>2. job[j].next_request_ordinal + 1 \in Nat
      BY <1>1 DEF JobRecord
    <2>3. job' = [job EXCEPT ![j] = q]
      BY DEF Reserve, TypeInv, TypeOK
    <2> HIDE DEF p
    <2>4. q \in JobRecord
      BY <1>1, <2>1, <2>2 DEF JobRecord
    <2> HIDE DEF q
    <2> QED
      BY <2>3, <2>4 DEF TypeInv, TypeOK
  <1>3. /\ run' \in RunRecord /\ CancelledFor'
        /\ group' \in [Groups -> GroupRecord]
        /\ scope' \in [Scopes -> ScopeRecord]
    BY ChargeType DEF Reserve
  <1> QED
    BY <1>2, <1>3 DEF Reserve, TypeInv, TypeOK

\* CJ2_START_REQUEST preserves the types.
LEMMA StartType ==
    ASSUME TypeInv, NEW w \in Workers, NEW j \in Jobs, NEW f \in Nat,
           NEW heard \in BOOLEAN, Start(w, j, f, heard)
    PROVE  TypeInv'
  <1> DEFINE r == job[j]
             g == r.reservation.group
  <1>1. /\ r \in JobRecord /\ run \in RunRecord
        /\ group \in [Groups -> GroupRecord]
        /\ scope \in [Scopes -> ScopeRecord]
        /\ belief[w] \in BeliefRecord
    BY DEF TypeInv, TypeOK
  <1>2. job' \in [Jobs -> JobRecord]
    <2> DEFINE p == [r.reservation EXCEPT !.state = "started"]
               attempts == r.delivery_attempts + 1 - r.lease_delivery_started
               fence == IF r.reservation.kind = "document" THEN f
                        ELSE r.document_fence
               q == [r EXCEPT !.delivery_attempts = attempts,
                              !.lease_delivery_started = 1,
                              !.request_starts = r.request_starts + 1,
                              !.reservation = p,
                              !.document_fence = fence]
    <2>1. p \in Reservation
      BY <1>1 DEF Reservation, JobRecord
    <2>2. /\ attempts \in Nat /\ r.request_starts + 1 \in Nat
          /\ fence \in Nat
      BY <1>1 DEF JobRecord
    <2>3. job' = [job EXCEPT ![j] = q]
      BY DEF Start, StartedRecord
    <2>4. q \in JobRecord
      <3> HIDE DEF p, attempts, fence, r
      <3> QED
        BY <1>1, <2>1, <2>2 DEF JobRecord
    <2> HIDE DEF q
    <2> QED
      BY <2>3, <2>4 DEF TypeInv, TypeOK
  <1>3. run' \in RunRecord /\ CancelledFor'
    <2>1. run' = [run EXCEPT !.pending = run.pending - 1,
                             !.started = run.started + 1,
                             !.request_starts = run.request_starts + 1]
      BY DEF Start
    <2>2. /\ run.pending - 1 \in Int /\ run.started + 1 \in Int
          /\ run.request_starts + 1 \in Nat
      BY <1>1 DEF RunRecord
    <2>3. run' \in RunRecord
      BY <1>1, <2>1, <2>2 DEF RunRecord
    <2>4. run'.state = run.state /\ run'.terminal_reason = run.terminal_reason
      BY <1>1, <2>1 DEF RunRecord
    <2> QED
      BY <2>3, <2>4 DEF TypeInv, CancelledFor
  <1>4. group' \in [Groups -> GroupRecord]
    <2>1. CASE g \in Groups
      <3> DEFINE q == [group[g] EXCEPT !.pending = group[g].pending - 1,
                                       !.active = group[g].active + 1,
                                       !.started = group[g].started + 1]
      <3>1. /\ group[g].pending - 1 \in Int /\ group[g].active + 1 \in Int
            /\ group[g].started + 1 \in Nat
        BY <1>1, <2>1 DEF GroupRecord
      <3>2. q \in GroupRecord
        BY <1>1, <2>1, <3>1 DEF GroupRecord
      <3>3. group' = [group EXCEPT ![g] = q]
        BY <1>1, <2>1 DEF Start, GroupRecord
      <3> HIDE DEF q
      <3> QED
        BY <1>1, <3>2, <3>3
    <2>2. CASE g \notin Groups
      BY <1>1, <2>2 DEF Start
    <2> QED
      BY <2>1, <2>2
  <1>5. scope' \in [Scopes -> ScopeRecord]
    <2> SUFFICES ASSUME NEW s \in Scopes, s \in ScopesOf[g]
                 PROVE  scope'[s] \in ScopeRecord
      BY <1>1 DEF Start
    <2> DEFINE left == IF s = GlobalScope THEN scope[s].next_left
                       ELSE MaxOf(scope[s].next_left, Interval[s])
    <2>1. scope[s] \in ScopeRecord
      BY <1>1
    <2>2. /\ scope[s].pending - 1 \in Int /\ scope[s].started + 1 \in Int
          /\ left \in Nat
      BY <2>1, PolicyAssumption DEF ScopeRecord, MaxOf
    <2>3. scope'[s] = [scope[s] EXCEPT !.pending = scope[s].pending - 1,
                                       !.started = scope[s].started + 1,
                                       !.next_left = left]
      BY DEF Start
    <2> HIDE DEF left
    <2> QED
      BY <2>1, <2>2, <2>3 DEF ScopeRecord
  <1>6. belief' \in [Workers -> BeliefRecord]
    BY <1>1, BeliefType DEF Start, BeliefRecord
  <1> QED
    BY <1>2, <1>3, <1>4, <1>5, <1>6 DEF Start, TypeInv, TypeOK

\* CJ2_FINISH_REQUEST and CJ2_CANCEL_RESERVATION preserve the types.
LEMMA EndReservationType ==
    ASSUME TypeInv, NEW w \in Workers, NEW j \in Jobs, NEW f \in Nat,
           EndReservation(w, j, f)
    PROVE  TypeInv'
  <1>1. job' \in [Jobs -> JobRecord]
    <2> DEFINE q == [job[j] EXCEPT !.reservation = NoReservation]
    <2>1. job[j] \in JobRecord /\ NoReservation \in Reservation
      BY DEF TypeInv, TypeOK, NoReservation, Reservation
    <2>2. q \in JobRecord
      BY <2>1 DEF JobRecord
    <2>3. job' = [job EXCEPT ![j] = q]
      BY DEF EndReservation
    <2> HIDE DEF q
    <2> QED
      BY <2>2, <2>3 DEF TypeInv, TypeOK
  <1>2. /\ run' \in RunRecord /\ CancelledFor'
        /\ group' \in [Groups -> GroupRecord]
        /\ scope' \in [Scopes -> ScopeRecord]
    BY ReleasedType DEF EndReservation, TypeInv, CancelledFor
  <1>3. belief' \in [Workers -> BeliefRecord]
    BY BeliefType, 0 \in Nat, TRUE \in BOOLEAN DEF EndReservation
  <1> QED
    BY <1>1, <1>2, <1>3 DEF EndReservation, TypeInv, TypeOK

\* CJ2_RENEW_LEASE preserves the types.
LEMMA RenewType ==
    ASSUME TypeInv, NEW w \in Workers, NEW j \in Jobs, NEW f \in Nat,
           NEW heard \in BOOLEAN, Renew(w, j, f, heard)
    PROVE  TypeInv'
  <1> DEFINE left == RenewedLease(j)
  <1>1. left \in Nat
    BY BoundsAssumption
       DEF RenewedLease, MinOf, TypeInv, TypeOK, StageRecord
  <1>2. job' \in [Jobs -> JobRecord]
    <2> DEFINE q == [job[j] EXCEPT !.lease_left = left]
    <2>1. q \in JobRecord
      <3> HIDE DEF left
      <3> QED
        BY SMTT(30), <1>1 DEF TypeInv, TypeOK, JobRecord
    <2>2. job' = [job EXCEPT ![j] = q]
      BY DEF Renew
    <2> HIDE DEF q
    <2> QED
      BY <2>1, <2>2 DEF TypeInv, TypeOK
  <1>3. belief' \in [Workers -> BeliefRecord]
    <2>1. belief[w].io \in BOOLEAN
      BY DEF TypeInv, TypeOK, BeliefRecord
    <2> QED
      BY <1>1, <2>1, BeliefType DEF Renew
  <1> QED
    BY <1>2, <1>3 DEF Renew, TypeInv, TypeOK, CancelledFor

-----------------------------------------------------------------------------
(* The ends of a lease, stages and maintenance preserve the types.         *)

\* Job.prepare_outcome, for every outcome that a worker may report.
LEMMA EndLeaseType ==
    ASSUME TypeInv, NEW w \in Workers, NEW j \in Jobs, NEW f \in Nat,
           NEW post \in JobRecord, EndLease(w, j, f, post)
    PROVE  TypeInv'
  <1> DEFINE record == IF Cancellation = "none" THEN post
                       ELSE Withdrawn(job[j], "CANCELLED")
             posts == [i \in {j} |-> record]
  <1>1. record \in JobRecord
    <2>1. "CANCELLED" \in Statuses /\ job[j] \in JobRecord
      BY DEF Statuses, TypeInv, TypeOK
    <2> QED
      BY <2>1, WithdrawnType
  <1>2. Settle({j}, posts, 0)
    BY DEF EndLease
  <1>3. belief' \in [Workers -> BeliefRecord]
    BY BeliefType, 0 \in Nat, TRUE \in BOOLEAN DEF EndLease
  <1>4. UNCHANGED visited
    BY DEF EndLease
  <1>5. \A i \in {j} : posts[i] \in JobRecord
    BY <1>1
  <1>6. {j} \in SUBSET Jobs /\ 0 \in Nat
    OBVIOUS
  <1> HIDE DEF posts
  <1> QED
    BY <1>2, <1>3, <1>4, <1>5, <1>6, SettledType

\* The six operations by which a worker gives up its lease preserve the types.
LEMMA DispositionType ==
    ASSUME TypeInv, NEW w \in Workers, NEW j \in Jobs, NEW f \in Nat,
           \/ ReleaseBeforeIo(w, j, f)
           \/ \E r \in RetryReasons : Retry(w, j, f, r)
           \/ \E r \in DeadReasons : Dead(w, j, f, r)
           \/ CompleteNoOutput(w, j, f)
           \/ CancelJob(w, j, f)
    PROVE  TypeInv'
  <1>1. job[j] \in JobRecord
    BY DEF TypeInv, TypeOK
  <1>2. {"RELEASED_READY", "RETRY_SCHEDULED", "DEAD", "COMPLETED", "CANCELLED"}
            \subseteq Statuses
    BY DEF Statuses
  <1>3. CASE ReleaseBeforeIo(w, j, f)
    <2>1. Outcome(job[j], "ready", "none", "RELEASED_READY") \in JobRecord
      BY <1>1, <1>2, OutcomeType DEF OpenStates, Reasons
    <2> QED
      BY <1>3, <2>1, EndLeaseType DEF ReleaseBeforeIo
  <1>4. ASSUME NEW r \in RetryReasons, Retry(w, j, f, r)
        PROVE  TypeInv'
    <2>1. Retried(job[j], r, "RETRY_SCHEDULED", "DEAD") \in JobRecord
      BY <1>1, <1>2, RetriedType DEF Reasons
    <2> QED
      BY <1>4, <2>1, EndLeaseType DEF Retry
  <1>5. ASSUME NEW r \in DeadReasons, Dead(w, j, f, r)
        PROVE  TypeInv'
    <2>1. Failed(job[j], r, r, "DEAD") \in JobRecord
      BY <1>1, <1>2, FailedType DEF Reasons
    <2> QED
      BY <1>5, <2>1, EndLeaseType DEF Dead
  <1>6. CASE CompleteNoOutput(w, j, f)
    <2>1. Outcome(job[j], "completed", "already_visited", "COMPLETED")
              \in JobRecord
      BY <1>1, <1>2, OutcomeType DEF TerminalStates, Reasons
    <2> QED
      BY <1>6, <2>1, EndLeaseType DEF CompleteNoOutput
  <1>7. CASE CancelJob(w, j, f)
    <2>1. Withdrawn(job[j], "CANCELLED") \in JobRecord
      BY <1>1, <1>2, WithdrawnType
    <2> QED
      BY <1>7, <2>1, EndLeaseType DEF CancelJob
  <1> QED
    BY <1>3, <1>4, <1>5, <1>6, <1>7

\* The ready jobs that end without a lease.
LEMMA ReadyEndType ==
    ASSUME TypeInv, NEW j \in Jobs,
           \/ \E prior \in Nat : ClaimVisited(j, prior)
           \/ \E r \in ReadyReasons : RejectReady(j, r)
    PROVE  TypeInv'
  <1>1. job[j] \in JobRecord /\ belief \in [Workers -> BeliefRecord]
    BY DEF TypeInv, TypeOK
  <1>2. ASSUME NEW post \in JobRecord, Settle({j}, [i \in {j} |-> post], 0),
               UNCHANGED <<visited, belief>>
        PROVE  TypeInv'
    <2> DEFINE posts == [i \in {j} |-> post]
    <2>1. \A i \in {j} : posts[i] \in JobRecord
      OBVIOUS
    <2>2. Settle({j}, posts, 0) /\ {j} \in SUBSET Jobs /\ 0 \in Nat
      BY <1>2
    <2> HIDE DEF posts
    <2> QED
      BY <1>1, <1>2, <2>1, <2>2, SettledType
  <1>3. ASSUME NEW prior \in Nat, ClaimVisited(j, prior)
        PROVE  TypeInv'
    <2>1. Outcome(job[j], "completed", "already_visited", "VISITED_COMPLETED")
              \in JobRecord
      BY <1>1, OutcomeType DEF TerminalStates, Reasons, Statuses
    <2> QED
      BY <1>2, <1>3, <2>1 DEF ClaimVisited
  <1>4. ASSUME NEW r \in ReadyReasons, RejectReady(j, r)
        PROVE  TypeInv'
    <2>1. Failed(job[j], r, r, "DEAD") \in JobRecord
      BY <1>1, FailedType, ReasonsAssumption DEF Reasons, Statuses
    <2> QED
      BY <1>2, <1>4, <2>1 DEF RejectReady
  <1> QED
    BY <1>3, <1>4

\* The operations on an output stage, up to its commit, preserve the types.
LEMMA StageStepType ==
    ASSUME TypeInv, NEW w \in Workers, NEW j \in Jobs, NEW f \in Nat,
           \/ BeginStage(w, j, f)
           \/ SealStage(w, j, f)
           \/ AbortStage(w, j, f)
           \/ \E r \in BlockReasons : Backpressure(w, j, f, r)
    PROVE  TypeInv'
  <1>1. /\ job[j] \in JobRecord /\ stage[j] \in StageRecord
        /\ job \in [Jobs -> JobRecord] /\ stage \in [Jobs -> StageRecord]
        /\ slots \subseteq SlotRecord
    BY DEF TypeInv, TypeOK
  <1>2. CASE BeginStage(w, j, f)
    <2> DEFINE q == [job[j] EXCEPT !.active_stage = TRUE, !.last_stage_fence = f]
               s == [sealed |-> FALSE, left |-> StageTTL,
                     generation |-> job[j].request_starts]
               a == [job |-> j, fence |-> f, aborted |-> FALSE]
    <2>1. q \in JobRecord
      BY <1>1 DEF JobRecord
    <2>2. s \in StageRecord
      <3>1. job[j].request_starts \in Nat /\ StageTTL \in Nat
        BY <1>1, BoundsAssumption DEF JobRecord
      <3> QED
        BY <3>1 DEF StageRecord
    <2>3. a \in SlotRecord
      BY DEF SlotRecord
    <2>4. /\ job' = [job EXCEPT ![j] = q]
          /\ stage' = [stage EXCEPT ![j] = s]
          /\ slots' = slots \cup {a}
      BY <1>1, <1>2 DEF BeginStage
    <2> HIDE DEF q, s, a
    <2>5. /\ job' \in [Jobs -> JobRecord] /\ stage' \in [Jobs -> StageRecord]
          /\ slots' \subseteq SlotRecord
      BY <1>1, <2>1, <2>2, <2>3, <2>4
    <2> QED
      BY <1>2, <2>5 DEF BeginStage, TypeInv, TypeOK, CancelledFor
  <1>3. CASE SealStage(w, j, f)
    <2>1. [stage[j] EXCEPT !.sealed = TRUE] \in StageRecord
      BY <1>1 DEF StageRecord
    <2>2. stage' = [stage EXCEPT ![j] = [stage[j] EXCEPT !.sealed = TRUE]]
      BY <1>1, <1>3 DEF SealStage
    <2>3. stage' \in [Jobs -> StageRecord]
      BY <1>1, <2>1, <2>2
    <2> QED
      BY <1>3, <2>3 DEF SealStage, TypeInv, TypeOK, CancelledFor
  <1>4. CASE AbortStage(w, j, f)
    <2> DEFINE q == [job[j] EXCEPT !.active_stage = FALSE, !.last_reason = "none",
                                   !.last_status = "STAGE_ABORTED"]
    <2>1. q \in JobRecord
      <3>1. "none" \in Reasons /\ "STAGE_ABORTED" \in Statuses
        BY DEF Reasons, Statuses
      <3> QED
        BY <1>1, <3>1 DEF JobRecord
    <2>2. job' = [job EXCEPT ![j] = q] /\ stage' = [stage EXCEPT ![j] = NoStage]
      BY <1>1, <1>4 DEF AbortStage
    <2> HIDE DEF q
    <2>3. job' \in [Jobs -> JobRecord] /\ stage' \in [Jobs -> StageRecord]
      BY <1>1, <2>1, <2>2 DEF NoStage, StageRecord
    <2>4. slots' \subseteq SlotRecord
      <3> DEFINE mark(s) == IF s.job = j THEN [s EXCEPT !.aborted = TRUE] ELSE s
      <3>1. \A s \in slots : mark(s) \in SlotRecord
        <4> SUFFICES ASSUME NEW s \in slots PROVE mark(s) \in SlotRecord
          OBVIOUS
        <4>1. s \in SlotRecord
          BY <1>1
        <4> QED
          BY <4>1 DEF SlotRecord
      <3>2. slots' = {mark(s) : s \in slots}
        BY <1>4 DEF AbortStage
      <3> HIDE DEF mark
      <3> QED
        BY <3>1, <3>2
    <2> QED
      BY <1>4, <2>3, <2>4 DEF AbortStage, TypeInv, TypeOK, CancelledFor
  <1>5. ASSUME NEW r \in BlockReasons, Backpressure(w, j, f, r)
        PROVE  TypeInv'
    <2> DEFINE left == BlockedFor(j)
               q == [job[j] EXCEPT !.blocked = r, !.blocked_left = left]
    <2>1. left \in Nat
      BY <1>1, BoundsAssumption DEF BlockedFor, MinOf, MaxOf, StageRecord
    <2>2. q \in JobRecord
      <3> HIDE DEF left
      <3> QED
        BY <1>1, <2>1 DEF JobRecord
    <2>3. job' = [job EXCEPT ![j] = q]
      BY <1>1, <1>5 DEF Backpressure
    <2> HIDE DEF q
    <2>4. job' \in [Jobs -> JobRecord]
      BY <1>1, <2>2, <2>3
    <2> QED
      BY <1>5, <2>4 DEF Backpressure, TypeInv, TypeOK, CancelledFor
  <1> QED
    BY <1>2, <1>3, <1>4, <1>5

\* The record of a job before its first claim is a job record.
LEMMA InitialType == InitialRecord \in JobRecord /\ AbsentRecord \in JobRecord
  <1>1. NoReservation \in Reservation
    BY DEF NoReservation, Reservation
  <1>2. "none" \in Reasons /\ NoStatus \in Statuses /\ "ready" \in OpenStates
    BY DEF Reasons, Statuses, OpenStates
  <1>3. InitialRecord \in JobRecord
    BY <1>1, <1>2 DEF InitialRecord, JobRecord
  <1> QED
    BY <1>3 DEF AbsentRecord, JobRecord

\* CJ2_COMMIT preserves the types.
LEMMA CommitType ==
    ASSUME TypeInv, NEW w \in Workers, NEW j \in Jobs, NEW f \in Nat,
           NEW D \in SUBSET Jobs, NEW A \in SUBSET Jobs, Commit(w, j, f, D, A)
    PROVE  TypeInv'
  <1> DEFINE fresh == Fresh(D, j)
             posted == Outcome(job[j], "completed", "published", "COMMITTED")
             delta(g) == Cardinality({d \in fresh : SourceGroup[d] = g})
                         - (IF SourceGroup[j] = g THEN 1 ELSE 0)
  <1>1. fresh \in SUBSET Jobs /\ Cardinality(fresh) \in Nat
    BY CardinalityOfJobs DEF Fresh
  <1>2. posted \in JobRecord
    BY OutcomeType DEF TypeInv, TypeOK, TerminalStates, Reasons, Statuses
  <1>3. job' \in [Jobs -> JobRecord]
    <2> HIDE DEF posted
    <2>1. job' = [i \in Jobs |-> IF i = j THEN posted
                                 ELSE IF i \in fresh THEN InitialRecord
                                 ELSE job[i]]
      BY DEF Commit, posted
    <2> QED
      BY <1>2, <2>1, InitialType DEF TypeInv, TypeOK
  <1>4. run' \in RunRecord /\ CancelledFor'
    <2> DEFINE n == Cardinality(fresh)
    <2>1. run \in RunRecord /\ n \in Nat
      BY <1>1 DEF TypeInv, TypeOK
    <2>2. run' = [run EXCEPT !.job_count = run.job_count + n,
                             !.open_job_count = run.open_job_count + n - 1,
                             !.completed = run.completed + 1,
                             !.commits = run.commits + 1]
      BY DEF Commit
    <2>3. /\ run.job_count + n \in Nat /\ run.open_job_count + n - 1 \in Int
          /\ run.completed + 1 \in Nat /\ run.commits + 1 \in Nat
      <3> HIDE DEF n
      <3>1. /\ run.job_count \in Nat /\ run.open_job_count \in Int
            /\ run.completed \in Nat /\ run.commits \in Nat
        BY <2>1 DEF RunRecord
      <3> QED
        BY <2>1, <3>1
    <2> HIDE DEF n
    <2>4. run' \in RunRecord
      BY <2>1, <2>2, <2>3 DEF RunRecord
    <2>5. run'.state = run.state /\ run'.terminal_reason = run.terminal_reason
      BY <2>1, <2>2 DEF RunRecord
    <2> QED
      BY <2>4, <2>5 DEF TypeInv, CancelledFor
  <1>5. group' \in [Groups -> GroupRecord]
    <2>1. \A g \in Groups : delta(g) \in Int
      <3> SUFFICES ASSUME NEW g \in Groups PROVE delta(g) \in Int
        OBVIOUS
      <3>1. {d \in fresh : SourceGroup[d] = g} \in SUBSET Jobs
        BY <1>1
      <3>2. Cardinality({d \in fresh : SourceGroup[d] = g}) \in Nat
        BY <3>1, CardinalityOfJobs
      <3> QED
        BY <3>2
    <2>2. \A g \in Groups : group[g] \in GroupRecord
      BY DEF TypeInv, TypeOK
    <2>3. group' = [g \in Groups |->
                      [group[g] EXCEPT !.open = group[g].open + delta(g)]]
      BY DEF Commit
    <2> HIDE DEF delta
    <2>4. \A g \in Groups : group[g].open + delta(g) \in Int
      BY <2>1, <2>2 DEF GroupRecord
    <2> QED
      BY <2>2, <2>3, <2>4 DEF GroupRecord
  <1>6. visited' \in [Jobs -> Nat \cup {Unvisited}]
    BY SetsAssumption DEF Commit, Visit, TypeInv, TypeOK
  <1>7. stage' \in [Jobs -> StageRecord] /\ slots' \subseteq SlotRecord
    BY DEF Commit, NoStage, StageRecord, SlotsWithout, TypeInv, TypeOK
  <1>8. belief' \in [Workers -> BeliefRecord]
    BY BeliefType, 0 \in Nat, TRUE \in BOOLEAN DEF Commit
  <1> QED
    BY <1>3, <1>4, <1>5, <1>6, <1>7, <1>8 DEF Commit, TypeInv, TypeOK

\* The maintenance operations preserve the types.
LEMMA MaintenanceType ==
    ASSUME TypeInv, Maintenance
    PROVE  TypeInv'
  <1>1. /\ run \in RunRecord /\ job \in [Jobs -> JobRecord]
        /\ belief \in [Workers -> BeliefRecord]
    BY DEF TypeInv, TypeOK
  <1>2. ASSUME NEW b \in SUBSET Jobs, PromoteDue(b)
        PROVE  TypeInv'
    <2>1. \A j \in Jobs : [job[j] EXCEPT !.state = "ready"] \in JobRecord
      BY <1>1 DEF JobRecord, OpenStates
    <2>2. job' \in [Jobs -> JobRecord]
      BY <1>1, <1>2, <2>1 DEF PromoteDue
    <2> QED
      BY <1>2, <2>2 DEF PromoteDue, TypeInv, TypeOK, CancelledFor
  <1>3. ASSUME NEW b \in SUBSET Jobs, CancelBatch(b)
        PROVE  TypeInv'
    <2> DEFINE post == [j \in b |-> Withdrawn(job[j], NoStatus)]
    <2>1. \A j \in b : post[j] \in JobRecord
      <3>1. \A j \in b : job[j] \in JobRecord
        BY <1>1
      <3> QED
        BY <3>1, WithdrawnType DEF Statuses
    <2>2. Settle(b, post, 0) /\ UNCHANGED <<visited, belief>> /\ 0 \in Nat
      BY <1>3 DEF CancelBatch
    <2> HIDE DEF post
    <2> QED
      BY <1>1, <2>1, <2>2, SettledType
  <1>4. CASE RecoverExpired
    <2> DEFINE post == [j \in Expired |-> Recovered(job[j])]
    <2>1. Expired \in SUBSET Jobs /\ Cardinality(Expired) \in Nat
      BY CardinalityOfJobs DEF Expired, InState
    <2>2. \A j \in Expired : post[j] \in JobRecord
      BY <1>1, <2>1, RecoveredType
    <2>3. /\ Settle(Expired, post, Cardinality(Expired))
          /\ UNCHANGED <<visited, belief>>
      BY <1>4 DEF RecoverExpired
    <2> HIDE DEF post
    <2> QED
      BY <1>1, <2>1, <2>2, <2>3, SettledType
  <1>5. ASSUME NEW r \in CancelReasons, CancelRun(r)
        PROVE  TypeInv'
    <2>1. run' = [run EXCEPT !.state = "cancelled", !.terminal_reason = r]
      BY <1>5 DEF CancelRun
    <2>2. run' \in RunRecord /\ run'.terminal_reason = r
      BY <1>1, <2>1 DEF RunRecord, RunReasons
    <2> QED
      BY <1>5, <2>2 DEF CancelRun, TypeInv, TypeOK, CancelledFor
  <1>6. CASE FinalizeRun
    <2>1. run' = [run EXCEPT !.state = Verdict[1], !.terminal_reason = Verdict[2],
                             !.finalized = TRUE]
      BY <1>6 DEF FinalizeRun
    <2>2. /\ Verdict[1] \in {"completed", "budget_exhausted", "cancelled"}
          /\ Verdict[2] \in RunReasons
          /\ Verdict[1] = "cancelled" => Verdict[2] \in CancelReasons
      BY <1>6 DEF FinalizeRun, Verdict, RunReasons, TypeInv, CancelledFor
    <2>3. run' \in RunRecord /\ CancelledFor'
      BY <1>1, <2>1, <2>2 DEF RunRecord, CancelledFor
    <2> QED
      BY <1>6, <2>3 DEF FinalizeRun, TypeInv, TypeOK
  <1> QED
    BY <1>2, <1>3, <1>4, <1>5, <1>6 DEF Maintenance

\* The passing of time keeps every time left a natural number.
LEMMA TickType ==
    ASSUME TypeInv, Tick
    PROVE  TypeInv'
  <1>1. \A t \in Nat : Less(t) \in Nat
    BY DEF Less
  <1>2. job' \in [Jobs -> JobRecord]
    <2> SUFFICES ASSUME NEW j \in Jobs PROVE job'[j] \in JobRecord
      BY DEF Tick
    <2> DEFINE r == job[j]
    <2>1. r \in JobRecord
      BY DEF TypeInv, TypeOK
    <2>2. job'[j] = [r EXCEPT !.lease_left = Less(r.lease_left),
                              !.not_before_left = Less(r.not_before_left),
                              !.blocked_left = Less(r.blocked_left)]
      BY DEF Tick
    <2>3. /\ Less(r.lease_left) \in Nat /\ Less(r.not_before_left) \in Nat
          /\ Less(r.blocked_left) \in Nat
      BY <1>1, <2>1 DEF JobRecord
    <2> HIDE DEF r
    <2> QED
      BY <2>1, <2>2, <2>3, ZenonT(120) DEF JobRecord
  <1>3. stage' \in [Jobs -> StageRecord]
    BY <1>1 DEF Tick, TypeInv, TypeOK, StageRecord
  <1>4. scope' \in [Scopes -> ScopeRecord]
    BY <1>1 DEF Tick, TypeInv, TypeOK, ScopeRecord
  <1>5. belief' \in [Workers -> BeliefRecord]
    BY <1>1 DEF Tick, TypeInv, TypeOK, BeliefRecord
  <1> QED
    BY <1>2, <1>3, <1>4, <1>5 DEF Tick, TypeInv, TypeOK, CancelledFor

\* The replayed replies, and what happens around the ledger, preserve the types.
LEMMA EnvironmentType ==
    ASSUME TypeInv,
           \/ \E w \in Workers, j \in Jobs : ReplayClaim(w, j)
           \/ \E w \in Workers, j \in Jobs, f \in Nat : ReplayStart(w, j, f)
           \/ AuthorizationExpires
           \/ \E w \in Workers : Abandon(w)
           \/ UNCHANGED vars
    PROVE  TypeInv'
  <1>1. ASSUME NEW w \in Workers, NEW j \in Jobs, ReplayClaim(w, j)
        PROVE  TypeInv'
    <2>1. job[j].lease_fence \in Nat /\ job[j].lease_left \in Nat
      BY DEF TypeInv, TypeOK, JobRecord
    <2>2. belief' \in [Workers -> BeliefRecord]
      BY <1>1, <2>1, BeliefType, FALSE \in BOOLEAN DEF ReplayClaim
    <2> QED
      BY <1>1, <2>2 DEF ReplayClaim, TypeInv, TypeOK, CancelledFor
  <1>2. ASSUME NEW w \in Workers, NEW j \in Jobs, NEW f \in Nat,
               ReplayStart(w, j, f)
        PROVE  TypeInv'
    <2>1. belief[w].left \in Nat
      BY DEF TypeInv, TypeOK, BeliefRecord
    <2>2. belief' \in [Workers -> BeliefRecord]
      BY <1>2, <2>1, BeliefType, TRUE \in BOOLEAN DEF ReplayStart
    <2> QED
      BY <1>2, <2>2 DEF ReplayStart, TypeInv, TypeOK, CancelledFor
  <1>3. CASE AuthorizationExpires
    BY <1>3 DEF AuthorizationExpires, TypeInv, TypeOK, CancelledFor, RunRecord
  <1>4. ASSUME NEW w \in Workers, Abandon(w)
        PROVE  TypeInv'
    BY <1>4 DEF Abandon, Idle, BeliefRecord, TypeInv, TypeOK, CancelledFor
  <1>5. CASE UNCHANGED vars
    BY <1>5 DEF vars, TypeInv, TypeOK, CancelledFor
  <1> QED
    BY <1>1, <1>2, <1>3, <1>4, <1>5

\* The initial values are of the right types.
LEMMA TypeInit == Init => TypeInv
  <1> SUFFICES ASSUME Init PROVE TypeInv
    OBVIOUS
  <1>1. run \in RunRecord /\ CancelledFor
    <2>1. Cardinality(Seeds) \in Nat
      BY SetsAssumption, CardinalityOfJobs
    <2> QED
      BY <2>1 DEF Init, RunRecord, RunReasons, CancelledFor
  <1>2. group \in [Groups -> GroupRecord]
    <2>1. \A g \in Groups : Cardinality({j \in Seeds : SourceGroup[j] = g}) \in Nat
      BY SetsAssumption, CardinalityOfJobs
    <2> QED
      BY <2>1 DEF Init, GroupRecord
  <1>3. scope \in [Scopes -> ScopeRecord]
    BY DEF Init, ScopeRecord
  <1>4. job \in [Jobs -> JobRecord]
    BY InitialType DEF Init
  <1>5. /\ stage \in [Jobs -> StageRecord] /\ slots \subseteq SlotRecord
        /\ visited \in [Jobs -> Nat \cup {Unvisited}]
        /\ belief \in [Workers -> BeliefRecord]
    BY DEF Init, NoStage, StageRecord, Idle, BeliefRecord
  <1> QED
    BY <1>1, <1>2, <1>3, <1>4, <1>5 DEF TypeInv, TypeOK

\* Every step of the ledger, of a worker and of time preserves the types.
LEMMA TypeStep == TypeInv /\ [Next]_vars => TypeInv'
  <1> SUFFICES ASSUME TypeInv, [Next]_vars PROVE TypeInv'
    OBVIOUS
  <1>1. \A j \in Jobs : job[j].lease_fence \in Nat
    BY DEF TypeInv, TypeOK, JobRecord
  <1>2. ASSUME NEW j \in Jobs, ReadyStep(j)
        PROVE  TypeInv'
    <2>1. \A prior \in 0 .. job[j].lease_fence : prior \in Nat
      BY <1>1
    <2> QED
      BY <1>2, <2>1, ReadyEndType, ClaimType, EnvironmentType DEF ReadyStep
  <1>3. ASSUME NEW j \in Jobs, NEW w \in Workers,
               NEW f \in 1 .. job[j].lease_fence, LeaseStep(w, j, f)
        PROVE  TypeInv'
    <2>1. f \in Nat
      BY <1>1
    <2> QED
      BY <1>3, <2>1, ReserveType, StartType, RenewType, EnvironmentType,
         EndReservationType, DispositionType, StageStepType, CommitType
      DEF LeaseStep, FinishRequest, CancelReservation
  <1>4. CASE Maintenance
    BY <1>4, MaintenanceType
  <1>5. CASE Tick
    BY <1>5, TickType
  <1>6. CASE AuthorizationExpires \/ (\E w \in Workers : Abandon(w)) \/ UNCHANGED vars
    BY <1>6, EnvironmentType
  <1> QED
    BY <1>2, <1>3, <1>4, <1>5, <1>6 DEF Next, Done

\* The records, counters and deadlines of the ledger keep their types whatever
\* sequence of calls, crashes and expiries occurs, for any number of jobs,
\* workers, groups and scopes and any limits: no counter is ever added to or
\* subtracted from outside the integers, and a lease counts one delivery at most.
THEOREM TypeCorrect == Spec => []TypeOK
  <1>1. TypeInv => TypeOK
    BY DEF TypeInv
  <1> QED
    BY <1>1, TypeInit, TypeStep, PTL DEF Spec

-----------------------------------------------------------------------------
(* Leases.  IoIsCovered is not inductive: a worker whose clock ran out may *)
(* hear another renewal, and its lease may by then belong to another       *)
(* fence.  BeliefsHold says what a belief is worth at all times, also when *)
(* it is out of date, and each step preserves it.                          *)

BeliefInv == TypeInv /\ BeliefsHold

\* A forgotten lease is tied to nothing.
LEMMA IdleIsTied ==
    ASSUME NEW w \in Workers, belief'[w] = Idle
    PROVE  Tied(w)'
  BY SetsAssumption DEF Tied, Idle

\* A call under a lease that its worker holds can only disturb that worker's own
\* belief in this very lease: whatever else a worker believes stays as true as
\* it was.
LEMMA LeaseCall ==
    ASSUME BeliefInv, NEW w \in Workers, NEW j \in Jobs, NEW f \in Nat,
           Holds(j, w, f),
           job'[j].lease_fence = job[j].lease_fence,
           job'[j].state = "leased" => job'[j].lease_owner = w,
           job'[j].state # "absent",
           \A i \in Jobs \ {j} :
              \/ job'[i] = job[i]
              \/ job[i].state = "absent" /\ job'[i] = InitialRecord,
           \A v \in Workers \ {w} : belief'[v] = belief[v],
           ~Believes(w, j, f) => belief'[w] = belief[w],
           Believes(w, j, f) => Tied(w)'
    PROVE  BeliefsHold'
  <1>0. InitialRecord.lease_fence = 0 /\ InitialRecord.state = "ready"
    BY DEF InitialRecord
  <1>1. \A i \in Jobs : job'[i].lease_fence = job[i].lease_fence
    <2>2. \A i \in Jobs : job[i].state = "absent" => job[i].lease_fence = 0
      BY DEF BeliefInv, BeliefsHold
    <2> QED
      BY <1>0, <2>2
  <1>2. ASSUME NEW v \in Workers, belief'[v] = belief[v],
               ~(v = w /\ Believes(w, j, f))
        PROVE  Tied(v)'
    <2> DEFINE b == belief[v]
    <2>1. Tied(v)
      BY DEF BeliefInv, BeliefsHold
    <2>2. ASSUME b.left > 0
          PROVE  /\ b.job \in Jobs /\ Holds(b.job, v, b.fence)'
                 /\ b.left =< job'[b.job].lease_left
      <3>1. /\ b.job \in Jobs /\ Holds(b.job, v, b.fence)
            /\ b.left =< job[b.job].lease_left
        BY <2>1, <2>2 DEF Tied
      <3>2. b.job # j
        BY <1>2, <3>1 DEF Holds, Believes
      <3>3. job'[b.job] = job[b.job]
        BY <3>1, <3>2 DEF Holds
      <3>4. belief'[v] = b
        BY <1>2
      <3> QED
        BY <3>1, <3>3, <3>4 DEF Holds
    <2>3. ASSUME b.job \in Jobs
          PROVE  /\ b.fence =< job'[b.job].lease_fence
                 /\ /\ b.io /\ b.fence = job'[b.job].lease_fence
                    /\ job'[b.job].state = "leased"
                    /\ job'[b.job].lease_owner = v
                    => job'[b.job].reservation.state = "started"
      <3>1. CASE b.job = j
        <4>1. v # w \/ b.fence # f
          BY <1>2, <3>1 DEF Believes
        <4> QED
          BY <1>1, <2>1, <2>3, <3>1, <4>1 DEF Tied, Holds
      <3>2. CASE b.job # j
        <4>1. \/ job'[b.job] = job[b.job]
              \/ job'[b.job].state = "ready"
          BY <1>0, <2>3, <3>2
        <4>2. /\ b.fence =< job[b.job].lease_fence
              /\ /\ b.io /\ b.fence = job[b.job].lease_fence
                 /\ job[b.job].state = "leased" /\ job[b.job].lease_owner = v
                 => job[b.job].reservation.state = "started"
          BY <2>1, <2>3 DEF Tied
        <4>3. job'[b.job].lease_fence = job[b.job].lease_fence
          BY <1>1, <2>3
        <4> HIDE DEF b
        <4> QED
          BY <4>1, <4>2, <4>3
      <3> QED
        BY <3>1, <3>2
    <2> QED
      BY <1>2, <2>2, <2>3 DEF Tied
  <1>3. \A v \in Workers : Tied(v)'
    BY <1>2
  <1>4. \A i \in Jobs : job'[i].state = "absent" => job'[i].lease_fence = 0
    BY <1>1 DEF BeliefInv, BeliefsHold
  <1> QED
    BY <1>3, <1>4 DEF BeliefsHold

\* A call that keeps the lease and its time, and that ends no request, leaves the
\* worker's belief true; so does one whose reply tells it no more than the record.
LEMMA LiveCall ==
    ASSUME BeliefInv, NEW w \in Workers, NEW j \in Jobs, NEW f \in Nat,
           Holds(j, w, f),
           NEW q \in JobRecord, job'[j] = q,
           \A i \in Jobs \ {j} : job'[i] = job[i],
           q.state = "leased", q.lease_owner = w, q.lease_fence = f,
           q.lease_left >= job[j].lease_left,
           job[j].reservation.state = "started" => q.reservation.state = "started",
           NEW left \in Nat, NEW io \in BOOLEAN,
           \/ UNCHANGED belief
           \/ /\ Learn(w, j, f, left, io) /\ Believes(w, j, f)
              /\ left =< q.lease_left
              /\ io => belief[w].io \/ q.reservation.state = "started"
    PROVE  BeliefsHold'
  <1>1. /\ job[j].lease_fence = f
        /\ belief \in [Workers -> BeliefRecord]
    BY DEF Holds, BeliefInv, TypeInv, TypeOK
  <1>2. ASSUME Believes(w, j, f)
        PROVE  Tied(w)'
    <2>1. Tied(w) /\ belief[w].job = j /\ belief[w].fence = f
      BY <1>2 DEF BeliefInv, BeliefsHold, Believes
    <2>2. belief[w].io => job[j].reservation.state = "started"
      BY <1>1, <2>1 DEF Tied, Holds
    <2>3. belief[w].left > 0 => belief[w].left =< q.lease_left
      <3>1. /\ job[j].lease_left \in Nat /\ q.lease_left \in Nat
            /\ belief[w].left \in Nat
        BY <1>1 DEF BeliefInv, TypeInv, TypeOK, JobRecord, BeliefRecord
      <3>2. belief[w].left > 0 => belief[w].left =< job[j].lease_left
        BY <2>1 DEF Tied
      <3> QED
        BY <3>1, <3>2
    <2>4. q.lease_left \in Nat /\ belief[w].left \in Nat /\ q.lease_fence =< f
      BY <1>1 DEF JobRecord, BeliefRecord
    <2>5. CASE UNCHANGED belief
      <3>1. belief'[w].left > 0 => q.lease_left > 0
        BY <2>3, <2>4, <2>5
      <3> QED
        BY <1>1, <2>1, <2>2, <2>3, <2>4, <2>5, <3>1 DEF Tied, Holds
    <2>6. CASE Learn(w, j, f, left, io) /\ left =< q.lease_left
               /\ (io => belief[w].io \/ q.reservation.state = "started")
      <3>1. /\ belief'[w].job = j /\ belief'[w].fence = f
            /\ belief'[w].left = left /\ belief'[w].io = io
        BY <1>1, <2>6 DEF Learn
      <3>2. belief'[w].left > 0 => q.lease_left > 0
        BY <2>4, <2>6, <3>1
      <3> QED
        BY <1>1, <2>2, <2>4, <2>6, <3>1, <3>2 DEF Tied, Holds
    <2> QED
      BY <2>5, <2>6
  <1>3. \A v \in Workers \ {w} : belief'[v] = belief[v]
    BY <1>1 DEF Learn
  <1> QED
    BY <1>1, <1>2, <1>3, LeaseCall

\* A job that leaves the leased state takes its worker's belief with it.
LEMMA EndCall ==
    ASSUME BeliefInv, NEW w \in Workers, NEW j \in Jobs, NEW f \in Nat,
           Holds(j, w, f), Forget(w, j, f),
           job'[j].lease_fence = f, job'[j].state \in OpenStates \cup TerminalStates,
           job'[j].state # "leased",
           \A i \in Jobs \ {j} :
              \/ job'[i] = job[i]
              \/ job[i].state = "absent" /\ job'[i] = InitialRecord
    PROVE  BeliefsHold'
  <1>1. belief \in [Workers -> BeliefRecord] /\ job[j].lease_fence = f
    BY DEF BeliefInv, TypeInv, TypeOK, Holds
  <1>2. /\ \A v \in Workers \ {w} : belief'[v] = belief[v]
        /\ ~Believes(w, j, f) => belief'[w] = belief[w]
        /\ Believes(w, j, f) => belief'[w] = Idle
    BY <1>1 DEF Forget
  <1>3. job'[j].state # "absent"
    BY DEF OpenStates, TerminalStates
  <1> QED
    BY <1>1, <1>2, <1>3, IdleIsTied, LeaseCall

\* The records of jobs that hold no unexpired lease may change: no worker counts
\* on them.
LEMMA UnheldJobs ==
    ASSUME BeliefInv, UNCHANGED belief, NEW D \in SUBSET Jobs,
           \A j \in D : /\ job[j].state = "leased" => job[j].lease_left = 0
                        /\ job'[j].state \in OpenStates \cup TerminalStates
                        /\ job'[j].state # "leased"
                        /\ job'[j].lease_fence = job[j].lease_fence,
           \A i \in Jobs \ D : job'[i] = job[i]
    PROVE  BeliefsHold'
  <1>1. \A i \in Jobs : job'[i].lease_fence = job[i].lease_fence
    OBVIOUS
  <1>2. ASSUME NEW w \in Workers
        PROVE  Tied(w)'
    <2> DEFINE b == belief[w]
    <2>1. Tied(w) /\ belief'[w] = b
      BY DEF BeliefInv, BeliefsHold
    <2>2. b.left > 0 => /\ b.job \in Jobs /\ Holds(b.job, w, b.fence)
                        /\ job'[b.job] = job[b.job]
      <3>1. b.left > 0 => b.job \in Jobs /\ Holds(b.job, w, b.fence)
        BY <2>1 DEF Tied
      <3>2. (b.job \in Jobs /\ Holds(b.job, w, b.fence)) => b.job \notin D
        BY DEF Holds
      <3> QED
        BY <3>1, <3>2
    <2>3. b.job \in Jobs => \/ job'[b.job] = job[b.job]
                            \/ job'[b.job].state # "leased"
      OBVIOUS
    <2> HIDE DEF b
    <2> QED
      BY <1>1, <2>1, <2>2, <2>3 DEF Tied, Holds, b
  <1>3. \A j \in Jobs : job'[j].state = "absent" => job'[j].lease_fence = 0
    BY <1>1 DEF BeliefInv, BeliefsHold, OpenStates, TerminalStates
  <1> QED
    BY <1>2, <1>3 DEF BeliefsHold

\* What a belief is worth depends on nothing but the job records.
LEMMA SameBeliefs ==
    ASSUME BeliefInv, UNCHANGED <<job, belief>>
    PROVE  BeliefsHold'
  <1>1. \A w \in Workers : Tied(w)'
    BY DEF BeliefInv, BeliefsHold, Tied, Holds
  <1> QED
    BY <1>1 DEF BeliefInv, BeliefsHold

\* No deadline of a record is still ahead.
Quiet(r) == r.lease_left = 0 /\ r.not_before_left = 0 /\ r.blocked_left = 0

\* What an outcome makes of a record: the job is leased no more, keeps its fence,
\* and waits for nothing if it is terminal.
Over(r, q) ==
    /\ q.state \in {"ready", "delayed"} \cup TerminalStates
    /\ q.lease_fence = r.lease_fence
    /\ q.state \in TerminalStates => Quiet(q)

\* Every record that an outcome builds is of a job whose lease is over.
LEMMA OutcomeIsOver ==
    ASSUME NEW r \in JobRecord, NEW reason, NEW failure, NEW status, NEW other
    PROVE  /\ \A st \in {"ready", "delayed"} \cup TerminalStates :
                 Over(r, Outcome(r, st, reason, status))
           /\ Over(r, Failed(r, reason, failure, status))
           /\ Over(r, Withdrawn(r, status))
           /\ Over(r, Retried(r, reason, status, other))
           /\ Over(r, Recovered(r))
  <1>1. ASSUME NEW st \in {"ready", "delayed"} \cup TerminalStates, NEW why, NEW what
        PROVE  Over(r, Outcome(r, st, why, what))
    BY DEF Outcome, Over, Quiet, JobRecord
  <1>2. ASSUME NEW why, NEW fail, NEW what
        PROVE  Over(r, Failed(r, why, fail, what))
    BY DEF Failed, Outcome, Over, Quiet, JobRecord, TerminalStates
  <1>3. ASSUME NEW what
        PROVE  Over(r, Withdrawn(r, what))
    BY <1>1 DEF Withdrawn, TerminalStates
  <1>4. ASSUME NEW why, NEW what, NEW else
        PROVE  Over(r, Retried(r, why, what, else))
    <2>1. CASE r.delivery_attempts = MaxDeliveryAttempts
      BY <1>2, <2>1 DEF Retried
    <2>2. CASE r.delivery_attempts # MaxDeliveryAttempts
      BY <2>2 DEF Retried, Outcome, Over, JobRecord, TerminalStates
    <2> QED
      BY <2>1, <2>2
  <1>5. Over(r, Recovered(r))
    <2>1. CASE Cancellation # "none" \/ r.lease_delivery_started = 1
      BY <1>3, <1>4, <2>1 DEF Recovered
    <2>2. CASE /\ Cancellation = "none" /\ r.lease_delivery_started # 1
               /\ r.pre_io_recoveries = MaxPreIoRecoveries - 1
      BY <2>2 DEF Recovered, Failed, Outcome, Over, Quiet, JobRecord, TerminalStates
    <2>3. CASE /\ Cancellation = "none" /\ r.lease_delivery_started # 1
               /\ r.pre_io_recoveries # MaxPreIoRecoveries - 1
      BY <2>3 DEF Recovered, Outcome, Over, JobRecord, TerminalStates
    <2> QED
      BY <2>1, <2>2, <2>3
  <1> QED
    BY <1>1, <1>2, <1>3, <1>4, <1>5

\* A claim makes a lease that only its worker may know of.
LEMMA ClaimBelief ==
    ASSUME BeliefInv, NEW w \in Workers, NEW j \in Jobs, NEW prior,
           NEW k \in RequestKinds, NEW heard \in BOOLEAN,
           Claim(w, j, prior, k, heard)
    PROVE  BeliefsHold'
  <1> DEFINE fence == job[j].lease_fence + 1
  <1>1. /\ job \in [Jobs -> JobRecord] /\ belief \in [Workers -> BeliefRecord]
        /\ job[j].lease_fence \in Nat
    BY DEF BeliefInv, TypeInv, TypeOK, JobRecord
  <1>2. /\ job[j].state = "ready"
        /\ \A i \in Jobs \ {j} : job'[i] = job[i]
    BY <1>1 DEF Claim
  <1>3. /\ job'[j].state = "leased" /\ job'[j].lease_owner = w
        /\ job'[j].lease_fence = fence /\ job'[j].lease_left = LeaseTTL
    BY <1>1 DEF Claim, JobRecord
  <1>4. ASSUME NEW v \in Workers, belief'[v] = belief[v]
        PROVE  Tied(v)'
    <2> DEFINE b == belief[v]
    <2>1. Tied(v) /\ b \in BeliefRecord
      BY <1>1 DEF BeliefInv, BeliefsHold
    <2>2. b.left > 0 => /\ b.job \in Jobs /\ Holds(b.job, v, b.fence)
                        /\ b.left =< job[b.job].lease_left /\ b.job # j
      BY <1>2, <2>1 DEF Tied, Holds
    <2>3. b.job = j => b.fence < fence
      BY <1>1, <2>1 DEF Tied, BeliefRecord
    <2>4. CASE b.job = j
      <3>1. b.fence =< job'[j].lease_fence /\ b.fence # job'[j].lease_fence
        BY <1>1, <1>3, <2>1, <2>3, <2>4 DEF BeliefRecord
      <3> QED
        BY <1>4, <2>2, <2>4, <3>1 DEF Tied
    <2>5. CASE b.job # j
      <3>1. b.job \in Jobs => job'[b.job] = job[b.job]
        BY <1>2, <2>5
      <3> QED
        BY <1>4, <2>1, <3>1 DEF Tied, Holds
    <2> QED
      BY <2>4, <2>5
  <1>5. CASE heard
    <2>1. Learn(w, j, fence, LeaseTTL, FALSE)
      BY <1>5 DEF Claim
    <2>2. /\ belief'[w].job = j /\ belief'[w].fence = fence
          /\ belief'[w].left = LeaseTTL /\ ~belief'[w].io
      BY <1>1, <2>1 DEF Learn
    <2>3. fence =< fence /\ LeaseTTL =< LeaseTTL /\ LeaseTTL > 0
      BY <1>1, BoundsAssumption
    <2> HIDE DEF fence
    <2>4. Tied(w)'
      BY <1>3, <2>2, <2>3 DEF Tied, Holds
    <2>5. \A v \in Workers \ {w} : belief'[v] = belief[v]
      BY <1>1, <2>1 DEF Learn
    <2>6. \A v \in Workers : Tied(v)'
      BY <1>4, <2>4, <2>5
    <2> QED
      BY <1>2, <1>3, <2>6 DEF BeliefInv, BeliefsHold
  <1>6. CASE ~heard
    <2>1. UNCHANGED belief
      BY <1>6 DEF Claim
    <2> QED
      BY <1>2, <1>3, <1>4, <2>1 DEF BeliefInv, BeliefsHold
  <1> QED
    BY <1>5, <1>6

\* A repeated claim tells the worker what the record says.
LEMMA ReplayClaimBelief ==
    ASSUME BeliefInv, NEW w \in Workers, NEW j \in Jobs, ReplayClaim(w, j)
    PROVE  BeliefsHold'
  <1> DEFINE f == job[j].lease_fence
  <1>1. /\ belief \in [Workers -> BeliefRecord] /\ f \in Nat
        /\ job[j].lease_left \in Nat
    BY DEF BeliefInv, TypeInv, TypeOK, JobRecord
  <1>2. Holds(j, w, f) /\ UNCHANGED job /\ Learn(w, j, f, job[j].lease_left, FALSE)
    BY DEF ReplayClaim
  <1>3. /\ belief'[w].job = j /\ belief'[w].fence = f /\ ~belief'[w].io
        /\ belief'[w].left = job[j].lease_left
        /\ \A v \in Workers \ {w} : belief'[v] = belief[v]
    BY <1>1, <1>2 DEF Learn
  <1>4. Tied(w)'
    BY <1>1, <1>2, <1>3 DEF Tied, Holds
  <1>5. \A v \in Workers \ {w} : Tied(v)'
    BY <1>2, <1>3 DEF BeliefInv, BeliefsHold, Tied, Holds
  <1> QED
    BY <1>2, <1>4, <1>5 DEF BeliefInv, BeliefsHold

\* A finished or cancelled request is one whose I/O the worker has ended.
LEMMA EndReservationBelief ==
    ASSUME BeliefInv, NEW w \in Workers, NEW j \in Jobs, NEW f \in Nat,
           EndReservation(w, j, f)
    PROVE  BeliefsHold'
  <1>1. /\ job \in [Jobs -> JobRecord] /\ belief \in [Workers -> BeliefRecord]
        /\ Holds(j, w, f)
    BY DEF BeliefInv, TypeInv, TypeOK, EndReservation
  <1>2. /\ job'[j].state = "leased" /\ job'[j].lease_owner = w
        /\ job'[j].lease_fence = f /\ job'[j].lease_left = job[j].lease_left
        /\ \A i \in Jobs \ {j} : job'[i] = job[i]
    BY <1>1 DEF EndReservation, Holds, JobRecord
  <1>3. /\ \A v \in Workers \ {w} : belief'[v] = belief[v]
        /\ ~Believes(w, j, f) => belief'[w] = belief[w]
    BY <1>1 DEF EndReservation, EndIo
  <1>4. ASSUME Believes(w, j, f)
        PROVE  Tied(w)'
    <2>1. belief' = [belief EXCEPT ![w] = [belief[w] EXCEPT !.io = FALSE]]
      BY <1>4 DEF EndReservation, EndIo
    <2>2. /\ belief'[w].job = j /\ belief'[w].fence = f /\ ~belief'[w].io
          /\ belief'[w].left = belief[w].left
      BY <1>1, <1>4, <2>1 DEF Believes, BeliefRecord
    <2>3. belief[w].left > 0 => belief[w].left =< job[j].lease_left
      BY <1>4 DEF BeliefInv, BeliefsHold, Tied, Believes
    <2> QED
      BY <1>1, <1>2, <2>2, <2>3 DEF Tied, Holds
  <1> QED
    BY <1>1, <1>2, <1>3, <1>4, LeaseCall DEF Holds

\* A worker never counts on more time than the record grants its lease.
LEMMA BelievedLeft ==
    ASSUME BeliefInv, NEW w \in Workers, NEW j \in Jobs, NEW f \in Nat,
           Holds(j, w, f), Believes(w, j, f)
    PROVE  belief[w].left =< job[j].lease_left
  <1>1. belief[w].left \in Nat /\ job[j].lease_left \in Nat
    BY DEF BeliefInv, TypeInv, TypeOK, JobRecord, BeliefRecord
  <1>2. belief[w].left > 0 => belief[w].left =< job[j].lease_left
    BY DEF BeliefInv, BeliefsHold, Tied, Believes
  <1> QED
    BY <1>1, <1>2

\* What the start of a request makes of the job that it is for.
LEMMA StartRecord ==
    ASSUME TypeInv, NEW w \in Workers, NEW j \in Jobs, NEW f \in Nat,
           NEW heard \in BOOLEAN, Start(w, j, f, heard)
    PROVE  /\ \A i \in Jobs \ {j} : job'[i] = job[i]
           /\ job'[j].state = job[j].state
           /\ job'[j].lease_owner = job[j].lease_owner
           /\ job'[j].lease_fence = job[j].lease_fence
           /\ job'[j].lease_left = job[j].lease_left
           /\ job'[j].reservation.state = "started"
  <1> DEFINE r == job[j]
             p == [r.reservation EXCEPT !.state = "started"]
             attempts == r.delivery_attempts + 1 - r.lease_delivery_started
             fence == IF r.reservation.kind = "document" THEN f
                      ELSE r.document_fence
             new == [r EXCEPT !.delivery_attempts = attempts,
                              !.lease_delivery_started = 1,
                              !.request_starts = r.request_starts + 1,
                              !.reservation = p,
                              !.document_fence = fence]
  <1>1. job \in [Jobs -> JobRecord] /\ r \in JobRecord
    BY DEF TypeInv, TypeOK
  <1>2. job' = [job EXCEPT ![j] = new]
    BY DEF Start, StartedRecord
  <1>3. job'[j] = new /\ \A i \in Jobs \ {j} : job'[i] = job[i]
    BY <1>1, <1>2
  <1>4. p.state = "started"
    BY <1>1 DEF JobRecord, Reservation
  <1>5. /\ new.state = r.state /\ new.lease_owner = r.lease_owner
        /\ new.lease_fence = r.lease_fence /\ new.lease_left = r.lease_left
        /\ new.reservation = p
    <2> HIDE DEF r, p, attempts, fence
    <2> QED
      BY <1>1 DEF JobRecord
  <1> QED
    BY <1>3, <1>4, <1>5

\* The calls that keep the lease keep the beliefs in it.
LEMMA LiveBelief ==
    ASSUME BeliefInv, TypeInv', NEW w \in Workers, NEW j \in Jobs, NEW f \in Nat,
           \/ \E g \in Groups, k \in RequestKinds : Reserve(w, j, f, g, k)
           \/ \E heard \in BOOLEAN : Start(w, j, f, heard)
           \/ \E heard \in BOOLEAN : Renew(w, j, f, heard)
           \/ ReplayStart(w, j, f)
           \/ BeginStage(w, j, f)
           \/ SealStage(w, j, f)
           \/ AbortStage(w, j, f)
           \/ \E r \in BlockReasons : Backpressure(w, j, f, r)
    PROVE  BeliefsHold'
  <1> DEFINE q == job'[j]
  <1>1. /\ job \in [Jobs -> JobRecord] /\ job' \in [Jobs -> JobRecord]
        /\ belief \in [Workers -> BeliefRecord] /\ q \in JobRecord
    BY DEF BeliefInv, TypeInv, TypeOK
  <1>2. /\ Holds(j, w, f) /\ job[j].lease_left \in Nat
        /\ belief[w].left \in Nat /\ belief[w].io \in BOOLEAN
    BY <1>1 DEF Reserve, Start, Renew, ReplayStart, BeginStage, SealStage,
                AbortStage, Backpressure, OwnsStage, StageReady, JobRecord,
                BeliefRecord
  <1>3. ASSUME NEW g \in Groups, NEW k \in RequestKinds, Reserve(w, j, f, g, k)
        PROVE  BeliefsHold'
    <2>1. /\ \A i \in Jobs \ {j} : job'[i] = job[i]
          /\ job[j].reservation = NoReservation /\ UNCHANGED belief
      BY <1>1, <1>3 DEF Reserve
    <2>2. job[j].reservation.state # "started"
      BY <2>1 DEF NoReservation
    <2>3. /\ q.state = "leased" /\ q.lease_owner = w /\ q.lease_fence = f
          /\ q.lease_left = job[j].lease_left
      BY <1>1, <1>2, <1>3, ZenonT(60) DEF Reserve, Holds, JobRecord
    <2> QED
      BY <1>1, <1>2, <2>1, <2>2, <2>3, LiveCall, FALSE \in BOOLEAN
  <1>4. ASSUME NEW heard \in BOOLEAN, Start(w, j, f, heard)
        PROVE  BeliefsHold'
    <2>1. /\ \A i \in Jobs \ {j} : job'[i] = job[i]
          /\ q.state = "leased" /\ q.lease_owner = w /\ q.lease_fence = f
          /\ q.lease_left = job[j].lease_left
      BY <1>2, <1>4, StartRecord DEF BeliefInv, Holds
    <2>2. q.reservation.state = "started"
      BY <1>4, StartRecord DEF BeliefInv
    <2>3. \/ UNCHANGED belief
          \/ Learn(w, j, f, belief[w].left, TRUE) /\ Believes(w, j, f)
      BY <1>4 DEF Start
    <2>4. Believes(w, j, f) => belief[w].left =< q.lease_left
      BY <1>2, <2>1, BelievedLeft
    <2>5. q = job'[j] /\ job[j].lease_left =< q.lease_left
      BY <1>2, <2>1
    <2> HIDE DEF q
    <2>6. CASE UNCHANGED belief
      BY <1>1, <1>2, <2>1, <2>2, <2>5, <2>6, LiveCall
    <2>7. CASE Learn(w, j, f, belief[w].left, TRUE) /\ Believes(w, j, f)
      <3> DEFINE left == belief[w].left
      <3>1. left \in Nat /\ left =< q.lease_left /\ Learn(w, j, f, left, TRUE)
        BY <1>2, <2>4, <2>7
      <3>2. TRUE => belief[w].io \/ q.reservation.state = "started"
        BY <2>2
      <3> HIDE DEF left
      <3> QED
        BY <1>1, <1>2, <2>1, <2>2, <2>5, <2>7, <3>1, <3>2, LiveCall
    <2> QED
      BY <2>3, <2>6, <2>7
  <1>5. ASSUME NEW heard \in BOOLEAN, Renew(w, j, f, heard)
        PROVE  BeliefsHold'
    <2> DEFINE left == RenewedLease(j)
    <2>1. /\ \A i \in Jobs \ {j} : job'[i] = job[i]
          /\ q.lease_left = left /\ left >= job[j].lease_left
          /\ q.state = "leased" /\ q.lease_owner = w /\ q.lease_fence = f
          /\ q.reservation = job[j].reservation
      BY <1>1, <1>2, <1>5 DEF Renew, Holds, JobRecord
    <2>2. left \in Nat
      BY <1>1, <2>1 DEF JobRecord
    <2>3. \/ UNCHANGED belief
          \/ Learn(w, j, f, left, belief[w].io) /\ Believes(w, j, f)
      BY <1>5 DEF Renew
    <2> HIDE DEF left
    <2> QED
      BY <1>1, <1>2, <2>1, <2>2, <2>3, LiveCall
  <1>6. CASE ReplayStart(w, j, f)
    <2>1. /\ \A i \in Jobs : job'[i] = job[i]
          /\ q.reservation.state = "started"
          /\ Learn(w, j, f, belief[w].left, TRUE) /\ Believes(w, j, f)
      BY <1>1, <1>6 DEF ReplayStart
    <2>2. belief[w].left =< q.lease_left
      BY <1>2, <2>1, BelievedLeft
    <2>3. /\ q.state = "leased" /\ q.lease_owner = w /\ q.lease_fence = f
          /\ q.lease_left >= job[j].lease_left
      BY <1>2, <2>1 DEF Holds
    <2> QED
      BY <1>1, <1>2, <2>1, <2>2, <2>3, LiveCall, TRUE \in BOOLEAN
  <1>7. CASE \/ BeginStage(w, j, f) \/ SealStage(w, j, f) \/ AbortStage(w, j, f)
             \/ \E r \in BlockReasons : Backpressure(w, j, f, r)
    <2>1. (\A i \in Jobs \ {j} : job'[i] = job[i]) /\ UNCHANGED belief
      BY <1>1, <1>7 DEF BeginStage, SealStage, AbortStage, Backpressure
    <2>2. /\ q.state = job[j].state /\ q.lease_owner = job[j].lease_owner
          /\ q.lease_fence = job[j].lease_fence
          /\ q.lease_left = job[j].lease_left
          /\ q.reservation = job[j].reservation
      <3>1. CASE BeginStage(w, j, f)
        BY <1>1, <3>1 DEF BeginStage, JobRecord
      <3>2. CASE SealStage(w, j, f)
        BY <1>1, <3>2 DEF SealStage
      <3>3. CASE AbortStage(w, j, f)
        BY <1>1, <3>3 DEF AbortStage, JobRecord
      <3>4. CASE \E r \in BlockReasons : Backpressure(w, j, f, r)
        <4> DEFINE left == BlockedFor(j)
        <4>1. PICK r \in BlockReasons : Backpressure(w, j, f, r)
          BY <3>4
        <4>2. q = [job[j] EXCEPT !.blocked = r, !.blocked_left = left]
          BY <1>1, <4>1 DEF Backpressure
        <4> HIDE DEF left
        <4> QED
          BY <1>1, <4>2 DEF JobRecord
      <3> QED
        BY <1>7, <3>1, <3>2, <3>3, <3>4
    <2> QED
      BY <1>1, <1>2, <2>1, <2>2, LiveCall, FALSE \in BOOLEAN DEF Holds
  <1> QED
    BY <1>3, <1>4, <1>5, <1>6, <1>7

\* The outcomes that a worker reports end its belief with the lease.
LEMMA DispositionBelief ==
    ASSUME BeliefInv, NEW w \in Workers, NEW j \in Jobs, NEW f \in Nat,
           \/ ReleaseBeforeIo(w, j, f)
           \/ \E r \in RetryReasons : Retry(w, j, f, r)
           \/ \E r \in DeadReasons : Dead(w, j, f, r)
           \/ CompleteNoOutput(w, j, f)
           \/ CancelJob(w, j, f)
    PROVE  BeliefsHold'
  <1>1. job[j] \in JobRecord
    BY DEF BeliefInv, TypeInv, TypeOK
  <1>2. ASSUME NEW post, Over(job[j], post), EndLease(w, j, f, post)
        PROVE  BeliefsHold'
    <2> DEFINE q == IF Cancellation = "none" THEN post
                    ELSE Withdrawn(job[j], "CANCELLED")
    <2>1. Holds(j, w, f) /\ Forget(w, j, f)
      BY <1>2 DEF EndLease, GivesUp
    <2>2. Over(job[j], q)
      BY <1>1, <1>2, OutcomeIsOver
    <2>3. job'[j] = q /\ \A i \in Jobs \ {j} : job'[i] = job[i]
      BY <1>2 DEF EndLease, Settle
    <2> HIDE DEF q
    <2>4. /\ job'[j].lease_fence = f /\ job'[j].state # "leased"
          /\ job'[j].state \in OpenStates \cup TerminalStates
      BY <2>1, <2>2, <2>3 DEF Over, Holds, OpenStates, TerminalStates
    <2> QED
      BY <2>1, <2>3, <2>4, EndCall
  <1>3. CASE ReleaseBeforeIo(w, j, f)
    BY <1>1, <1>2, <1>3, OutcomeIsOver DEF ReleaseBeforeIo
  <1>4. CASE \E r \in RetryReasons : Retry(w, j, f, r)
    BY <1>1, <1>2, <1>4, OutcomeIsOver DEF Retry
  <1>5. CASE \E r \in DeadReasons : Dead(w, j, f, r)
    BY <1>1, <1>2, <1>5, OutcomeIsOver DEF Dead
  <1>6. CASE CompleteNoOutput(w, j, f)
    BY <1>1, <1>2, <1>6, OutcomeIsOver DEF CompleteNoOutput, TerminalStates
  <1>7. CASE CancelJob(w, j, f)
    BY <1>1, <1>2, <1>7, OutcomeIsOver DEF CancelJob
  <1> QED
    BY <1>3, <1>4, <1>5, <1>6, <1>7

\* So does the publication of the job's page, which may open absent jobs.
LEMMA CommitBelief ==
    ASSUME BeliefInv, NEW w \in Workers, NEW j \in Jobs, NEW f \in Nat,
           NEW D \in SUBSET Jobs, NEW A \in SUBSET Jobs, Commit(w, j, f, D, A)
    PROVE  BeliefsHold'
  <1> DEFINE posted == Outcome(job[j], "completed", "published", "COMMITTED")
  <1>1. Holds(j, w, f) /\ Forget(w, j, f)
    BY DEF Commit, OwnsStage, StageReady
  <1>2. Over(job[j], posted) /\ posted.state = "completed"
    BY ZenonT(60), OutcomeIsOver DEF BeliefInv, TypeInv, TypeOK, TerminalStates,
                         Outcome, JobRecord
  <1>3. /\ job'[j] = posted
        /\ \A i \in Jobs \ {j} : \/ job'[i] = job[i]
                                 \/ job[i].state = "absent" /\ job'[i] = InitialRecord
    BY DEF Commit, Fresh
  <1> HIDE DEF posted
  <1>4. /\ job'[j].lease_fence = f /\ job'[j].state # "leased"
        /\ job'[j].state \in OpenStates \cup TerminalStates
    BY <1>1, <1>2, <1>3 DEF Over, Holds, TerminalStates
  <1> QED
    BY <1>1, <1>3, <1>4, EndCall

\* Jobs that end, wait or become ready without a live lease concern no belief.
LEMMA UnheldBelief ==
    ASSUME BeliefInv,
           \/ \E j \in Jobs, prior \in Nat : ClaimVisited(j, prior)
           \/ \E j \in Jobs, r \in ReadyReasons : RejectReady(j, r)
           \/ Maintenance
    PROVE  BeliefsHold'
  <1>1. job \in [Jobs -> JobRecord]
    BY DEF BeliefInv, TypeInv, TypeOK
  <1>2. ASSUME NEW D \in SUBSET Jobs, NEW post, NEW n, Settle(D, post, n),
               UNCHANGED belief,
               \A j \in D : /\ job[j].state = "leased" => job[j].lease_left = 0
                            /\ Over(job[j], post[j])
        PROVE  BeliefsHold'
    <2>1. /\ \A j \in D : job'[j] = post[j]
          /\ \A i \in Jobs \ D : job'[i] = job[i]
      BY <1>2 DEF Settle
    <2>2. \A j \in D : /\ job'[j].state \in OpenStates \cup TerminalStates
                       /\ job'[j].state # "leased"
                       /\ job'[j].lease_fence = job[j].lease_fence
      BY <1>2, <2>1 DEF Over, OpenStates, TerminalStates
    <2> QED
      BY <1>2, <2>1, <2>2, UnheldJobs
  <1>3. ASSUME NEW j \in Jobs, NEW q, Settle({j}, [i \in {j} |-> q], 0),
               UNCHANGED belief, job[j].state = "ready", Over(job[j], q)
        PROVE  BeliefsHold'
    <2> DEFINE post == [i \in {j} |-> q]
    <2>1. post[j] = q /\ Settle({j}, post, 0) /\ {j} \in SUBSET Jobs
      BY <1>3
    <2> HIDE DEF post
    <2> QED
      BY <1>2, <1>3, <2>1
  <1>4. ASSUME NEW j \in Jobs, NEW prior \in Nat, ClaimVisited(j, prior)
        PROVE  BeliefsHold'
    <2> DEFINE q == Outcome(job[j], "completed", "already_visited",
                            "VISITED_COMPLETED")
    <2>1. Over(job[j], q)
      BY <1>1, OutcomeIsOver DEF TerminalStates
    <2>2. /\ Settle({j}, [i \in {j} |-> q], 0) /\ UNCHANGED belief
          /\ job[j].state = "ready"
      BY <1>4 DEF ClaimVisited
    <2> HIDE DEF q
    <2> QED
      BY <1>3, <2>1, <2>2
  <1>5. ASSUME NEW j \in Jobs, NEW r \in ReadyReasons, RejectReady(j, r)
        PROVE  BeliefsHold'
    <2> DEFINE q == Failed(job[j], r, r, "DEAD")
    <2>1. Over(job[j], q)
      BY <1>1, OutcomeIsOver
    <2>2. /\ Settle({j}, [i \in {j} |-> q], 0) /\ UNCHANGED belief
          /\ job[j].state = "ready"
      BY <1>5 DEF RejectReady
    <2> HIDE DEF q
    <2> QED
      BY <1>3, <2>1, <2>2
  <1>6. ASSUME NEW b \in SUBSET Jobs, PromoteDue(b)
        PROVE  BeliefsHold'
    <2>1. /\ UNCHANGED belief /\ \A i \in Jobs \ b : job'[i] = job[i]
          /\ \A j \in b : /\ job[j].state = "delayed"
                          /\ job'[j] = [job[j] EXCEPT !.state = "ready"]
      BY <1>6 DEF PromoteDue, IsBatch, DueRetries, InState
    <2>3. ASSUME NEW j \in b
          PROVE  /\ job'[j].state = "ready" /\ job[j].state # "leased"
                 /\ job'[j].lease_fence = job[j].lease_fence
      <3>1. /\ job[j] \in JobRecord /\ job[j].state = "delayed"
            /\ job'[j] = [job[j] EXCEPT !.state = "ready"]
        BY <1>1, <2>1
      <3> QED
        BY <3>1 DEF JobRecord
    <2> QED
      BY <2>1, <2>3, UnheldJobs DEF OpenStates
  <1>7. ASSUME NEW b \in SUBSET Jobs, CancelBatch(b)
        PROVE  BeliefsHold'
    <2> DEFINE post == [j \in b |-> Withdrawn(job[j], NoStatus)]
    <2>1. \A j \in b : job[j].state # "leased"
      BY <1>7 DEF CancelBatch, IsBatch, Cancellable, InState
    <2>2. \A j \in b : Over(job[j], post[j])
      BY <1>1, OutcomeIsOver
    <2>3. Settle(b, post, 0) /\ UNCHANGED belief
      BY <1>7 DEF CancelBatch
    <2> HIDE DEF post
    <2> QED
      BY <1>2, <2>1, <2>2, <2>3
  <1>8. CASE RecoverExpired
    <2> DEFINE post == [j \in Expired |-> Recovered(job[j])]
    <2>1. Expired \in SUBSET Jobs /\ \A j \in Expired : job[j].lease_left = 0
      BY DEF Expired, InState
    <2>2. \A j \in Expired : Over(job[j], post[j])
      BY <1>1, <2>1, OutcomeIsOver
    <2>3. Settle(Expired, post, Cardinality(Expired)) /\ UNCHANGED belief
      BY <1>8 DEF RecoverExpired
    <2> HIDE DEF post
    <2> QED
      BY <1>2, <2>1, <2>2, <2>3
  <1>9. CASE (\E r \in CancelReasons : CancelRun(r)) \/ FinalizeRun
    <2>1. UNCHANGED <<job, belief>>
      BY <1>9 DEF CancelRun, FinalizeRun
    <2> QED
      BY <2>1, SameBeliefs
  <1> QED
    BY <1>4, <1>5, <1>6, <1>7, <1>8, <1>9 DEF Maintenance

\* The worker's clock runs no slower than the ledger's.
LEMMA TickBelief ==
    ASSUME BeliefInv, Tick
    PROVE  BeliefsHold'
  <1>1. job \in [Jobs -> JobRecord] /\ belief \in [Workers -> BeliefRecord]
    BY DEF BeliefInv, TypeInv, TypeOK
  <1>2. ASSUME NEW j \in Jobs
        PROVE  /\ job'[j].state = job[j].state
               /\ job'[j].lease_owner = job[j].lease_owner
               /\ job'[j].lease_fence = job[j].lease_fence
               /\ job'[j].reservation = job[j].reservation
               /\ job'[j].lease_left = Less(job[j].lease_left)
    <2>1. job[j] \in JobRecord
      BY <1>1
    <2>2. job'[j] = [job[j] EXCEPT
                       !.lease_left = Less(job[j].lease_left),
                       !.not_before_left = Less(job[j].not_before_left),
                       !.blocked_left = Less(job[j].blocked_left)]
      BY DEF Tick
    <2> QED
      BY <2>1, <2>2 DEF JobRecord
  <1>3. ASSUME NEW w \in Workers
        PROVE  Tied(w)'
    <2> DEFINE b == belief[w]
    <2>1. Tied(w) /\ b \in BeliefRecord
      BY <1>1 DEF BeliefInv, BeliefsHold
    <2>2. /\ belief'[w].job = b.job /\ belief'[w].fence = b.fence
          /\ belief'[w].io = b.io /\ belief'[w].left = Less(b.left)
      <3>1. belief'[w] = [b EXCEPT !.left = Less(b.left)]
        BY DEF Tick
      <3> HIDE DEF b
      <3> QED
        BY <2>1, <3>1 DEF BeliefRecord
    <2>3. b.job \in Jobs => job[b.job].lease_left \in Nat
      BY <1>1 DEF JobRecord
    <2> HIDE DEF b
    <2>4. belief'[w].left > 0 =>
             /\ b.job \in Jobs /\ Holds(b.job, w, b.fence)
             /\ Less(b.left) > 0 /\ Less(b.left) =< Less(job[b.job].lease_left)
      <3>1. belief'[w].left > 0 => b.left > 0
        BY <2>1, <2>2 DEF Less, BeliefRecord
      <3>2. b.left > 0 => /\ b.job \in Jobs /\ Holds(b.job, w, b.fence)
                          /\ b.left =< job[b.job].lease_left
        BY <2>1 DEF Tied, b
      <3>3. b.left \in Nat
        BY <2>1 DEF BeliefRecord
      <3> QED
        BY <2>2, <2>3, <3>1, <3>2, <3>3 DEF Less
    <2>5. belief'[w].left > 0 =>
             /\ b.job \in Jobs
             /\ job'[b.job].state = "leased" /\ job'[b.job].lease_owner = w
             /\ job'[b.job].lease_fence = b.fence /\ job'[b.job].lease_left > 0
             /\ belief'[w].left =< job'[b.job].lease_left
      <3>1. ASSUME b.job \in Jobs, Holds(b.job, w, b.fence), Less(b.left) > 0,
                   Less(b.left) =< Less(job[b.job].lease_left)
            PROVE  /\ job'[b.job].state = "leased" /\ job'[b.job].lease_owner = w
                   /\ job'[b.job].lease_fence = b.fence
                   /\ job'[b.job].lease_left > 0
        BY <1>2, <2>1, <2>3, <3>1 DEF Holds, Less, BeliefRecord
      <3> QED
        BY <1>2, <2>2, <2>4, <3>1
    <2>6. b.job \in Jobs =>
             /\ b.fence =< job'[b.job].lease_fence
             /\ /\ b.io /\ b.fence = job'[b.job].lease_fence
                /\ job'[b.job].state = "leased" /\ job'[b.job].lease_owner = w
                => job'[b.job].reservation.state = "started"
      BY <1>2, <2>1 DEF Tied, b
    <2> QED
      BY <2>2, <2>5, <2>6 DEF Tied, Holds
  <1>4. \A j \in Jobs : job'[j].state = "absent" => job'[j].lease_fence = 0
    BY <1>2 DEF BeliefInv, BeliefsHold
  <1> QED
    BY <1>3, <1>4 DEF BeliefsHold

\* A worker that crashes or drops its lease relies on nothing.
LEMMA AbandonBelief ==
    ASSUME BeliefInv, NEW w \in Workers, Abandon(w)
    PROVE  BeliefsHold'
  <1>1. belief \in [Workers -> BeliefRecord]
    BY DEF BeliefInv, TypeInv, TypeOK
  <1>2. /\ belief'[w] = Idle /\ UNCHANGED job
        /\ \A v \in Workers \ {w} : belief'[v] = belief[v]
    BY <1>1 DEF Abandon
  <1>3. \A v \in Workers \ {w} : Tied(v)'
    BY <1>2 DEF BeliefInv, BeliefsHold, Tied, Holds
  <1> QED
    BY <1>2, <1>3, IdleIsTied DEF BeliefInv, BeliefsHold

\* Every step preserves what the beliefs are worth.
LEMMA BeliefStep == BeliefInv /\ [Next]_vars => BeliefInv'
  <1> SUFFICES ASSUME BeliefInv, [Next]_vars PROVE BeliefInv'
    OBVIOUS
  <1>1. TypeInv'
    BY TypeStep DEF BeliefInv
  <1>2. \A j \in Jobs : job[j].lease_fence \in Nat
    BY DEF BeliefInv, TypeInv, TypeOK, JobRecord
  <1>3. ASSUME NEW j \in Jobs, ReadyStep(j)
        PROVE  BeliefsHold'
    <2>1. \A prior \in 0 .. job[j].lease_fence : prior \in Nat
      BY <1>2
    <2> QED
      BY <1>3, <2>1, ClaimBelief, ReplayClaimBelief, UnheldBelief DEF ReadyStep
  <1>4. ASSUME NEW j \in Jobs, NEW w \in Workers,
               NEW f \in 1 .. job[j].lease_fence, LeaseStep(w, j, f)
        PROVE  BeliefsHold'
    <2>1. f \in Nat
      BY <1>2
    <2> QED
      BY <1>1, <1>4, <2>1, LiveBelief, EndReservationBelief, DispositionBelief,
         CommitBelief
      DEF LeaseStep, FinishRequest, CancelReservation
  <1>5. ASSUME Maintenance PROVE BeliefsHold'
    BY <1>5, UnheldBelief
  <1>6. ASSUME Tick PROVE BeliefsHold'
    BY <1>6, TickBelief
  <1>7. ASSUME AuthorizationExpires \/ UNCHANGED vars PROVE BeliefsHold'
    BY <1>7, SameBeliefs DEF AuthorizationExpires, vars
  <1>8. ASSUME NEW w \in Workers, Abandon(w) PROVE BeliefsHold'
    BY <1>8, AbandonBelief
  <1> QED
    BY <1>1, <1>3, <1>4, <1>5, <1>6, <1>7, <1>8 DEF Next, Done, BeliefInv

\* No worker holds a belief at the start.
LEMMA BeliefInit == Init => BeliefInv
  <1> SUFFICES ASSUME Init PROVE BeliefInv
    OBVIOUS
  <1>1. \A w \in Workers : Tied(w)
    BY SetsAssumption DEF Init, Idle, Tied
  <1>2. \A j \in Jobs : job[j].lease_fence = 0
    BY DEF Init, InitialRecord, AbsentRecord
  <1> QED
    BY <1>1, <1>2, TypeInit DEF BeliefInv, BeliefsHold

\* A worker never counts on more of a lease than the ledger still grants: its
\* heartbeat and its deadline may trust the last reply it heard.
THEOREM LeaseKnown == Spec => []BeliefsHold
  <1>1. BeliefInv => BeliefsHold
    BY DEF BeliefInv
  <1> QED
    BY <1>1, BeliefInit, BeliefStep, PTL DEF Spec

\* Request I/O is done under a lease that is truly held and for a request that is
\* still counted, for any number of workers and jobs, whatever replies are lost,
\* whatever requests are repeated and whenever leases are recovered.
THEOREM IoCovered == Spec => []IoIsCovered
  <1>1. BeliefInv => IoIsCovered
    <2> SUFFICES ASSUME BeliefInv, NEW w \in Workers,
                        belief[w].io, belief[w].left > 0
                 PROVE  /\ Holds(belief[w].job, w, belief[w].fence)
                        /\ job[belief[w].job].reservation.state = "started"
      BY DEF IoIsCovered
    <2>1. Tied(w)
      BY DEF BeliefInv, BeliefsHold
    <2> QED
      BY <2>1 DEF Tied, Holds
  <1> QED
    BY <1>1, BeliefInit, BeliefStep, PTL DEF Spec

\* Two workers are never doing request I/O for one job at the same time.
THEOREM OneFetcher ==
    Spec => [](\A v, w \in Workers :
                  /\ belief[v].io /\ belief[v].left > 0
                  /\ belief[w].io /\ belief[w].left > 0
                  /\ belief[v].job = belief[w].job
                  => v = w)
  <1> DEFINE Alone == \A v, w \in Workers :
                         /\ belief[v].io /\ belief[v].left > 0
                         /\ belief[w].io /\ belief[w].left > 0
                         /\ belief[v].job = belief[w].job
                         => v = w
  <1>1. IoIsCovered => Alone
    BY DEF IoIsCovered, Holds
  <1> QED
    BY <1>1, IoCovered, PTL

-----------------------------------------------------------------------------
(* Outcomes.  TerminalIsFinal needs an invariant: time passes for every    *)
(* record, so a terminal one stays as it is only because no deadline of it *)
(* is ahead.                                                               *)

QuietInv ==
    TypeInv /\ \A j \in Jobs : job[j].state \in TerminalStates => Quiet(job[j])

\* What any step but the passing of time may do to a job record.
Settles(j) ==
    \/ job'[j] = job[j]
    \/ /\ job[j].state \notin TerminalStates
       /\ job'[j].state \in TerminalStates => Quiet(job'[j])

\* A call under a lease leaves every terminal job alone: the job that it names
\* is leased, and a discovery opens a job only where there is none.
LEMMA LeaseStepSettles ==
    ASSUME QuietInv, TypeInv', NEW w \in Workers, NEW j \in Jobs, NEW f \in Nat,
           LeaseStep(w, j, f), NEW i \in Jobs
    PROVE  Settles(i)
  <1> DEFINE q == job'[j]
  <1>1. /\ job \in [Jobs -> JobRecord] /\ job' \in [Jobs -> JobRecord]
        /\ job[j] \in JobRecord
    BY DEF QuietInv, TypeInv, TypeOK
  <1>2. ASSUME job[j].state = "leased", \A k \in Jobs \ {j} : job'[k] = job[k],
               q.state \in TerminalStates => Quiet(q)
        PROVE  Settles(i)
    BY <1>2 DEF Settles, TerminalStates
  <1>3. ASSUME Holds(j, w, f), NEW change \in [Jobs -> JobRecord],
               job' = change, change[j].state = job[j].state,
               \A k \in Jobs \ {j} : change[k] = job[k]
        PROVE  Settles(i)
    BY <1>2, <1>3 DEF Holds, TerminalStates
  <1>4. ASSUME NEW post, Over(job[j], post), EndLease(w, j, f, post)
        PROVE  Settles(i)
    <2> DEFINE new == IF Cancellation = "none" THEN post
                      ELSE Withdrawn(job[j], "CANCELLED")
    <2>1. Over(job[j], new)
      BY <1>1, <1>4, OutcomeIsOver
    <2>2. /\ job[j].state = "leased" /\ job'[j] = new
          /\ \A k \in Jobs \ {j} : job'[k] = job[k]
      BY <1>4 DEF EndLease, GivesUp, Holds, Settle
    <2> HIDE DEF new
    <2> QED
      BY <1>2, <2>1, <2>2 DEF Over
  <1>5. CASE \/ ReleaseBeforeIo(w, j, f)
             \/ \E r \in RetryReasons : Retry(w, j, f, r)
             \/ \E r \in DeadReasons : Dead(w, j, f, r)
             \/ CompleteNoOutput(w, j, f)
             \/ CancelJob(w, j, f)
    <2>1. CASE ReleaseBeforeIo(w, j, f)
      BY <1>1, <1>4, <2>1, OutcomeIsOver DEF ReleaseBeforeIo
    <2>2. CASE \E r \in RetryReasons : Retry(w, j, f, r)
      BY <1>1, <1>4, <2>2, OutcomeIsOver DEF Retry
    <2>3. CASE \E r \in DeadReasons : Dead(w, j, f, r)
      BY <1>1, <1>4, <2>3, OutcomeIsOver DEF Dead
    <2>4. CASE CompleteNoOutput(w, j, f)
      BY <1>1, <1>4, <2>4, OutcomeIsOver DEF CompleteNoOutput, TerminalStates
    <2>5. CASE CancelJob(w, j, f)
      BY <1>1, <1>4, <2>5, OutcomeIsOver DEF CancelJob
    <2> QED
      BY <1>5, <2>1, <2>2, <2>3, <2>4, <2>5
  <1>6. CASE \E D, A \in SUBSET Jobs : Commit(w, j, f, D, A)
    <2> DEFINE posted == Outcome(job[j], "completed", "published", "COMMITTED")
    <2>1. PICK D \in SUBSET Jobs, A \in SUBSET Jobs : Commit(w, j, f, D, A)
      BY <1>6
    <2>2. Over(job[j], posted) /\ posted.state = "completed"
      BY <1>1, OutcomeIsOver DEF TerminalStates, Outcome, JobRecord
    <2>3. /\ job[j].state = "leased" /\ job'[j] = posted
          /\ i # j => \/ job'[i] = job[i]
                      \/ job[i].state = "absent" /\ job'[i] = InitialRecord
      BY <2>1 DEF Commit, Fresh, OwnsStage, StageReady, Holds
    <2>4. InitialRecord.state = "ready"
      BY DEF InitialRecord
    <2> HIDE DEF posted
    <2> QED
      BY <2>2, <2>3, <2>4 DEF Settles, Over, TerminalStates
  <1>7. CASE \/ \E g \in Groups, k \in RequestKinds : Reserve(w, j, f, g, k)
             \/ \E heard \in BOOLEAN : Start(w, j, f, heard) \/ Renew(w, j, f, heard)
             \/ ReplayStart(w, j, f)
             \/ FinishRequest(w, j, f) \/ CancelReservation(w, j, f)
             \/ BeginStage(w, j, f) \/ SealStage(w, j, f) \/ AbortStage(w, j, f)
             \/ \E r \in BlockReasons : Backpressure(w, j, f, r)
    <2>1. /\ Holds(j, w, f)
          /\ \A k \in Jobs \ {j} : job'[k] = job[k]
          /\ job'[j].state = job[j].state
      <3>1. CASE \/ \E g \in Groups, k \in RequestKinds : Reserve(w, j, f, g, k)
                 \/ \E heard \in BOOLEAN : Renew(w, j, f, heard)
                 \/ FinishRequest(w, j, f) \/ CancelReservation(w, j, f)
        <4>1. CASE \E g \in Groups, k \in RequestKinds : Reserve(w, j, f, g, k)
          BY <1>1, <4>1 DEF Reserve, JobRecord
        <4>2. CASE \E heard \in BOOLEAN : Renew(w, j, f, heard)
          BY <1>1, <4>2 DEF Renew, JobRecord
        <4>3. CASE FinishRequest(w, j, f) \/ CancelReservation(w, j, f)
          BY <1>1, <4>3 DEF FinishRequest, CancelReservation, EndReservation,
                            JobRecord
        <4> QED
          BY <3>1, <4>1, <4>2, <4>3
      <3>2. CASE \E heard \in BOOLEAN : Start(w, j, f, heard)
        BY <3>2, StartRecord DEF QuietInv, Start
      <3>3. CASE ReplayStart(w, j, f) \/ SealStage(w, j, f)
        BY <1>1, <3>3 DEF ReplayStart, SealStage, OwnsStage, StageReady
      <3>4. CASE BeginStage(w, j, f) \/ AbortStage(w, j, f)
        BY <1>1, <3>4 DEF BeginStage, AbortStage, OwnsStage, StageReady, JobRecord
      <3>5. CASE \E r \in BlockReasons : Backpressure(w, j, f, r)
        BY <1>1, <3>5 DEF Backpressure, OwnsStage, StageReady, JobRecord
      <3> QED
        BY <1>7, <3>1, <3>2, <3>3, <3>4, <3>5
    <2> QED
      BY <1>1, <1>3, <2>1
  <1> QED
    BY <1>5, <1>6, <1>7 DEF LeaseStep

\* So do the steps on ready jobs, the maintenance passes and the environment.
LEMMA OtherStepSettles ==
    ASSUME QuietInv, NEW i \in Jobs,
           \/ \E j \in Jobs : ReadyStep(j)
           \/ Maintenance
           \/ AuthorizationExpires
           \/ \E w \in Workers : Abandon(w)
           \/ UNCHANGED vars
    PROVE  Settles(i)
  <1>1. job \in [Jobs -> JobRecord]
    BY DEF QuietInv, TypeInv, TypeOK
  <1>2. ASSUME NEW D \in SUBSET Jobs, NEW post, NEW n, Settle(D, post, n),
               \A j \in D : /\ job[j].state \notin TerminalStates
                            /\ Over(job[j], post[j])
        PROVE  Settles(i)
    BY <1>2 DEF Settle, Settles, Over
  <1>3. ASSUME NEW j \in Jobs, NEW q, Settle({j}, [k \in {j} |-> q], 0),
               job[j].state = "ready", Over(job[j], q)
        PROVE  Settles(i)
    <2> DEFINE post == [k \in {j} |-> q]
    <2>1. post[j] = q /\ Settle({j}, post, 0) /\ {j} \in SUBSET Jobs
      BY <1>3
    <2> HIDE DEF post
    <2> QED
      BY <1>2, <1>3, <2>1 DEF TerminalStates
  <1>4. ASSUME NEW j \in Jobs, ReadyStep(j)
        PROVE  Settles(i)
    <2>1. ASSUME NEW prior, ClaimVisited(j, prior)
          PROVE  Settles(i)
      <3> DEFINE q == Outcome(job[j], "completed", "already_visited",
                              "VISITED_COMPLETED")
      <3>1. Over(job[j], q)
        BY <1>1, OutcomeIsOver DEF TerminalStates
      <3>2. Settle({j}, [k \in {j} |-> q], 0) /\ job[j].state = "ready"
        BY <2>1 DEF ClaimVisited
      <3> HIDE DEF q
      <3> QED
        BY <1>3, <3>1, <3>2
    <2>2. ASSUME NEW r, RejectReady(j, r)
          PROVE  Settles(i)
      <3> DEFINE q == Failed(job[j], r, r, "DEAD")
      <3>1. Over(job[j], q)
        BY <1>1, OutcomeIsOver
      <3>2. Settle({j}, [k \in {j} |-> q], 0) /\ job[j].state = "ready"
        BY <2>2 DEF RejectReady
      <3> HIDE DEF q
      <3> QED
        BY <1>3, <3>1, <3>2
    <2>3. ASSUME NEW prior, NEW w \in Workers, NEW k, NEW heard,
                 Claim(w, j, prior, k, heard)
          PROVE  Settles(i)
      <3>1. /\ job[j].state = "ready" /\ job'[j].state = "leased"
            /\ \A k2 \in Jobs \ {j} : job'[k2] = job[k2]
        BY <1>1, <2>3 DEF Claim, JobRecord
      <3> QED
        BY <3>1 DEF Settles, TerminalStates
    <2>4. ASSUME NEW w \in Workers, ReplayClaim(w, j)
          PROVE  Settles(i)
      BY <2>4 DEF ReplayClaim, Settles
    <2> QED
      BY <1>4, <2>1, <2>2, <2>3, <2>4 DEF ReadyStep
  <1>5. ASSUME NEW b \in SUBSET Jobs, PromoteDue(b)
        PROVE  Settles(i)
    <2>1. CASE i \in b
      <3>1. job[i].state = "delayed" /\ job'[i] = [job[i] EXCEPT !.state = "ready"]
        BY <1>5, <2>1 DEF PromoteDue, IsBatch, DueRetries, InState
      <3>2. job'[i].state = "ready"
        BY <1>1, <3>1 DEF JobRecord
      <3> QED
        BY <3>1, <3>2 DEF Settles, TerminalStates
    <2>2. CASE i \notin b
      BY <1>5, <2>2 DEF PromoteDue, Settles
    <2> QED
      BY <2>1, <2>2
  <1>6. ASSUME NEW b \in SUBSET Jobs, CancelBatch(b)
        PROVE  Settles(i)
    <2> DEFINE post == [j \in b |-> Withdrawn(job[j], NoStatus)]
    <2>1. \A j \in b : job[j].state \notin TerminalStates
      BY <1>6 DEF CancelBatch, IsBatch, Cancellable, InState, TerminalStates
    <2>2. \A j \in b : Over(job[j], post[j])
      BY <1>1, OutcomeIsOver
    <2>3. Settle(b, post, 0)
      BY <1>6 DEF CancelBatch
    <2> HIDE DEF post
    <2> QED
      BY <1>2, <2>1, <2>2, <2>3
  <1>7. ASSUME RecoverExpired
        PROVE  Settles(i)
    <2> DEFINE post == [j \in Expired |-> Recovered(job[j])]
    <2>1. /\ Expired \in SUBSET Jobs
          /\ \A j \in Expired : job[j].state \notin TerminalStates
      BY DEF Expired, InState, TerminalStates
    <2>2. \A j \in Expired : Over(job[j], post[j])
      BY <1>1, <2>1, OutcomeIsOver
    <2>3. Settle(Expired, post, Cardinality(Expired))
      BY <1>7 DEF RecoverExpired
    <2> HIDE DEF post
    <2> QED
      BY <1>2, <2>1, <2>2, <2>3
  <1>8. ASSUME \/ \E r \in CancelReasons : CancelRun(r)
               \/ FinalizeRun
               \/ AuthorizationExpires
               \/ \E w \in Workers : Abandon(w)
               \/ UNCHANGED vars
        PROVE  Settles(i)
    BY <1>8 DEF CancelRun, FinalizeRun, AuthorizationExpires, Abandon, vars, Settles
  <1> QED
    BY <1>4, <1>5, <1>6, <1>7, <1>8 DEF Maintenance

\* The passing of time changes no record without a deadline ahead.
LEMMA TickSettles ==
    ASSUME QuietInv, Tick, NEW j \in Jobs
    PROVE  /\ job'[j].state = job[j].state
           /\ job[j].state \in TerminalStates => job'[j] = job[j]
  <1>1. job[j] \in JobRecord
    BY DEF QuietInv, TypeInv, TypeOK
  <1>2. job'[j] = [job[j] EXCEPT !.lease_left = Less(job[j].lease_left),
                                 !.not_before_left = Less(job[j].not_before_left),
                                 !.blocked_left = Less(job[j].blocked_left)]
    BY DEF Tick
  <1>3. job'[j].state = job[j].state
    BY <1>1, <1>2 DEF JobRecord
  <1>4. ASSUME job[j].state \in TerminalStates
        PROVE  job'[j] = job[j]
    <2>1. job[j].lease_left = 0 /\ job[j].not_before_left = 0 /\ job[j].blocked_left = 0
      BY <1>4 DEF QuietInv, Quiet
    <2>2. Less(0) = 0
      BY DEF Less
    <2> DEFINE r == job[j]
               same == [r EXCEPT !.lease_left = 0, !.not_before_left = 0,
                                 !.blocked_left = 0]
    <2>3. job'[j] = same
      BY <1>2, <2>1, <2>2
    <2>4. DOMAIN same = DOMAIN r /\ \A x \in DOMAIN r : same[x] = r[x]
      BY <1>1, <2>1 DEF JobRecord
    <2>5. r = [x \in DOMAIN r |-> r[x]]
      BY <1>1 DEF JobRecord
    <2>6. same = [x \in DOMAIN r |-> same[x]]
      OBVIOUS
    <2> QED
      BY <2>3, <2>4, <2>5, <2>6
  <1> QED
    BY <1>3, <1>4

\* Every step leaves a terminal record as it is, and leaves it with no deadline.
LEMMA QuietStep ==
    ASSUME QuietInv, [Next]_vars
    PROVE  /\ QuietInv'
           /\ \A j \in Jobs : job[j].state \in TerminalStates => job'[j] = job[j]
  <1>1. TypeInv'
    BY TypeStep DEF QuietInv
  <1>2. \A j \in Jobs : job[j].lease_fence \in Nat
    BY DEF QuietInv, TypeInv, TypeOK, JobRecord
  <1>3. ASSUME NEW j \in Jobs, NEW w \in Workers,
               NEW f \in 1 .. job[j].lease_fence, LeaseStep(w, j, f)
        PROVE  \A i \in Jobs : Settles(i)
    <2>1. f \in Nat
      BY <1>2
    <2> QED
      BY <1>1, <1>3, <2>1, LeaseStepSettles
  <1>4. (\A i \in Jobs : Settles(i)) \/ Tick
    BY <1>3, OtherStepSettles DEF Next, Done
  <1>5. ASSUME NEW j \in Jobs
        PROVE  /\ job[j].state \in TerminalStates => job'[j] = job[j]
               /\ job'[j].state \in TerminalStates => Quiet(job'[j])
    <2>1. CASE Settles(j)
      BY <2>1 DEF QuietInv, Settles
    <2>2. CASE Tick
      BY <2>2, TickSettles DEF QuietInv
    <2> QED
      BY <1>4, <2>1, <2>2
  <1> QED
    BY <1>1, <1>5 DEF QuietInv, Quiet

\* No job is terminal at the start.
LEMMA QuietInit == Init => QuietInv
  <1> SUFFICES ASSUME Init PROVE QuietInv
    OBVIOUS
  <1>1. \A j \in Jobs : job[j].state \in {"ready", "absent"}
    BY DEF Init, InitialRecord, AbsentRecord
  <1> QED
    BY <1>1, TypeInit DEF QuietInv, TerminalStates

\* The record of a terminal job never changes again, for any number of jobs and
\* workers: neither a late or repeated outcome, nor a recovery, nor the discovery
\* of the same URL, nor the cancellation of the run, nor the passing of time.
THEOREM OutcomesAreFinal == Spec => TerminalIsFinal
  <1>1. QuietInv /\ [Next]_vars =>
            [\A j \in Jobs : job[j].state \in TerminalStates => job'[j] = job[j]]_vars
    BY QuietStep
  <1>2. QuietInv /\ [Next]_vars => QuietInv'
    BY QuietStep
  <1> QED
    BY <1>1, <1>2, QuietInit, PTL DEF Spec, TerminalIsFinal

-----------------------------------------------------------------------------
(***************************************************************************)
(* The job records of the Crawl Jobs V2 ledger and the stages they own are *)
(* valid, for all values of the constants that the assumptions of          *)
(* CrawlJobs allow.                                                        *)
(*                                                                         *)
(* What ledger_job.lua's validator demands of a record is not inductive: a *)
(* lease must still have room for the outcome it may end with.  Margins    *)
(* says how much.  Three bounds of the validator come from the budgets of  *)
(* the whole run (Bounded); they are hypotheses here, which the module     *)
(* CrawlJobsCountProofs discharges.                                        *)
(***************************************************************************)
\* What a record must keep in hand: a lease still allows the outcome that counts
\* most, a retry after its delivery or a recovery before it, and an absent job
\* has counted nothing.
Margins(r) ==
    /\ r.lease_left =< LeaseTTL
    /\ r.reservation.state # "none" => r.reservation.group \in Groups
    /\ r.state = "leased" =>
          /\ r.retry_count + r.lease_delivery_started =< r.delivery_attempts
          /\ r.pre_io_recoveries + r.delivery_attempts + 1
                 - r.lease_delivery_started =< r.claim_count
          /\ r.reservation.state = "pending" =>
                r.request_starts + 1 < r.next_request_ordinal
    /\ r.state = "absent" =>
          /\ r.claim_count = 0 /\ r.retry_count = 0 /\ r.pre_io_recoveries = 0
          /\ r.request_starts = 0 /\ r.next_request_ordinal = 1

\* The stage s describes the transcript of record r, and outlives its lease.
Bound(r, s) ==
    r.active_stage => s.generation = r.request_starts /\ r.lease_left =< s.left

Sound(r, s) ==
    /\ CountersValid(r) /\ BaselineValid(r) /\ LeaseValid(r)
    /\ StageValid(r) /\ ReasonsValid(r)
    /\ Margins(r) /\ Bound(r, s)

RecordInv == TypeInv /\ \A j \in Jobs : Sound(job[j], stage[j])

\* The bounds of a record that follow from the budgets of its run.
Bounded(r) ==
    /\ r.request_starts =< JobStartLimit /\ r.baseline < JobStartLimit
    /\ r.next_request_ordinal =< MaxReservations + 1

\* What LeaseIntegrity asks of a step that makes r into q.
Faithful(r, q) ==
    /\ q.lease_fence # r.lease_fence =>
          /\ r.state = "ready" /\ q.lease_fence = r.lease_fence + 1
          /\ q.baseline = r.request_starts
    /\ r.state = "leased" /\ q.state = "leased" =>
          /\ q.lease_owner = r.lease_owner /\ q.baseline = r.baseline
          /\ q.lease_delivery_started >= r.lease_delivery_started
    /\ StageFrozen(r) /\ q.lease_fence = r.lease_fence =>
          q.request_starts = r.request_starts

\* The status of a record that no call has set is no call's.
LEMMA NoStatusIsNone ==
    NoStatus \notin {"STAGE_ABORTED", "COMMITTED", "CLAIMED"}
  BY DEF NoStatus

-----------------------------------------------------------------------------
(* Records under a lease.                                                  *)

\* The numbers in a job record, and the bounds they are compared with.
LEMMA RecordNumbers ==
    ASSUME NEW r \in JobRecord
    PROVE  /\ r.claim_count \in Nat /\ r.lease_fence \in Nat
           /\ r.lease_left \in Nat /\ r.lease_delivery_started \in {0, 1}
           /\ r.delivery_attempts \in Nat /\ r.request_starts \in Nat
           /\ r.baseline \in Nat /\ r.retry_count \in Nat
           /\ r.pre_io_recoveries \in Nat /\ r.next_request_ordinal \in Nat
           /\ r.document_fence \in Nat /\ r.last_stage_fence \in Nat
           /\ r.active_stage \in BOOLEAN
           /\ MaxReservations \in Nat /\ LeaseTTL \in Nat
           /\ JobStartLimit \in Nat /\ StageTTL \in Nat /\ LeaseTTL =< StageTTL
           /\ MaxDeliveryAttempts = 3 /\ MaxPreIoRecoveries = 3
  BY BoundsAssumption DEF JobRecord, MaxDeliveryAttempts, MaxPreIoRecoveries

\* A claim makes a valid record of a valid one: the deliveries of earlier leases
\* stay below the new baseline, and no stage belongs to the new lease.
LEMMA ClaimedRecord ==
    ASSUME NEW r \in JobRecord, NEW s, Sound(r, s),
           r.state = "ready", r.delivery_attempts < MaxDeliveryAttempts,
           NEW w \in Workers, NEW p \in Reservation,
           p.state = "pending", p.group \in Groups,
           NEW q \in JobRecord,
           q = [r EXCEPT !.state = "leased", !.claim_count = r.claim_count + 1,
                         !.lease_fence = r.lease_fence + 1, !.lease_owner = w,
                         !.lease_left = LeaseTTL, !.lease_delivery_started = 0,
                         !.baseline = r.request_starts, !.reservation = p,
                         !.next_request_ordinal = r.next_request_ordinal + 1,
                         !.last_status = "CLAIMED"],
           Bounded(q)
    PROVE  Sound(q, s) /\ Faithful(r, q)
  <1>1. /\ q.state = "leased" /\ q.claim_count = r.claim_count + 1
        /\ q.lease_fence = r.lease_fence + 1 /\ q.lease_owner = w
        /\ q.lease_left = LeaseTTL /\ q.lease_delivery_started = 0
        /\ q.baseline = r.request_starts /\ q.reservation = p
        /\ q.next_request_ordinal = r.next_request_ordinal + 1
        /\ q.last_status = "CLAIMED"
    BY ZenonT(60) DEF JobRecord
  <1>2. /\ q.delivery_attempts = r.delivery_attempts
        /\ q.request_starts = r.request_starts /\ q.retry_count = r.retry_count
        /\ q.pre_io_recoveries = r.pre_io_recoveries
        /\ q.document_fence = r.document_fence
        /\ q.last_stage_fence = r.last_stage_fence
        /\ q.active_stage = r.active_stage /\ q.blocked = r.blocked
        /\ q.not_before_left = r.not_before_left
        /\ q.last_reason = r.last_reason
    BY ZenonT(60) DEF JobRecord
  <1>3. ~r.active_stage /\ q.next_request_ordinal \in Nat
    BY DEF Sound, LeaseValid, JobRecord
  <1>4. CountersValid(q)
    BY <1>1, <1>2, <1>3, RecordNumbers DEF Sound, CountersValid, Bounded
  <1>5. BaselineValid(q)
    BY <1>1, <1>2, RecordNumbers
       DEF Sound, CountersValid, BaselineValid, Bounded, Delivering
  <1>6. LeaseValid(q)
    BY <1>1, <1>2, RecordNumbers, SetsAssumption DEF Sound, LeaseValid
  <1>7. StageValid(q)
    <2>1. ~StageFrozen(q)
      BY <1>1, <1>2, RecordNumbers DEF StageFrozen, Sound, CountersValid
    <2> QED
      BY <1>1, <1>2, <1>3, <2>1 DEF Sound, LeaseValid, StageValid, IsAborted
  <1>8. ReasonsValid(q)
    BY <1>1, <1>2, RecordNumbers DEF Sound, ReasonsValid
  <1>9. Margins(q) /\ Bound(q, s)
    BY <1>1, <1>2, <1>3, RecordNumbers DEF Sound, CountersValid, Margins, Bound
  <1>10. Faithful(r, q)
    BY <1>1, <1>2, RecordNumbers DEF Faithful
  <1> QED
    BY <1>4, <1>5, <1>6, <1>7, <1>8, <1>9, <1>10 DEF Sound

\* So does a reservation: the transcript it adds to is not frozen.
LEMMA ReservedRecord ==
    ASSUME NEW r \in JobRecord, NEW s, Sound(r, s),
           r.state = "leased", r.reservation = NoReservation,
           r.last_stage_fence < r.lease_fence,
           NEW p \in Reservation, p.state = "pending", p.group \in Groups,
           NEW q \in JobRecord,
           q = [r EXCEPT !.reservation = p,
                         !.next_request_ordinal = r.next_request_ordinal + 1],
           Bounded(q)
    PROVE  Sound(q, s) /\ Faithful(r, q)
  <1>1. /\ q.reservation = p /\ q.state = "leased"
        /\ q.next_request_ordinal = r.next_request_ordinal + 1
    BY DEF JobRecord
  <1>2. /\ q.claim_count = r.claim_count /\ q.lease_fence = r.lease_fence
        /\ q.lease_owner = r.lease_owner /\ q.lease_left = r.lease_left
        /\ q.lease_delivery_started = r.lease_delivery_started
        /\ q.delivery_attempts = r.delivery_attempts
        /\ q.request_starts = r.request_starts /\ q.baseline = r.baseline
        /\ q.retry_count = r.retry_count
        /\ q.pre_io_recoveries = r.pre_io_recoveries
        /\ q.document_fence = r.document_fence
        /\ q.last_stage_fence = r.last_stage_fence
        /\ q.active_stage = r.active_stage /\ q.blocked = r.blocked
        /\ q.not_before_left = r.not_before_left
        /\ q.last_reason = r.last_reason /\ q.last_status = r.last_status
    BY DEF JobRecord
  <1>3. ~StageFrozen(r) /\ ~StageFrozen(q)
    BY <1>2, RecordNumbers DEF StageFrozen
  <1>4. CountersValid(q) /\ BaselineValid(q)
    BY <1>1, <1>2, RecordNumbers
       DEF Sound, CountersValid, BaselineValid, Bounded, Delivering
  <1>5. LeaseValid(q)
    BY <1>1, <1>2 DEF Sound, LeaseValid
  <1>6. StageValid(q)
    BY <1>1, <1>2, <1>3 DEF Sound, StageValid, IsAborted
  <1>7. ReasonsValid(q)
    BY <1>1, <1>2, RecordNumbers DEF Sound, ReasonsValid
  <1>8. Margins(q) /\ Bound(q, s)
    BY <1>1, <1>2, RecordNumbers DEF Sound, CountersValid, Margins, Bound
  <1>9. Faithful(r, q)
    BY <1>1, <1>2, <1>3, RecordNumbers DEF Faithful
  <1> QED
    BY <1>4, <1>5, <1>6, <1>7, <1>8, <1>9 DEF Sound

\* A start counts a delivery once per lease, and only its own record's request.
LEMMA StartedIsSound ==
    ASSUME NEW r \in JobRecord, NEW s, Sound(r, s),
           r.state = "leased", r.reservation.state = "pending",
           r.last_stage_fence < r.lease_fence,
           NEW q \in JobRecord, q = StartedRecord(r, r.lease_fence),
           Bounded(q)
    PROVE  Sound(q, s) /\ Faithful(r, q)
  <1> DEFINE d == r.lease_delivery_started
  <1>1. /\ q.delivery_attempts = r.delivery_attempts + 1 - d
        /\ q.lease_delivery_started = 1
        /\ q.request_starts = r.request_starts + 1
        /\ q.reservation.state = "started"
        /\ q.reservation.group = r.reservation.group
        /\ q.document_fence \in {r.lease_fence, r.document_fence}
    BY DEF StartedRecord, JobRecord, Reservation
  <1>2. /\ q.state = r.state /\ q.claim_count = r.claim_count
        /\ q.lease_fence = r.lease_fence /\ q.lease_owner = r.lease_owner
        /\ q.lease_left = r.lease_left /\ q.baseline = r.baseline
        /\ q.retry_count = r.retry_count
        /\ q.pre_io_recoveries = r.pre_io_recoveries
        /\ q.next_request_ordinal = r.next_request_ordinal
        /\ q.last_stage_fence = r.last_stage_fence
        /\ q.active_stage = r.active_stage /\ q.blocked = r.blocked
        /\ q.not_before_left = r.not_before_left
        /\ q.last_reason = r.last_reason /\ q.last_status = r.last_status
    BY DEF StartedRecord, JobRecord
  <1>3. ~StageFrozen(r) /\ ~StageFrozen(q) /\ ~r.active_stage
    BY <1>2, RecordNumbers DEF StageFrozen, Sound, StageValid
  <1>4. /\ Delivering(r) = d /\ Delivering(q) = 1
        /\ r.request_starts >= r.baseline
    BY <1>1, <1>2, RecordNumbers
       DEF Delivering, Sound, BaselineValid, LeaseValid
  <1>5. r.delivery_attempts - d < MaxDeliveryAttempts
    BY <1>4, RecordNumbers DEF Sound, BaselineValid, LeaseValid
  <1>6. CountersValid(q)
    BY <1>1, <1>2, <1>5, RecordNumbers DEF Sound, CountersValid, Bounded, Margins
  <1>7. BaselineValid(q)
    BY <1>1, <1>2, <1>4, RecordNumbers
       DEF Sound, CountersValid, BaselineValid, LeaseValid, Bounded
  <1>8. LeaseValid(q)
    BY <1>1, <1>2, <1>4, RecordNumbers DEF Sound, LeaseValid, BaselineValid
  <1>9. StageValid(q)
    BY <1>1, <1>2, <1>3 DEF Sound, StageValid, IsAborted
  <1>10. ReasonsValid(q)
    BY <1>1, <1>2, RecordNumbers DEF Sound, ReasonsValid
  <1>11. Margins(q) /\ Bound(q, s)
    BY <1>1, <1>2, <1>3, RecordNumbers DEF Sound, CountersValid, Margins, Bound
  <1>12. Faithful(r, q)
    BY <1>1, <1>2, <1>3, RecordNumbers DEF Faithful
  <1> QED
    BY <1>6, <1>7, <1>8, <1>9, <1>10, <1>11, <1>12 DEF Sound

\* What q has counted is what r has counted.
SameCounts(r, q) ==
    /\ q.claim_count = r.claim_count /\ q.lease_fence = r.lease_fence
    /\ q.delivery_attempts = r.delivery_attempts
    /\ q.request_starts = r.request_starts /\ q.baseline = r.baseline
    /\ q.next_request_ordinal = r.next_request_ordinal
    /\ q.document_fence = r.document_fence

\* The record q still speaks of the lease that r speaks of.
SameLease(r, q) ==
    /\ SameCounts(r, q)
    /\ q.state = r.state /\ q.lease_owner = r.lease_owner
    /\ q.lease_delivery_started = r.lease_delivery_started
    /\ q.retry_count = r.retry_count /\ q.not_before_left = r.not_before_left
    /\ q.pre_io_recoveries = r.pre_io_recoveries

\* A change that leaves a lease and its counts alone keeps the counters valid.
LEMMA SameLeaseIsSound ==
    ASSUME NEW r \in JobRecord, NEW s, Sound(r, s), r.state = "leased",
           NEW q \in JobRecord, SameLease(r, q),
           \/ q.reservation = r.reservation
           \/ q.reservation = NoReservation,
           q.last_stage_fence =< r.lease_fence, q.lease_left =< LeaseTTL
    PROVE  /\ CountersValid(q) /\ BaselineValid(q) /\ LeaseValid(q)
           /\ Margins(q) /\ Faithful(r, q)
  <1>1. NoReservation.state = "none"
    BY DEF NoReservation
  <1>2. CountersValid(q) /\ BaselineValid(q)
    BY RecordNumbers
       DEF Sound, CountersValid, BaselineValid, Delivering, SameLease, SameCounts
  <1>3. LeaseValid(q)
    BY DEF Sound, LeaseValid, SameLease, SameCounts
  <1>4. Margins(q)
    BY <1>1, RecordNumbers DEF Sound, Margins, SameLease, SameCounts
  <1>5. Faithful(r, q)
    BY RecordNumbers DEF Faithful, SameLease, SameCounts
  <1> QED
    BY <1>2, <1>3, <1>4, <1>5

\* The end of a request keeps the record valid.
LEMMA FreedRecord ==
    ASSUME NEW r \in JobRecord, NEW s, Sound(r, s), r.state = "leased",
           NEW q \in JobRecord, q = [r EXCEPT !.reservation = NoReservation]
    PROVE  Sound(q, s) /\ Faithful(r, q)
  <1>1. /\ q.reservation = NoReservation /\ NoReservation.state = "none"
        /\ SameLease(r, q) /\ q.lease_left = r.lease_left
        /\ q.last_stage_fence = r.last_stage_fence
        /\ q.active_stage = r.active_stage /\ q.blocked = r.blocked
        /\ q.last_reason = r.last_reason /\ q.last_status = r.last_status
    BY DEF JobRecord, SameLease, SameCounts, NoReservation
  <1>2. /\ CountersValid(q) /\ BaselineValid(q) /\ LeaseValid(q)
        /\ Margins(q) /\ Faithful(r, q)
    BY <1>1, SameLeaseIsSound DEF Sound, CountersValid, Margins
  <1>3. StageValid(q) /\ ReasonsValid(q) /\ Bound(q, s)
    BY <1>1, RecordNumbers
       DEF Sound, StageValid, StageFrozen, IsAborted, ReasonsValid, Bound,
           SameLease, SameCounts
  <1> QED
    BY <1>2, <1>3 DEF Sound

\* A renewal keeps the record valid, as far as it stays within the stage.
LEMMA RenewedRecord ==
    ASSUME NEW r \in JobRecord, NEW s, Sound(r, s), r.state = "leased",
           NEW left \in Nat, left =< LeaseTTL, r.active_stage => left =< s.left,
           NEW q \in JobRecord, q = [r EXCEPT !.lease_left = left]
    PROVE  Sound(q, s) /\ Faithful(r, q)
  <1>1. /\ q.lease_left = left
        /\ SameLease(r, q) /\ q.reservation = r.reservation
        /\ q.last_stage_fence = r.last_stage_fence
        /\ q.active_stage = r.active_stage /\ q.blocked = r.blocked
        /\ q.last_reason = r.last_reason /\ q.last_status = r.last_status
    BY DEF JobRecord, SameLease, SameCounts
  <1>2. /\ CountersValid(q) /\ BaselineValid(q) /\ LeaseValid(q)
        /\ Margins(q) /\ Faithful(r, q)
    BY <1>1, SameLeaseIsSound DEF Sound, CountersValid
  <1>3. StageValid(q) /\ ReasonsValid(q) /\ Bound(q, s)
    BY <1>1, RecordNumbers
       DEF Sound, StageValid, StageFrozen, IsAborted, ReasonsValid, Bound,
           SameLease, SameCounts
  <1> QED
    BY <1>2, <1>3 DEF Sound

\* A new stage freezes the transcript as it is, and may outlive the lease.
LEMMA BegunRecord ==
    ASSUME NEW r \in JobRecord, NEW s, Sound(r, s), r.state = "leased",
           r.reservation = NoReservation, r.lease_delivery_started = 1,
           r.document_fence = r.lease_fence,
           ~r.active_stage, r.last_stage_fence < r.lease_fence,
           NEW t, t.generation = r.request_starts, t.left = StageTTL,
           NEW q \in JobRecord,
           q = [r EXCEPT !.active_stage = TRUE, !.last_stage_fence = r.lease_fence]
    PROVE  Sound(q, t) /\ Faithful(r, q)
  <1>1. /\ q.active_stage = TRUE /\ q.last_stage_fence = r.lease_fence
        /\ SameLease(r, q) /\ q.lease_left = r.lease_left
        /\ q.reservation = r.reservation /\ q.blocked = r.blocked
        /\ q.last_reason = r.last_reason /\ q.last_status = r.last_status
        /\ NoReservation.state = "none"
    BY DEF JobRecord, SameLease, SameCounts, NoReservation
  <1>2. /\ CountersValid(q) /\ BaselineValid(q) /\ LeaseValid(q)
        /\ Margins(q) /\ Faithful(r, q)
    BY <1>1, RecordNumbers, SameLeaseIsSound DEF Sound, CountersValid, Margins
  <1>3. ~StageFrozen(r) /\ r.request_starts > r.baseline /\ r.lease_fence > 0
    BY RecordNumbers DEF StageFrozen, Sound, LeaseValid
  <1>4. StageValid(q)
    BY <1>1, <1>3 DEF Sound, StageValid, StageFrozen, IsAborted, SameLease, SameCounts
  <1>5. ReasonsValid(q)
    BY <1>1 DEF Sound, ReasonsValid, SameLease
  <1>6. Bound(q, t)
    BY <1>1, RecordNumbers DEF Sound, Margins, Bound, SameLease, SameCounts
  <1> QED
    BY <1>2, <1>4, <1>5, <1>6 DEF Sound

\* An aborted stage leaves the record that the validator knows as aborted.
LEMMA AbortedRecord ==
    ASSUME NEW r \in JobRecord, NEW s, Sound(r, s), r.state = "leased",
           r.reservation = NoReservation, r.lease_delivery_started = 1,
           r.document_fence = r.lease_fence, r.active_stage, NEW t,
           NEW q \in JobRecord,
           q = [r EXCEPT !.active_stage = FALSE, !.last_reason = "none",
                         !.last_status = "STAGE_ABORTED"]
    PROVE  Sound(q, t) /\ Faithful(r, q)
  <1>1. /\ q.active_stage = FALSE /\ q.last_reason = "none"
        /\ q.last_status = "STAGE_ABORTED"
        /\ SameLease(r, q) /\ q.lease_left = r.lease_left
        /\ q.reservation = r.reservation /\ q.blocked = r.blocked
        /\ q.last_stage_fence = r.last_stage_fence
        /\ NoReservation.state = "none"
    BY DEF JobRecord, SameLease, SameCounts, NoReservation
  <1>2. /\ CountersValid(q) /\ BaselineValid(q) /\ LeaseValid(q)
        /\ Margins(q) /\ Faithful(r, q)
    BY <1>1, SameLeaseIsSound DEF Sound, CountersValid, Margins
  <1>3. StageValid(q)
    BY <1>1 DEF Sound, StageValid, StageFrozen, IsAborted, SameLease, SameCounts
  <1>4. ReasonsValid(q) /\ Bound(q, t)
    BY <1>1, RecordNumbers, ReasonsAssumption
       DEF Sound, ReasonsValid, Bound, SameLease, SameCounts
  <1> QED
    BY <1>2, <1>3, <1>4 DEF Sound

\* A commit that is refused for now leaves its evidence under an active stage.
LEMMA BlockedRecord ==
    ASSUME NEW r \in JobRecord, NEW s, Sound(r, s), r.state = "leased",
           r.active_stage, NEW reason, NEW left,
           NEW q \in JobRecord,
           q = [r EXCEPT !.blocked = reason, !.blocked_left = left]
    PROVE  Sound(q, s) /\ Faithful(r, q)
  <1>1. /\ q.active_stage = r.active_stage
        /\ SameLease(r, q) /\ q.lease_left = r.lease_left
        /\ q.reservation = r.reservation
        /\ q.last_stage_fence = r.last_stage_fence
        /\ q.last_reason = r.last_reason /\ q.last_status = r.last_status
    <2>1. SameCounts(r, q)
      BY DEF JobRecord, SameCounts
    <2>2. /\ q.state = r.state /\ q.lease_owner = r.lease_owner
          /\ q.lease_delivery_started = r.lease_delivery_started
          /\ q.retry_count = r.retry_count /\ q.not_before_left = r.not_before_left
          /\ q.pre_io_recoveries = r.pre_io_recoveries
      BY DEF JobRecord
    <2>3. /\ q.active_stage = r.active_stage /\ q.lease_left = r.lease_left
          /\ q.reservation = r.reservation
          /\ q.last_stage_fence = r.last_stage_fence
          /\ q.last_reason = r.last_reason /\ q.last_status = r.last_status
      BY DEF JobRecord
    <2> QED
      BY <2>1, <2>2, <2>3 DEF SameLease
  <1>2. /\ CountersValid(q) /\ BaselineValid(q) /\ LeaseValid(q)
        /\ Margins(q) /\ Faithful(r, q)
    BY <1>1, SameLeaseIsSound DEF Sound, CountersValid, Margins
  <1>3. StageValid(q) /\ ReasonsValid(q) /\ Bound(q, s)
    BY <1>1, RecordNumbers
       DEF Sound, StageValid, StageFrozen, IsAborted, ReasonsValid, Bound,
           SameLease, SameCounts
  <1> QED
    BY <1>2, <1>3 DEF Sound

-----------------------------------------------------------------------------
(* Records without a lease, and the passing of time.                       *)

\* A delayed job whose delay is over becomes a valid ready one.
LEMMA PromotedRecord ==
    ASSUME NEW r \in JobRecord, NEW s, Sound(r, s),
           r.state = "delayed", r.not_before_left = 0,
           NEW q \in JobRecord, q = [r EXCEPT !.state = "ready"]
    PROVE  Sound(q, s) /\ Faithful(r, q)
  <1>1. /\ q.state = "ready" /\ SameCounts(r, q)
        /\ q.lease_owner = r.lease_owner /\ q.lease_left = r.lease_left
        /\ q.lease_delivery_started = r.lease_delivery_started
        /\ q.retry_count = r.retry_count /\ q.not_before_left = r.not_before_left
        /\ q.pre_io_recoveries = r.pre_io_recoveries
        /\ q.reservation = r.reservation /\ q.blocked = r.blocked
        /\ q.active_stage = r.active_stage
        /\ q.last_stage_fence = r.last_stage_fence
        /\ q.last_reason = r.last_reason /\ q.last_status = r.last_status
    BY DEF JobRecord, SameCounts
  <1>2. CountersValid(q) /\ BaselineValid(q)
    BY <1>1, RecordNumbers
       DEF Sound, CountersValid, BaselineValid, Delivering, SameCounts
  <1>3. LeaseValid(q) /\ StageValid(q)
    BY <1>1 DEF Sound, LeaseValid, StageValid, StageFrozen, IsAborted, SameCounts
  <1>4. ReasonsValid(q) /\ Margins(q) /\ Bound(q, s)
    BY <1>1, RecordNumbers DEF Sound, ReasonsValid, Margins, Bound, SameCounts
  <1>5. Faithful(r, q)
    BY <1>1 DEF Faithful, SameCounts
  <1> QED
    BY <1>2, <1>3, <1>4, <1>5 DEF Sound

\* Time leaves a valid record valid, and the stage ahead of its lease.
LEMMA AgedRecord ==
    ASSUME NEW r \in JobRecord, NEW s \in StageRecord, Sound(r, s),
           NEW q \in JobRecord,
           q = [r EXCEPT !.lease_left = Less(r.lease_left),
                         !.not_before_left = Less(r.not_before_left),
                         !.blocked_left = Less(r.blocked_left)],
           NEW t, t.generation = s.generation, t.left = Less(s.left)
    PROVE  Sound(q, t) /\ Faithful(r, q)
  <1>1. /\ q.state = r.state /\ SameCounts(r, q)
        /\ q.lease_owner = r.lease_owner /\ q.lease_left = Less(r.lease_left)
        /\ q.lease_delivery_started = r.lease_delivery_started
        /\ q.retry_count = r.retry_count
        /\ q.not_before_left = Less(r.not_before_left)
        /\ q.pre_io_recoveries = r.pre_io_recoveries
        /\ q.reservation = r.reservation /\ q.blocked = r.blocked
        /\ q.active_stage = r.active_stage
        /\ q.last_stage_fence = r.last_stage_fence
        /\ q.last_reason = r.last_reason /\ q.last_status = r.last_status
        /\ q.last_failure_reason = r.last_failure_reason
    BY DEF JobRecord, SameCounts
  <1>2. /\ s.left \in Nat /\ r.lease_left \in Nat /\ r.not_before_left \in Nat
        /\ Less(r.lease_left) \in Nat /\ Less(r.lease_left) =< r.lease_left
        /\ r.lease_left = 0 => Less(r.lease_left) = 0
        /\ r.not_before_left = 0 => Less(r.not_before_left) = 0
        /\ r.lease_left =< s.left => Less(r.lease_left) =< Less(s.left)
    BY DEF Less, JobRecord, StageRecord
  <1>3. CountersValid(q) /\ BaselineValid(q)
    BY <1>1, RecordNumbers
       DEF Sound, CountersValid, BaselineValid, Delivering, SameCounts
  <1>4. LeaseValid(q) /\ StageValid(q)
    BY <1>1, <1>2
       DEF Sound, LeaseValid, StageValid, StageFrozen, IsAborted, SameCounts
  <1>5. ReasonsValid(q)
    <2>1. ReasonsValid(r) /\ (StageFrozen(q) <=> StageFrozen(r))
      BY <1>1 DEF Sound, StageFrozen, SameCounts
    <2>2. FailureValid(r) <=> FailureValid(q)
      BY <1>1 DEF FailureValid, SameCounts
    <2> QED
      BY <1>1, <2>1, <2>2 DEF ReasonsValid, SameCounts
  <1>6. Margins(q)
    BY <1>1, <1>2, RecordNumbers DEF Sound, Margins, SameCounts
  <1>7. Bound(q, t)
    BY <1>1, <1>2 DEF Sound, Bound, SameCounts
  <1>8. Faithful(r, q)
    BY <1>1, RecordNumbers DEF Faithful, SameCounts
  <1> QED
    BY <1>3, <1>4, <1>5, <1>6, <1>7, <1>8 DEF Sound
-----------------------------------------------------------------------------
(* The ends of leases and of jobs.                                         *)

\* What every outcome makes of record r: the history stays, and nothing of a
\* lease is left.
Closed(r, q) ==
    /\ SameCounts(r, q) /\ q.last_stage_fence = r.last_stage_fence
    /\ q.state \in {"ready", "delayed"} \cup TerminalStates
    /\ q.lease_owner = NoWorker /\ q.lease_left = 0
    /\ q.lease_delivery_started = 0 /\ q.reservation = NoReservation
    /\ ~q.active_stage /\ q.blocked = "none"
    /\ q.last_status # "STAGE_ABORTED"
    /\ q.state # "delayed" => q.not_before_left = 0

\* A closed record is as sound as its retries, recoveries and reasons are.
LEMMA ClosedIsSound ==
    ASSUME NEW r \in JobRecord, NEW s, Sound(r, s), r.state \in OpenStates,
           NEW q \in JobRecord, Closed(r, q), NEW t,
           q.retry_count =< q.delivery_attempts,
           q.retry_count < MaxDeliveryAttempts,
           q.pre_io_recoveries =< MaxPreIoRecoveries,
           q.pre_io_recoveries + q.delivery_attempts =< q.claim_count,
           ReasonsValid(q)
    PROVE  Sound(q, t) /\ Faithful(r, q)
  <1>1. q.state # "leased" /\ q.state # "absent" /\ NoReservation.state = "none"
    BY DEF Closed, TerminalStates, NoReservation
  <1>2. CountersValid(q)
    BY RecordNumbers DEF Sound, CountersValid, Closed, SameCounts
  <1>3. BaselineValid(q)
    BY RecordNumbers DEF Sound, BaselineValid, Delivering, Closed, SameCounts
  <1>4. LeaseValid(q)
    BY <1>1 DEF LeaseValid, Closed
  <1>5. StageValid(q)
    BY <1>1 DEF Sound, StageValid, StageFrozen, IsAborted, Closed, SameCounts
  <1>6. Margins(q) /\ Bound(q, t)
    BY <1>1, RecordNumbers DEF Margins, Bound, Closed
  <1>7. Faithful(r, q)
    BY <1>1 DEF Faithful, StageFrozen, Closed, SameCounts
  <1> QED
    BY <1>2, <1>3, <1>4, <1>5, <1>6, <1>7 DEF Sound

\* What an outcome keeps of the record, and what it sets.
LEMMA OutcomeFields ==
    ASSUME NEW r \in JobRecord, NEW reason, NEW status,
           NEW st \in {"ready", "delayed"} \cup TerminalStates,
           status # "STAGE_ABORTED",
           NEW q, q = Outcome(r, st, reason, status)
    PROVE  /\ Closed(r, q) /\ q.state = st /\ q.not_before_left = 0
           /\ q.last_reason = reason /\ q.last_status = status
           /\ q.last_failure_reason = r.last_failure_reason
           /\ q.retry_count = r.retry_count
           /\ q.pre_io_recoveries = r.pre_io_recoveries
  BY DEF Outcome, JobRecord, Closed, SameCounts

\* An outcome that neither fails nor retries the job leaves a valid record.
LEMMA PlainOutcome ==
    ASSUME NEW r \in JobRecord, NEW s, Sound(r, s), r.state \in OpenStates,
           NEW st, NEW reason, NEW status,
           \/ /\ st = "ready" /\ reason = "none"
              /\ status \in {NoStatus, "RELEASED_READY"}
           \/ /\ st = "completed" /\ reason = "already_visited"
              /\ status \in {"COMPLETED", "VISITED_COMPLETED"}
           \/ /\ st = "cancelled" /\ status \in {NoStatus, "CANCELLED"}
              /\ reason \in CancelReasons \cup {"authorization_expired"},
           NEW q \in JobRecord, q = Outcome(r, st, reason, status), NEW t
    PROVE  Sound(q, t) /\ Faithful(r, q)
  <1>1. /\ Closed(r, q) /\ q.state = st
        /\ q.last_reason = reason /\ q.last_status = status
        /\ q.retry_count = r.retry_count
        /\ q.pre_io_recoveries = r.pre_io_recoveries
    <2>1. /\ st \in {"ready", "delayed"} \cup TerminalStates
          /\ status # "STAGE_ABORTED"
      BY NoStatusIsNone DEF TerminalStates
    <2> QED
      BY <2>1, OutcomeFields
  <1>2. r.pre_io_recoveries # MaxPreIoRecoveries
    BY DEF Sound, ReasonsValid, OpenStates
  <1>3. ReasonsValid(q)
    <2>1. st # "dead" /\ reason \notin {"published", "retry_exhausted"}
      BY ReasonsAssumption
    <2>2. q.state = "completed" =>
             <<q.last_reason, q.last_status>> \in
                 {<<"already_visited", "VISITED_COMPLETED">>,
                  <<"already_visited", "COMPLETED">>}
      BY <1>1
    <2>3. q.state = "cancelled" =>
             /\ q.last_reason \in CancelReasons \cup {"authorization_expired"}
             /\ q.last_status \in {NoStatus, "CANCELLED"}
      BY <1>1
    <2> QED
      BY <1>1, <1>2, <2>1, <2>2, <2>3 DEF ReasonsValid
  <1> QED
    BY <1>1, <1>3, ClosedIsSound DEF Sound, CountersValid, Closed, SameCounts

\* A failure sets its own reason besides.
LEMMA FailedFields ==
    ASSUME NEW r \in JobRecord, NEW reason, NEW failure, NEW status,
           status # "STAGE_ABORTED",
           NEW q, q = Failed(r, reason, failure, status)
    PROVE  /\ Closed(r, q) /\ q.state = "dead"
           /\ q.last_reason = reason /\ q.last_status = status
           /\ q.last_failure_reason = failure
           /\ q.retry_count = r.retry_count
           /\ q.pre_io_recoveries = r.pre_io_recoveries
  BY DEF Failed, Outcome, JobRecord, Closed, SameCounts, TerminalStates

\* A permanent failure leaves a valid record, whatever the job had done.
LEMMA FailedRecord ==
    ASSUME NEW r \in JobRecord, NEW s, Sound(r, s), r.state \in OpenStates,
           NEW reason \in DeadReasons,
           NEW q \in JobRecord, q = Failed(r, reason, reason, "DEAD"), NEW t
    PROVE  Sound(q, t) /\ Faithful(r, q)
  <1>1. /\ Closed(r, q) /\ q.state = "dead"
        /\ q.last_reason = reason /\ q.last_status = "DEAD"
        /\ q.last_failure_reason = reason
        /\ q.retry_count = r.retry_count
        /\ q.pre_io_recoveries = r.pre_io_recoveries
    BY FailedFields
  <1>2. r.pre_io_recoveries # MaxPreIoRecoveries
    BY DEF Sound, ReasonsValid, OpenStates
  <1>3. FailureValid(q)
    BY <1>1, ReasonsAssumption DEF FailureValid
  <1>4. ReasonsValid(q)
    BY <1>1, <1>2, <1>3, ReasonsAssumption DEF ReasonsValid
  <1> QED
    BY <1>1, <1>4, ClosedIsSound DEF Sound, CountersValid, Closed, SameCounts
\* A retry counts itself while deliveries are left, and fails the job after the
\* third, within the margin of its lease.
LEMMA RetriedRecord ==
    ASSUME NEW r \in JobRecord, NEW s, Sound(r, s), r.state = "leased",
           r.lease_delivery_started = 1,
           NEW reason \in RetryReasons \cup {"lease_expired_after_io"},
           NEW delay \in {NoStatus, "RETRY_SCHEDULED"}, NEW dead \in {NoStatus, "DEAD"},
           NEW q \in JobRecord, q = Retried(r, reason, delay, dead), NEW t
    PROVE  Sound(q, t) /\ Faithful(r, q)
  <1>1. r.pre_io_recoveries # MaxPreIoRecoveries /\ r.state \in OpenStates
    BY DEF Sound, ReasonsValid, OpenStates
  <1>2. r.retry_count + 1 =< r.delivery_attempts
    BY DEF Sound, Margins
  <1>3. /\ reason \notin {"published", "retry_exhausted"} \cup DeadReasons
           \/ reason = "lease_expired_after_io"
        /\ reason \notin {"published", "retry_exhausted"}
        /\ "retry_exhausted" \notin DeadReasons
    BY ReasonsAssumption
  <1>4. CASE r.delivery_attempts = MaxDeliveryAttempts
    <2>1. q = Failed(r, "retry_exhausted", reason, dead)
      BY <1>4 DEF Retried
    <2>2. /\ Closed(r, q) /\ q.state = "dead"
          /\ q.last_reason = "retry_exhausted" /\ q.last_status = dead
          /\ q.last_failure_reason = reason
          /\ q.retry_count = r.retry_count
          /\ q.pre_io_recoveries = r.pre_io_recoveries
      <3>1. dead # "STAGE_ABORTED"
        BY NoStatusIsNone
      <3> QED
        BY <2>1, <3>1, FailedFields
    <2>3. FailureValid(q)
      BY <1>3, <1>4, <2>2 DEF FailureValid, Closed, SameCounts
    <2>4. ReasonsValid(q)
      BY <1>1, <2>2, <2>3 DEF ReasonsValid
    <2> QED
      BY <1>1, <2>2, <2>4, ClosedIsSound
         DEF Sound, CountersValid, Closed, SameCounts
  <1>5. CASE r.delivery_attempts # MaxDeliveryAttempts
    <2>1. /\ Closed(r, q) /\ q.state = "delayed"
          /\ q.last_reason = reason /\ q.last_status = delay
          /\ q.retry_count = r.retry_count + 1
          /\ q.pre_io_recoveries = r.pre_io_recoveries
      <3> DEFINE p == Outcome(r, "delayed", reason, delay)
                 left == IF r.delivery_attempts = 1 THEN RetryDelay[1]
                         ELSE RetryDelay[2]
      <3>1. delay # "STAGE_ABORTED" /\ delay \in Statuses /\ reason \in Reasons
        BY NoStatusIsNone DEF Statuses, Reasons
      <3>2. p \in JobRecord
        BY <3>1, OutcomeType DEF OpenStates
      <3>3. /\ Closed(r, p) /\ p.state = "delayed"
            /\ p.last_reason = reason /\ p.last_status = delay
            /\ p.retry_count = r.retry_count
            /\ p.pre_io_recoveries = r.pre_io_recoveries
        BY <3>1, OutcomeFields
      <3>4. q = [p EXCEPT !.last_failure_reason = reason, !.not_before_left = left,
                          !.retry_count = p.retry_count + 1]
        BY <1>5 DEF Retried
      <3> HIDE DEF p, left
      <3> QED
        BY <3>2, <3>3, <3>4 DEF JobRecord, Closed, SameCounts
    <2>2. ReasonsValid(q)
      BY <1>1, <1>3, <2>1 DEF ReasonsValid
    <2>3. /\ q.retry_count =< q.delivery_attempts
          /\ q.retry_count < MaxDeliveryAttempts
      <3>1. r.delivery_attempts < MaxDeliveryAttempts
        BY <1>5, RecordNumbers DEF Sound, CountersValid
      <3>2. q.delivery_attempts = r.delivery_attempts
        BY <2>1 DEF Closed, SameCounts
      <3> QED
        BY <1>2, <2>1, <3>1, <3>2, RecordNumbers
    <2>4. /\ q.pre_io_recoveries =< MaxPreIoRecoveries
          /\ q.pre_io_recoveries + q.delivery_attempts =< q.claim_count
      BY <2>1 DEF Sound, CountersValid, Closed, SameCounts
    <2> QED
      BY <1>1, <2>1, <2>2, <2>3, <2>4, ClosedIsSound
  <1> QED
    BY <1>4, <1>5

\* Why work is withdrawn: only an operator or the end of the authorization says so.
LEMMA CancellationReason ==
    ASSUME TypeInv, Cancellation # "none"
    PROVE  Cancellation \in CancelReasons \cup {"authorization_expired"}
  BY DEF TypeInv, CancelledFor, Cancellation

\* Recovery makes a valid record of an expired lease: withdrawn, retried after its
\* delivery, given up after the third recovery before I/O, or ready again.
LEMMA RecoveredRecord ==
    ASSUME NEW r \in JobRecord, NEW s, Sound(r, s), r.state = "leased",
           Cancellation # "none" =>
               Cancellation \in CancelReasons \cup {"authorization_expired"},
           NEW q \in JobRecord, q = Recovered(r), NEW t
    PROVE  Sound(q, t) /\ Faithful(r, q)
  <1>1. r.pre_io_recoveries # MaxPreIoRecoveries /\ r.state \in OpenStates
    BY DEF Sound, ReasonsValid, OpenStates
  <1>2. CASE Cancellation # "none"
    <2>1. q = Outcome(r, "cancelled", Cancellation, NoStatus)
      BY <1>2 DEF Recovered, Withdrawn
    <2> QED
      BY <1>1, <1>2, <2>1, PlainOutcome
  <1>3. CASE Cancellation = "none" /\ r.lease_delivery_started = 1
    <2>1. q = Retried(r, "lease_expired_after_io", NoStatus, NoStatus)
      BY <1>3 DEF Recovered
    <2> QED
      BY <1>3, <2>1, RetriedRecord
  <1>4. CASE Cancellation = "none" /\ r.lease_delivery_started # 1
    <2>1. r.pre_io_recoveries + r.delivery_attempts + 1 =< r.claim_count
      BY <1>4, RecordNumbers DEF Sound, Margins
    <2>2. CASE r.pre_io_recoveries = MaxPreIoRecoveries - 1
      <3>1. /\ Closed(r, q) /\ q.state = "dead"
            /\ q.last_reason = "pre_io_recovery_exhausted" /\ q.last_status = NoStatus
            /\ q.last_failure_reason = "pre_io_recovery_exhausted"
            /\ q.retry_count = r.retry_count
            /\ q.pre_io_recoveries = MaxPreIoRecoveries
        <4> DEFINE why == "pre_io_recovery_exhausted"
                   p == Failed(r, why, why, NoStatus)
        <4>1. /\ Closed(r, p) /\ p.state = "dead"
              /\ p.last_reason = why /\ p.last_status = NoStatus
              /\ p.last_failure_reason = why /\ p.retry_count = r.retry_count
          BY FailedFields, NoStatusIsNone
        <4>2. p \in JobRecord
          BY FailedType DEF Reasons, Statuses
        <4>3. q = [p EXCEPT !.pre_io_recoveries = MaxPreIoRecoveries]
          BY <1>4, <2>2 DEF Recovered
        <4> HIDE DEF p
        <4> QED
          BY <4>1, <4>2, <4>3 DEF JobRecord, Closed, SameCounts
      <3>2. r.delivery_attempts < MaxDeliveryAttempts
        BY <1>4, RecordNumbers DEF Sound, BaselineValid, LeaseValid, Delivering
      <3>3. FailureValid(q)
        BY <3>1, <3>2, ReasonsAssumption DEF FailureValid, Closed, SameCounts
      <3>4. ReasonsValid(q)
        BY <3>1, <3>3 DEF ReasonsValid
      <3>5. q.pre_io_recoveries + q.delivery_attempts =< q.claim_count
        <4>1. /\ q.delivery_attempts = r.delivery_attempts
              /\ q.claim_count = r.claim_count
          BY <3>1 DEF Closed, SameCounts
        <4> QED
          BY <2>1, <2>2, <3>1, <4>1, RecordNumbers
      <3>6. /\ q.retry_count =< q.delivery_attempts
            /\ q.retry_count < MaxDeliveryAttempts
            /\ q.pre_io_recoveries =< MaxPreIoRecoveries
        BY <3>1, RecordNumbers DEF Sound, CountersValid, Closed, SameCounts
      <3> QED
        BY <1>1, <3>1, <3>4, <3>5, <3>6, ClosedIsSound
    <2>3. CASE r.pre_io_recoveries # MaxPreIoRecoveries - 1
      <3>1. /\ Closed(r, q) /\ q.state = "ready"
            /\ q.last_reason = "none" /\ q.last_status = NoStatus
            /\ q.retry_count = r.retry_count
            /\ q.pre_io_recoveries = r.pre_io_recoveries + 1
        BY ZenonT(60), <1>4, <2>3, NoStatusIsNone
           DEF Recovered, Outcome, JobRecord, Closed, SameCounts
      <3>2. /\ q.pre_io_recoveries < MaxPreIoRecoveries
            /\ q.pre_io_recoveries + q.delivery_attempts =< q.claim_count
        <4>1. /\ q.delivery_attempts = r.delivery_attempts
              /\ q.claim_count = r.claim_count
          BY <3>1 DEF Closed, SameCounts
        <4>2. r.pre_io_recoveries =< MaxPreIoRecoveries
          BY DEF Sound, CountersValid
        <4> QED
          BY <1>1, <2>1, <2>3, <3>1, <4>1, <4>2, RecordNumbers
      <3>3. q.pre_io_recoveries # MaxPreIoRecoveries
        BY <3>2, RecordNumbers
      <3>4. ReasonsValid(q)
        BY <3>1, <3>3 DEF ReasonsValid
      <3>5. /\ q.retry_count =< q.delivery_attempts
            /\ q.retry_count < MaxDeliveryAttempts
            /\ q.pre_io_recoveries =< MaxPreIoRecoveries
        BY <3>1, <3>2, RecordNumbers DEF Sound, CountersValid, Closed, SameCounts
      <3> QED
        BY <1>1, <3>1, <3>2, <3>4, <3>5, ClosedIsSound
    <2> QED
      BY <2>2, <2>3
  <1> QED
    BY <1>2, <1>3, <1>4

\* A commit leaves a valid record of what it published.
LEMMA PublishedRecord ==
    ASSUME NEW r \in JobRecord, NEW s, Sound(r, s), r.state = "leased",
           r.active_stage, r.document_fence = r.lease_fence,
           NEW q \in JobRecord,
           q = Outcome(r, "completed", "published", "COMMITTED"), NEW t
    PROVE  Sound(q, t) /\ Faithful(r, q)
  <1>1. /\ Closed(r, q) /\ q.state = "completed"
        /\ q.last_reason = "published" /\ q.last_status = "COMMITTED"
        /\ q.retry_count = r.retry_count
        /\ q.pre_io_recoveries = r.pre_io_recoveries
    <2>1. "completed" \in {"ready", "delayed"} \cup TerminalStates
      BY DEF TerminalStates
    <2> QED
      BY <2>1, OutcomeFields
  <1>2. r.pre_io_recoveries # MaxPreIoRecoveries /\ r.state \in OpenStates
    BY DEF Sound, ReasonsValid, OpenStates
  <1>3. StageFrozen(q) /\ q.document_fence = q.last_stage_fence
    BY <1>1 DEF Sound, StageValid, StageFrozen, Closed, SameCounts
  <1>4. ReasonsValid(q)
    BY <1>1, <1>2, <1>3 DEF ReasonsValid
  <1> QED
    BY <1>1, <1>2, <1>4, ClosedIsSound DEF Sound, CountersValid, Closed, SameCounts

\* The record of a job that was just admitted, and of one that was not yet.
LEMMA NewRecord ==
    ASSUME NEW r \in JobRecord, r = InitialRecord \/ r = AbsentRecord, NEW t
    PROVE  Sound(r, t)
  <1>1. /\ r.state \in {"ready", "absent"} /\ r.claim_count = 0
        /\ r.lease_fence = 0 /\ r.lease_owner = NoWorker /\ r.lease_left = 0
        /\ r.lease_delivery_started = 0 /\ r.delivery_attempts = 0
        /\ r.request_starts = 0 /\ r.baseline = 0 /\ r.retry_count = 0
        /\ r.pre_io_recoveries = 0 /\ r.next_request_ordinal = 1
        /\ r.reservation = NoReservation /\ r.document_fence = 0
        /\ r.active_stage = FALSE /\ r.last_stage_fence = 0
        /\ r.not_before_left = 0 /\ r.blocked = "none"
        /\ r.last_reason = "none" /\ r.last_status = NoStatus
    BY DEF InitialRecord, AbsentRecord
  <1>2. NoReservation.state = "none" /\ ~StageFrozen(r)
    BY <1>1 DEF NoReservation, StageFrozen
  <1>3. CountersValid(r)
    BY <1>1, BoundsAssumption
       DEF CountersValid, MaxDeliveryAttempts, MaxPreIoRecoveries
  <1>4. BaselineValid(r)
    BY <1>1, BoundsAssumption DEF BaselineValid, Delivering
  <1>5. LeaseValid(r) /\ StageValid(r)
    BY <1>1, <1>2, NoStatusIsNone DEF LeaseValid, StageValid
  <1>6. ReasonsValid(r)
    BY <1>1, ReasonsAssumption DEF ReasonsValid, MaxPreIoRecoveries
  <1>7. Margins(r) /\ Bound(r, t)
    BY <1>1, <1>2, BoundsAssumption DEF Margins, Bound
  <1> QED
    BY <1>3, <1>4, <1>5, <1>6, <1>7 DEF Sound
-----------------------------------------------------------------------------
(* The steps of the ledger.                                                *)

\* A step keeps the record of job i sound, and is faithful to its lease.
Keeps(i) == Sound(job'[i], stage'[i]) /\ Faithful(job[i], job'[i])

\* What a step leaves alone it keeps.
LEMMA Untouched ==
    ASSUME RecordInv, NEW i \in Jobs, job'[i] = job[i],
           job[i].active_stage =>
               /\ stage'[i].generation = stage[i].generation
               /\ stage'[i].left = stage[i].left
    PROVE  Keeps(i)
  <1>1. job[i] \in JobRecord /\ Sound(job[i], stage[i])
    BY DEF RecordInv, TypeInv, TypeOK
  <1>2. Faithful(job[i], job'[i])
    BY <1>1, RecordNumbers DEF Faithful
  <1>3. Sound(job'[i], stage'[i])
    BY <1>1 DEF Sound, Bound
  <1> QED
    BY <1>2, <1>3 DEF Keeps

\* A settlement keeps every record if it keeps those it settles.
LEMMA SettleKeeps ==
    ASSUME RecordInv, NEW D \in SUBSET Jobs, NEW post, NEW n,
           Settle(D, post, n),
           \A j \in D : Sound(post[j], NoStage) /\ Faithful(job[j], post[j]),
           NEW i \in Jobs
    PROVE  Keeps(i)
  <1>1. /\ i \in D => job'[i] = post[i] /\ stage'[i] = NoStage
        /\ i \notin D => job'[i] = job[i] /\ stage'[i] = stage[i]
    BY DEF Settle
  <1>2. CASE i \in D
    BY <1>1, <1>2 DEF Keeps
  <1>3. CASE i \notin D
    BY <1>1, <1>3, Untouched
  <1> QED
    BY <1>2, <1>3

\* A settlement of a single job.
LEMMA SettleOneKeeps ==
    ASSUME RecordInv, TypeInv', NEW j \in Jobs, NEW q,
           Settle({j}, [k \in {j} |-> q], 0),
           q \in JobRecord => Sound(q, NoStage) /\ Faithful(job[j], q),
           NEW i \in Jobs
    PROVE  Keeps(i)
  <1> DEFINE post == [k \in {j} |-> q]
  <1>1. post[j] = q /\ Settle({j}, post, 0) /\ {j} \in SUBSET Jobs
    OBVIOUS
  <1> HIDE DEF post
  <1>2. job'[j] = q
    BY <1>1 DEF Settle
  <1>3. q \in JobRecord
    BY <1>2 DEF TypeInv, TypeOK
  <1> QED
    BY <1>1, <1>3, SettleKeeps

\* A worker's outcome, which a withdrawn run overrides.
LEMMA EndLeaseKeeps ==
    ASSUME RecordInv, TypeInv', NEW w \in Workers, NEW j \in Jobs, NEW f \in Nat,
           NEW post, EndLease(w, j, f, post),
           (Cancellation = "none" /\ post \in JobRecord) =>
               Sound(post, NoStage) /\ Faithful(job[j], post),
           NEW i \in Jobs
    PROVE  Keeps(i)
  <1> DEFINE q == IF Cancellation = "none" THEN post
                  ELSE Withdrawn(job[j], "CANCELLED")
  <1>1. /\ Settle({j}, [k \in {j} |-> q], 0)
        /\ job[j].state \in OpenStates
        /\ job[j] \in JobRecord /\ Sound(job[j], stage[j])
    BY DEF EndLease, GivesUp, Holds, OpenStates, RecordInv, TypeInv, TypeOK
  <1>2. ASSUME q \in JobRecord
        PROVE  Sound(q, NoStage) /\ Faithful(job[j], q)
    <2>1. CASE Cancellation = "none"
      BY <1>2, <2>1
    <2>2. CASE Cancellation # "none"
      <3>1. q = Outcome(job[j], "cancelled", Cancellation, "CANCELLED")
        BY <2>2 DEF Withdrawn
      <3>2. Cancellation \in CancelReasons \cup {"authorization_expired"}
        BY <2>2, CancellationReason DEF RecordInv
      <3> QED
        BY <1>1, <1>2, <3>1, <3>2, PlainOutcome
    <2> QED
      BY <2>1, <2>2
  <1> HIDE DEF q
  <1> QED
    BY <1>1, <1>2, SettleOneKeeps

\* The outcomes that a worker reports keep every record.
LEMMA OutcomeKeeps ==
    ASSUME RecordInv, TypeInv', NEW w \in Workers, NEW j \in Jobs, NEW f \in Nat,
           \/ ReleaseBeforeIo(w, j, f)
           \/ \E r \in RetryReasons : Retry(w, j, f, r)
           \/ \E r \in DeadReasons : Dead(w, j, f, r)
           \/ CompleteNoOutput(w, j, f)
           \/ CancelJob(w, j, f),
           NEW i \in Jobs
    PROVE  Keeps(i)
  <1> DEFINE r == job[j]
  <1>1. /\ r \in JobRecord /\ Sound(r, stage[j])
        /\ r.state = "leased" /\ r.state \in OpenStates
    <2>1. Holds(j, w, f)
      BY DEF ReleaseBeforeIo, Retry, Dead, CompleteNoOutput, CancelJob,
             EndLease, GivesUp
    <2> QED
      BY <2>1 DEF Holds, OpenStates, RecordInv, TypeInv, TypeOK
  <1>2. CASE ReleaseBeforeIo(w, j, f)
    <2> DEFINE q == Outcome(r, "ready", "none", "RELEASED_READY")
    <2>1. q \in JobRecord => Sound(q, NoStage) /\ Faithful(r, q)
      BY <1>1, PlainOutcome
    <2>2. EndLease(w, j, f, q)
      BY <1>2 DEF ReleaseBeforeIo
    <2> HIDE DEF q
    <2> QED
      BY <2>1, <2>2, EndLeaseKeeps
  <1>3. ASSUME NEW reason \in RetryReasons, Retry(w, j, f, reason)
        PROVE  Keeps(i)
    <2> DEFINE q == Retried(r, reason, "RETRY_SCHEDULED", "DEAD")
    <2>1. (Cancellation = "none" /\ q \in JobRecord) =>
             Sound(q, NoStage) /\ Faithful(r, q)
      <3>1. Cancellation = "none" => r.lease_delivery_started = 1
        BY <1>3 DEF Retry
      <3> QED
        BY <1>1, <3>1, RetriedRecord
    <2>2. EndLease(w, j, f, q)
      BY <1>3 DEF Retry
    <2> HIDE DEF q
    <2> QED
      BY <2>1, <2>2, EndLeaseKeeps
  <1>4. ASSUME NEW reason \in DeadReasons, Dead(w, j, f, reason)
        PROVE  Keeps(i)
    <2> DEFINE q == Failed(r, reason, reason, "DEAD")
    <2>1. q \in JobRecord => Sound(q, NoStage) /\ Faithful(r, q)
      BY <1>1, FailedRecord
    <2>2. EndLease(w, j, f, q)
      BY <1>4 DEF Dead
    <2> HIDE DEF q
    <2> QED
      BY <2>1, <2>2, EndLeaseKeeps
  <1>5. CASE CompleteNoOutput(w, j, f)
    <2> DEFINE q == Outcome(r, "completed", "already_visited", "COMPLETED")
    <2>1. q \in JobRecord => Sound(q, NoStage) /\ Faithful(r, q)
      BY <1>1, PlainOutcome
    <2>2. EndLease(w, j, f, q)
      BY <1>5 DEF CompleteNoOutput
    <2> HIDE DEF q
    <2> QED
      BY <2>1, <2>2, EndLeaseKeeps
  <1>6. CASE CancelJob(w, j, f)
    <2> DEFINE q == Withdrawn(r, "CANCELLED")
    <2>1. Cancellation # "none" /\ EndLease(w, j, f, q)
      BY <1>6 DEF CancelJob
    <2> HIDE DEF q
    <2> QED
      BY <2>1, EndLeaseKeeps
  <1> QED
    BY <1>2, <1>3, <1>4, <1>5, <1>6

\* A call on a leased job that touches no other job.
LEMMA OwnCall ==
    ASSUME RecordInv, NEW j \in Jobs,
           \A i \in Jobs \ {j} : job'[i] = job[i] /\ stage'[i] = stage[i],
           Keeps(j), NEW i \in Jobs
    PROVE  Keeps(i)
  <1>1. CASE i = j
    BY <1>1
  <1>2. CASE i # j
    BY <1>2, Untouched
  <1> QED
    BY <1>1, <1>2
\* The calls that reserve, start, renew and end requests keep every record.
LEMMA RequestKeeps ==
    ASSUME RecordInv, TypeInv', \A i \in Jobs : Bounded(job'[i]),
           NEW w \in Workers, NEW j \in Jobs, NEW f \in Nat,
           \/ \E g \in Groups, k \in RequestKinds : Reserve(w, j, f, g, k)
           \/ \E heard \in BOOLEAN : Start(w, j, f, heard) \/ Renew(w, j, f, heard)
           \/ ReplayStart(w, j, f)
           \/ FinishRequest(w, j, f) \/ CancelReservation(w, j, f),
           NEW i \in Jobs
    PROVE  Keeps(i)
  <1> DEFINE r == job[j]
  <1>1. /\ job \in [Jobs -> JobRecord] /\ r \in JobRecord /\ Sound(r, stage[j])
        /\ stage \in [Jobs -> StageRecord]
        /\ job' \in [Jobs -> JobRecord] /\ Bounded(job'[j])
    BY DEF RecordInv, TypeInv, TypeOK
  <1>2. /\ r.state = "leased" /\ r.lease_fence = f
        /\ UNCHANGED stage
    BY DEF Reserve, Start, Renew, ReplayStart, FinishRequest, CancelReservation,
           EndReservation, Holds
  <1>3. ASSUME NEW q, job' = [job EXCEPT ![j] = q],
               (q \in JobRecord /\ Bounded(q)) => Sound(q, stage[j]) /\ Faithful(r, q)
        PROVE  Keeps(i)
    <2>1. job'[j] = q /\ \A k \in Jobs \ {j} : job'[k] = job[k]
      BY <1>1, <1>3
    <2>2. Keeps(j)
      BY <1>1, <1>2, <1>3, <2>1 DEF Keeps
    <2> QED
      BY <1>2, <2>1, <2>2, OwnCall
  <1>4. ASSUME NEW g \in Groups, NEW k \in RequestKinds, Reserve(w, j, f, g, k)
        PROVE  Keeps(i)
    <2> DEFINE p == PendingReservation(j, g, k, "reserve")
               q == [r EXCEPT !.reservation = p,
                              !.next_request_ordinal = r.next_request_ordinal + 1]
    <2>1. job' = [job EXCEPT ![j] = q]
      BY <1>4 DEF Reserve
    <2>2. /\ r.reservation = NoReservation
          /\ r.last_stage_fence < r.lease_fence
      <3>1. r.last_stage_fence \in Nat /\ r.lease_fence \in Nat
        BY <1>1 DEF JobRecord
      <3>2. ~Frozen(j) /\ r.reservation = NoReservation
        BY <1>4 DEF Reserve
      <3> QED
        BY <3>1, <3>2 DEF Frozen
    <2>3. p.state = "pending" /\ p.group = g
      BY DEF PendingReservation
    <2>4. job'[j] = q
      BY <1>1, <2>1
    <2> HIDE DEF p
    <2>5. q.reservation = p /\ p \in Reservation
      <3>1. q.reservation = p
        BY <1>1 DEF JobRecord
      <3>2. q \in JobRecord
        BY <1>1, <2>4
      <3> QED
        BY <3>1, <3>2 DEF JobRecord
    <2>6. (q \in JobRecord /\ Bounded(q)) => Sound(q, stage[j]) /\ Faithful(r, q)
      BY <1>1, <1>2, <2>2, <2>3, <2>5, ReservedRecord
    <2> HIDE DEF q
    <2> QED
      BY <1>3, <2>1, <2>6
  <1>5. ASSUME NEW heard \in BOOLEAN, Start(w, j, f, heard)
        PROVE  Keeps(i)
    <2> DEFINE q == StartedRecord(r, f)
    <2>1. job' = [job EXCEPT ![j] = q] /\ r.reservation.state = "pending"
      BY <1>5 DEF Start
    <2>2. r.last_stage_fence < r.lease_fence
      <3>1. r.last_stage_fence \in Nat /\ r.lease_fence \in Nat
        BY <1>1 DEF JobRecord
      <3>2. ~Frozen(j)
        BY <1>5 DEF Start
      <3> QED
        BY <3>1, <3>2 DEF Frozen
    <2>3. (q \in JobRecord /\ Bounded(q)) => Sound(q, stage[j]) /\ Faithful(r, q)
      BY <1>1, <1>2, <2>1, <2>2, StartedIsSound
    <2> HIDE DEF q
    <2> QED
      BY <1>3, <2>1, <2>3
  <1>6. ASSUME NEW heard \in BOOLEAN, Renew(w, j, f, heard)
        PROVE  Keeps(i)
    <2> DEFINE left == RenewedLease(j)
               q == [r EXCEPT !.lease_left = left]
    <2>1. job' = [job EXCEPT ![j] = q]
      BY <1>6 DEF Renew
    <2>2. /\ left \in Nat /\ left =< LeaseTTL
          /\ r.active_stage => left =< stage[j].left
      <3>1. stage[j].left \in Nat /\ LeaseTTL \in Nat
        BY <1>1, BoundsAssumption DEF StageRecord
      <3> QED
        BY <3>1 DEF RenewedLease, MinOf
    <2> HIDE DEF left
    <2>3. q \in JobRecord => Sound(q, stage[j]) /\ Faithful(r, q)
      BY <1>1, <1>2, <2>2, RenewedRecord
    <2> HIDE DEF q
    <2> QED
      BY <1>3, <2>1, <2>3
  <1>7. CASE ReplayStart(w, j, f)
    BY <1>2, <1>7, Untouched DEF ReplayStart
  <1>8. CASE FinishRequest(w, j, f) \/ CancelReservation(w, j, f)
    <2> DEFINE q == [r EXCEPT !.reservation = NoReservation]
    <2>1. job' = [job EXCEPT ![j] = q]
      BY <1>8 DEF FinishRequest, CancelReservation, EndReservation
    <2>2. q \in JobRecord => Sound(q, stage[j]) /\ Faithful(r, q)
      BY <1>1, <1>2, FreedRecord
    <2> HIDE DEF q
    <2> QED
      BY <1>3, <2>1, <2>2
  <1> QED
    BY <1>4, <1>5, <1>6, <1>7, <1>8

\* The calls on a stage keep every record.
LEMMA StageKeeps ==
    ASSUME RecordInv, TypeInv',
           NEW w \in Workers, NEW j \in Jobs, NEW f \in Nat,
           \/ BeginStage(w, j, f) \/ SealStage(w, j, f) \/ AbortStage(w, j, f)
           \/ \E reason \in BlockReasons : Backpressure(w, j, f, reason),
           NEW i \in Jobs
    PROVE  Keeps(i)
  <1> DEFINE r == job[j]
  <1>1. /\ job \in [Jobs -> JobRecord] /\ r \in JobRecord /\ Sound(r, stage[j])
        /\ stage \in [Jobs -> StageRecord] /\ job' \in [Jobs -> JobRecord]
    BY DEF RecordInv, TypeInv, TypeOK
  <1>2. StageReady(w, j, f)
    BY DEF BeginStage, SealStage, AbortStage, Backpressure, OwnsStage
  <1>3. /\ r.state = "leased" /\ r.lease_fence = f
        /\ r.reservation = NoReservation /\ r.lease_delivery_started = 1
        /\ r.document_fence = r.lease_fence
    BY <1>2 DEF StageReady, Holds
  <1>4. ASSUME NEW q, job' = [job EXCEPT ![j] = q],
               \A k \in Jobs \ {j} : stage'[k] = stage[k],
               q \in JobRecord => Sound(q, stage'[j]) /\ Faithful(r, q)
        PROVE  Keeps(i)
    <2>1. job'[j] = q /\ \A k \in Jobs \ {j} : job'[k] = job[k]
      BY <1>1, <1>4
    <2>2. Keeps(j)
      BY <1>1, <1>4, <2>1 DEF Keeps
    <2> QED
      BY <1>4, <2>1, <2>2, OwnCall
  <1>5. CASE BeginStage(w, j, f)
    <2> DEFINE q == [r EXCEPT !.active_stage = TRUE,
                              !.last_stage_fence = r.lease_fence]
               t == [sealed |-> FALSE, left |-> StageTTL,
                     generation |-> r.request_starts]
    <2>1. job' = [job EXCEPT ![j] = q]
      BY <1>3, <1>5 DEF BeginStage
    <2>2. stage' = [stage EXCEPT ![j] = t]
      BY <1>5 DEF BeginStage
    <2>3. ~r.active_stage /\ r.last_stage_fence < r.lease_fence
      BY <1>3, <1>5 DEF BeginStage
    <2>4. t.generation = r.request_starts /\ t.left = StageTTL
      OBVIOUS
    <2> HIDE DEF t
    <2>5. stage'[j] = t /\ \A k \in Jobs \ {j} : stage'[k] = stage[k]
      BY <1>1, <2>2
    <2>6. q \in JobRecord => Sound(q, t) /\ Faithful(r, q)
      BY <1>1, <1>3, <2>3, <2>4, BegunRecord
    <2> HIDE DEF q
    <2> QED
      BY <1>4, <2>1, <2>5, <2>6
  <1>6. CASE SealStage(w, j, f)
    <2> DEFINE t == [stage[j] EXCEPT !.sealed = TRUE]
    <2>1. stage' = [stage EXCEPT ![j] = t] /\ UNCHANGED job
      BY <1>6 DEF SealStage
    <2>2. t.generation = stage[j].generation /\ t.left = stage[j].left
      BY <1>1 DEF StageRecord
    <2> HIDE DEF t
    <2>3. /\ stage'[i].generation = stage[i].generation
          /\ stage'[i].left = stage[i].left
      BY <1>1, <2>1, <2>2
    <2> QED
      BY <2>1, <2>3, Untouched
  <1>7. CASE AbortStage(w, j, f)
    <2> DEFINE q == [r EXCEPT !.active_stage = FALSE, !.last_reason = "none",
                              !.last_status = "STAGE_ABORTED"]
    <2>1. job' = [job EXCEPT ![j] = q] /\ r.active_stage
      BY <1>7 DEF AbortStage, OwnsStage
    <2>2. \A k \in Jobs \ {j} : stage'[k] = stage[k]
      BY <1>1, <1>7 DEF AbortStage
    <2>3. q \in JobRecord => Sound(q, stage'[j]) /\ Faithful(r, q)
      BY <1>1, <1>3, <2>1, AbortedRecord
    <2> HIDE DEF q
    <2> QED
      BY <1>4, <2>1, <2>2, <2>3
  <1>8. ASSUME NEW reason \in BlockReasons, Backpressure(w, j, f, reason)
        PROVE  Keeps(i)
    <2> DEFINE q == [r EXCEPT !.blocked = reason, !.blocked_left = BlockedFor(j)]
    <2>1. job' = [job EXCEPT ![j] = q] /\ r.active_stage /\ UNCHANGED stage
      BY <1>8 DEF Backpressure, OwnsStage
    <2>2. q \in JobRecord => Sound(q, stage[j]) /\ Faithful(r, q)
      BY <1>1, <1>3, <2>1, BlockedRecord
    <2> HIDE DEF q
    <2> QED
      BY <1>4, <2>1, <2>2
  <1> QED
    BY <1>5, <1>6, <1>7, <1>8
\* The record of a job that was absent is faithful to what it was.
LEMMA OpenedKeeps ==
    ASSUME RecordInv, NEW i \in Jobs, job[i].state = "absent",
           job'[i] = InitialRecord, InitialRecord \in JobRecord
    PROVE  Keeps(i)
  <1> DEFINE r == job[i]
  <1>1. r \in JobRecord /\ Sound(r, stage[i])
    BY DEF RecordInv, TypeInv, TypeOK
  <1>2. r.lease_fence = 0 /\ r.last_stage_fence = 0
    BY <1>1, RecordNumbers DEF Sound, CountersValid, Margins
  <1>3. InitialRecord.lease_fence = 0 /\ InitialRecord.state = "ready"
    BY DEF InitialRecord
  <1>4. Faithful(r, InitialRecord)
    BY <1>2, <1>3 DEF Faithful, StageFrozen
  <1>5. Sound(InitialRecord, stage'[i])
    BY NewRecord
  <1> QED
    BY <1>4, <1>5 DEF Keeps

\* A commit keeps the record it publishes, those it opens, and all others.
LEMMA CommitKeeps ==
    ASSUME RecordInv, TypeInv', NEW w \in Workers, NEW j \in Jobs, NEW f \in Nat,
           NEW D \in SUBSET Jobs, NEW A \in SUBSET Jobs, Commit(w, j, f, D, A),
           NEW i \in Jobs
    PROVE  Keeps(i)
  <1> DEFINE r == job[j]
             q == Outcome(r, "completed", "published", "COMMITTED")
  <1>1. /\ r \in JobRecord /\ Sound(r, stage[j])
        /\ stage \in [Jobs -> StageRecord] /\ job' \in [Jobs -> JobRecord]
    BY DEF RecordInv, TypeInv, TypeOK
  <1>2. /\ r.state = "leased" /\ r.active_stage /\ r.document_fence = r.lease_fence
    BY DEF Commit, OwnsStage, StageReady, Holds
  <1>3. /\ job'[j] = q
        /\ stage' = [stage EXCEPT ![j] = NoStage]
        /\ i # j => \/ job'[i] = job[i]
                    \/ job[i].state = "absent" /\ job'[i] = InitialRecord
    BY DEF Commit, Fresh
  <1>4. q \in JobRecord
    BY <1>1, <1>3
  <1>5. CASE i = j
    <2>1. Sound(q, stage'[j]) /\ Faithful(r, q)
      BY <1>1, <1>2, <1>4, PublishedRecord
    <2> HIDE DEF q
    <2> QED
      BY <1>3, <1>5, <2>1 DEF Keeps
  <1>6. CASE i # j /\ job'[i] = job[i]
    BY <1>1, <1>3, <1>6, Untouched
  <1>7. CASE job[i].state = "absent" /\ job'[i] = InitialRecord
    BY <1>1, <1>7, OpenedKeeps
  <1> QED
    BY <1>3, <1>5, <1>6, <1>7

\* The steps on a ready job keep every record.
LEMMA ReadyKeeps ==
    ASSUME RecordInv, TypeInv', \A i \in Jobs : Bounded(job'[i]),
           NEW j \in Jobs, ReadyStep(j), NEW i \in Jobs
    PROVE  Keeps(i)
  <1> DEFINE r == job[j]
  <1>1. /\ job \in [Jobs -> JobRecord] /\ r \in JobRecord /\ Sound(r, stage[j])
        /\ job' \in [Jobs -> JobRecord] /\ Bounded(job'[j])
        /\ SourceGroup[j] \in Groups /\ "ready" \in OpenStates
    BY SetsAssumption DEF RecordInv, TypeInv, TypeOK, OpenStates
  <1>2. ASSUME NEW prior, ClaimVisited(j, prior)
        PROVE  Keeps(i)
    <2> DEFINE q == Outcome(r, "completed", "already_visited", "VISITED_COMPLETED")
    <2>1. Settle({j}, [k \in {j} |-> q], 0) /\ r.state = "ready"
      BY <1>2 DEF ClaimVisited
    <2>2. q \in JobRecord => Sound(q, NoStage) /\ Faithful(r, q)
      BY <1>1, <2>1, PlainOutcome
    <2> HIDE DEF q
    <2> QED
      BY <2>1, <2>2, SettleOneKeeps
  <1>3. ASSUME NEW reason \in ReadyReasons, RejectReady(j, reason)
        PROVE  Keeps(i)
    <2> DEFINE q == Failed(r, reason, reason, "DEAD")
    <2>1. Settle({j}, [k \in {j} |-> q], 0) /\ r.state = "ready"
      BY <1>3 DEF RejectReady
    <2>2. q \in JobRecord => Sound(q, NoStage) /\ Faithful(r, q)
      BY <1>1, <1>3, <2>1, FailedRecord, ReasonsAssumption
    <2> HIDE DEF q
    <2> QED
      BY <2>1, <2>2, SettleOneKeeps
  <1>4. ASSUME NEW prior, NEW w \in Workers, NEW k \in RequestKinds, NEW heard,
               Claim(w, j, prior, k, heard)
        PROVE  Keeps(i)
    <2> DEFINE p == PendingReservation(j, SourceGroup[j], k, "claim")
               q == [r EXCEPT !.state = "leased", !.claim_count = r.claim_count + 1,
                         !.lease_fence = r.lease_fence + 1, !.lease_owner = w,
                         !.lease_left = LeaseTTL, !.lease_delivery_started = 0,
                         !.baseline = r.request_starts, !.reservation = p,
                         !.next_request_ordinal = r.next_request_ordinal + 1,
                         !.last_status = "CLAIMED"]
    <2>1. job' = [job EXCEPT ![j] = q] /\ UNCHANGED stage
      BY <1>4 DEF Claim
    <2>2. r.state = "ready" /\ r.delivery_attempts < MaxDeliveryAttempts
      BY <1>4 DEF Claim
    <2>3. p.state = "pending" /\ p.group \in Groups
      BY <1>1 DEF PendingReservation
    <2>4. job'[j] = q /\ \A l \in Jobs \ {j} : job'[l] = job[l]
      BY <1>1, <2>1
    <2> HIDE DEF p
    <2>5. q.reservation = p /\ q \in JobRecord /\ p \in Reservation
      <3>1. q.reservation = p
        BY <1>1 DEF JobRecord
      <3>2. q \in JobRecord
        BY <1>1, <2>4
      <3> QED
        BY <3>1, <3>2 DEF JobRecord
    <2>6. Sound(q, stage[j]) /\ Faithful(r, q)
      <3>1. Bounded(q)
        BY <1>1, <2>4
      <3> HIDE DEF r
      <3> QED
        BY <1>1, <2>2, <2>3, <2>5, <3>1, ClaimedRecord
    <2> HIDE DEF q
    <2>7. Keeps(j)
      BY <2>1, <2>4, <2>6 DEF Keeps
    <2> QED
      BY <2>1, <2>4, <2>7, OwnCall
  <1>5. ASSUME NEW w \in Workers, ReplayClaim(w, j)
        PROVE  Keeps(i)
    BY <1>5, Untouched DEF ReplayClaim
  <1> QED
    BY <1>2, <1>3, <1>4, <1>5 DEF ReadyStep

\* The maintenance passes keep every record.
LEMMA MaintenanceKeeps ==
    ASSUME RecordInv, TypeInv', Maintenance, NEW i \in Jobs
    PROVE  Keeps(i)
  <1>1. /\ job \in [Jobs -> JobRecord] /\ job' \in [Jobs -> JobRecord]
        /\ \A j \in Jobs : Sound(job[j], stage[j])
    BY DEF RecordInv, TypeInv, TypeOK
  <1>2. Cancellation # "none" =>
            Cancellation \in CancelReasons \cup {"authorization_expired"}
    BY CancellationReason DEF RecordInv
  <1>3. ASSUME NEW b \in SUBSET Jobs, PromoteDue(b)
        PROVE  Keeps(i)
    <2>1. CASE i \in b
      <3> DEFINE q == [job[i] EXCEPT !.state = "ready"]
      <3>1. job'[i] = q /\ UNCHANGED stage
        BY <1>3, <2>1 DEF PromoteDue
      <3>2. job[i].state = "delayed" /\ job[i].not_before_left = 0
        BY <1>3, <2>1 DEF PromoteDue, IsBatch, DueRetries, InState
      <3>3. Sound(q, stage[i]) /\ Faithful(job[i], q)
        BY <1>1, <3>1, <3>2, PromotedRecord
      <3> HIDE DEF q
      <3> QED
        BY <3>1, <3>3 DEF Keeps
    <2>2. CASE i \notin b
      BY <1>3, <2>2, Untouched DEF PromoteDue
    <2> QED
      BY <2>1, <2>2
  <1>4. ASSUME NEW b \in SUBSET Jobs, CancelBatch(b)
        PROVE  Keeps(i)
    <2> DEFINE post == [j \in b |-> Withdrawn(job[j], NoStatus)]
    <2>1. Settle(b, post, 0) /\ run.state = "cancelled"
      BY <1>4 DEF CancelBatch
    <2>2. \A j \in b : job'[j] = post[j]
      BY <2>1 DEF Settle
    <2>3. ASSUME NEW j \in b
          PROVE  Sound(post[j], NoStage) /\ Faithful(job[j], post[j])
      <3>1. post[j] = Outcome(job[j], "cancelled", Cancellation, NoStatus)
        BY DEF Withdrawn
      <3>2. Cancellation \in CancelReasons \cup {"authorization_expired"}
        BY <2>1 DEF Cancellation, RecordInv, TypeInv, CancelledFor
      <3>3. job[j].state \in OpenStates
        BY <1>4 DEF CancelBatch, IsBatch, Cancellable, InState, OpenStates
      <3>4. post[j] \in JobRecord
        BY <1>1, <2>2
      <3> HIDE DEF post
      <3> QED
        BY <1>1, <3>1, <3>2, <3>3, <3>4, PlainOutcome
    <2> HIDE DEF post
    <2> QED
      BY <2>1, <2>3, SettleKeeps
  <1>5. ASSUME RecoverExpired
        PROVE  Keeps(i)
    <2> DEFINE post == [j \in Expired |-> Recovered(job[j])]
    <2>1. /\ Settle(Expired, post, Cardinality(Expired))
          /\ Expired \in SUBSET Jobs
      BY <1>5 DEF RecoverExpired, Expired, InState
    <2>2. \A j \in Expired : job'[j] = post[j]
      BY <2>1 DEF Settle
    <2>3. ASSUME NEW j \in Expired
          PROVE  Sound(post[j], NoStage) /\ Faithful(job[j], post[j])
      <3>1. post[j] = Recovered(job[j]) /\ job[j].state = "leased" /\ j \in Jobs
        BY DEF Expired, InState
      <3>2. post[j] \in JobRecord
        BY <1>1, <2>2, <3>1
      <3> HIDE DEF post
      <3> QED
        BY <1>1, <1>2, <3>1, <3>2, RecoveredRecord
    <2> HIDE DEF post
    <2> QED
      BY <2>1, <2>3, SettleKeeps
  <1>6. ASSUME (\E reason \in CancelReasons : CancelRun(reason)) \/ FinalizeRun
        PROVE  Keeps(i)
    BY <1>6, Untouched DEF CancelRun, FinalizeRun
  <1> QED
    BY <1>3, <1>4, <1>5, <1>6 DEF Maintenance

\* The passing of time keeps every record.
LEMMA TickKeeps ==
    ASSUME RecordInv, TypeInv', Tick, NEW i \in Jobs
    PROVE  Keeps(i)
  <1> DEFINE r == job[i]
             q == [r EXCEPT !.lease_left = Less(r.lease_left),
                            !.not_before_left = Less(r.not_before_left),
                            !.blocked_left = Less(r.blocked_left)]
             t == [stage[i] EXCEPT !.left = Less(stage[i].left)]
  <1>1. /\ r \in JobRecord /\ Sound(r, stage[i]) /\ stage[i] \in StageRecord
        /\ job' \in [Jobs -> JobRecord]
    BY DEF RecordInv, TypeInv, TypeOK
  <1>2. job'[i] = q /\ stage'[i] = t
    BY DEF Tick
  <1>3. t.generation = stage[i].generation /\ t.left = Less(stage[i].left)
    BY <1>1 DEF StageRecord
  <1>4. q \in JobRecord
    BY <1>1, <1>2
  <1> HIDE DEF t
  <1>5. Sound(q, t) /\ Faithful(r, q)
    BY <1>1, <1>3, <1>4, AgedRecord
  <1> HIDE DEF q
  <1> QED
    BY <1>2, <1>5 DEF Keeps

\* Every step keeps every record, and is faithful to every lease.
LEMMA RecordStep ==
    ASSUME RecordInv, [Next]_vars, \A j \in Jobs : Bounded(job'[j])
    PROVE  RecordInv' /\ \A j \in Jobs : Faithful(job[j], job'[j])
  <1>1. TypeInv'
    BY TypeStep DEF RecordInv
  <1>2. ASSUME NEW i \in Jobs
        PROVE  Keeps(i)
    <2>1. ASSUME NEW j \in Jobs, NEW w \in Workers,
                 NEW f \in 1 .. job[j].lease_fence, LeaseStep(w, j, f)
          PROVE  Keeps(i)
      <3>1. f \in Nat
        BY DEF RecordInv, TypeInv, TypeOK, JobRecord
      <3> QED
        BY <1>1, <2>1, <3>1, OutcomeKeeps, RequestKeeps, StageKeeps, CommitKeeps
           DEF LeaseStep
    <2>2. ASSUME NEW j \in Jobs, ReadyStep(j)
          PROVE  Keeps(i)
      BY <1>1, <2>2, ReadyKeeps
    <2>3. CASE Maintenance
      BY <1>1, <2>3, MaintenanceKeeps
    <2>4. CASE Tick
      BY <1>1, <2>4, TickKeeps
    <2>5. CASE \/ AuthorizationExpires \/ Done \/ UNCHANGED vars
               \/ \E w \in Workers : Abandon(w)
      BY <2>5, Untouched DEF AuthorizationExpires, Done, Abandon, vars
    <2> QED
      BY <2>1, <2>2, <2>3, <2>4, <2>5 DEF Next
  <1>3. \A j \in Jobs : Sound(job'[j], stage'[j])
    BY <1>2 DEF Keeps
  <1> QED
    BY <1>1, <1>2, <1>3 DEF RecordInv, Keeps

\* The records are sound at the start.
LEMMA RecordInit == Init => RecordInv
  <1> SUFFICES ASSUME Init PROVE RecordInv
    OBVIOUS
  <1>1. TypeInv
    BY TypeInit
  <1>2. ASSUME NEW j \in Jobs
        PROVE  Sound(job[j], stage[j])
    <2>1. job[j] = InitialRecord \/ job[j] = AbsentRecord
      BY DEF Init
    <2>2. job[j] \in JobRecord
      BY <1>1 DEF TypeInv, TypeOK
    <2> QED
      BY <2>1, <2>2, NewRecord
  <1> QED
    BY <1>1, <1>2 DEF RecordInv

\* Sound records are those that the scripts accept.
LEMMA RecordsAccepted == RecordInv => RecordsValid
  BY DEF RecordInv, Sound, Bound, RecordsValid, JobValid, StageBinds
==============================================================================

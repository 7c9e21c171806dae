------------------------------ MODULE Backlinks ------------------------------
(***************************************************************************)
(* The backlinks processor (services/backlinks-processor): it copies the   *)
(* members of the Redis sets backlinks:<target>, which the spider fills,   *)
(* to one MongoDB document per target, and removes a member from its set   *)
(* only after MongoDB has acknowledged it.  Everything it knows besides    *)
(* is in memory.  reconcile.py may add missing edges at the same time.     *)
(*                                                                         *)
(* A step ends just before the next call to Redis or MongoDB.  A call that *)
(* raises has had its effect or has not.  A scan's cursor is modelled by   *)
(* what it guarantees: the elements that it still owes, those present ever *)
(* since the scan began and not yet returned; cursor 0 owes nothing.  Few  *)
(* pages yield nothing of that: they count as failures.                    *)
(***************************************************************************)
EXTENDS Integers, Sequences, SequencesExt, FiniteSets, Functions

CONSTANTS
    Target, BadTarget,      \* keys; those whose name is no canonical URL
    Source, BadSource,      \* members; those that are no canonical URL
    Size,                   \* encoded bytes of a member
    MaxSize,                \* MAX_CANONICAL_URL_BYTES
    ScanItems,              \* max_scan_response_items
    PendingBytes,           \* max_pending_member_bytes
    TargetsPerCycle,        \* max_targets_per_cycle
    PendingKeys,            \* max_pending_target_keys
    ScanCalls,              \* max_scan_calls_per_cycle
    Examined,               \* max_members_per_target_per_cycle
    BatchMembers, BatchBytes,
    Ceiling,                \* max_mongo_document_bytes, in bytes of links
    Workloads               \* what surrounds the processor: see workload

ASSUME LimitsAssumption ==
    /\ Size \in [Source -> 1..MaxSize]
    /\ {MaxSize, ScanItems, PendingBytes, TargetsPerCycle, PendingKeys, ScanCalls,
          Examined, BatchMembers, BatchBytes, Ceiling} \subseteq Nat \ {0}
    /\ PendingKeys >= TargetsPerCycle /\ PendingKeys >= ScanItems
    /\ PendingBytes >= ScanItems * MaxSize
    /\ \A w \in Workloads :
          w.outlinks \subseteq Target \X Source /\ w.adds \in Nat /\ w.faults \in Nat
    /\ IsFiniteSet(Target) /\ IsFiniteSet(Source)

VARIABLES
    workload,       \* chosen once: the edges <<target, source>> of the outlinks
                    \* collection, and bounds on the SADDs and on the failures
    sets,           \* backlinks:<target>
    mongo,          \* the backlinks documents, NoDoc when there is none
    state,          \* ProcessorState
    step,           \* where the processor is
    rec,            \* where reconcile.py is
    produced, faults

vars == <<workload, sets, mongo, state, step, rec, produced, faults>>

\* What MongoDB holds for a target: a set of at most one document, the set of
\* its links.
NoDoc      == {}
Links(doc) == UNION doc
Bytes(S)   == SumFunctionOnSet(Size, S)
SeqBytes(s) == SumFunction([n \in DOMAIN s |-> Size[s[n]]])
Keys       == {t \in Target : sets[t] # {}}

NewScan == [started |-> FALSE, owed |-> {}, complete |-> FALSE, pending |-> <<>>]
NewState == [keysOwed |-> {}, keyScan |-> FALSE, keys |-> <<>>,
             targets |-> [t \in Target |-> NewScan], waiter |-> "none"]
Idle == [pc |-> "idle", todo |-> 0, calls |-> 0, bytes |-> 0, before |-> 0,
         target |-> "none", batch |-> <<>>, doc |-> NoDoc]
NotRunning == [pc |-> "off", todo |-> {}, edge |-> <<>>, doc |-> NoDoc,
               missing |-> 0, added |-> 0]

Spend == faults < workload.faults /\ faults' = faults + 1

Advances(owed, left) == IF left # owed \/ owed = {} THEN UNCHANGED faults ELSE Spend

\* pending_bytes as process_cycle recomputes it at its start.
Buffered(st) == SumFunction([t \in Target |-> SeqBytes(st.targets[t].pending)])

-----------------------------------------------------------------------------
(* Helpers of process_cycle. *)

QueueKey(st, t) == IF Contains(st.keys, t) THEN st ELSE [st EXCEPT !.keys = Append(@, t)]

RestoreMembers(st, t, members) == [st EXCEPT !.targets[t].pending = members \o @]

\* One turn of the loop of _admit_members: a member that is not canonical, or
\* that alone exceeds a batch, is dropped from memory; the first other one that
\* does not fit ends the loop, and seen stays behind.
Look(pending, n, acc) ==
    LET m    == pending[n]
        fits == /\ Len(acc.admitted) < BatchMembers
                /\ SeqBytes(acc.admitted) + Size[m] <= BatchBytes
    IN  IF acc.seen # n - 1 THEN acc
        ELSE IF m \in BadSource \/ (~fits /\ acc.admitted = <<>>)
             THEN [acc EXCEPT !.seen = n]
        ELSE IF fits THEN [seen |-> n, admitted |-> Append(acc.admitted, m)]
        ELSE acc

\* _admit_members: what is admitted and what remains pending.
AdmitMembers(pending) ==
    LET last == IF Len(pending) < Examined THEN Len(pending) ELSE Examined
        walk[n \in 0..last] == IF n = 0 THEN [seen |-> 0, admitted |-> <<>>]
                               ELSE Look(pending, n, walk[n - 1])
        all  == walk[last]
    IN  [admitted |-> all.admitted,
         pending  |-> SubSeq(pending, all.seen + 1, Len(pending))]

Settle(st) ==
    LET t == step.target
        s == st.targets[t]
        more == s.pending # <<>> \/ ~s.complete
    IN  /\ state' = IF more THEN QueueKey(st, t) ELSE [st EXCEPT !.targets[t] = NewScan]
        /\ step' = [step EXCEPT !.pc = "next", !.target = "none", !.batch = <<>>, !.doc = NoDoc,
                                !.bytes = @ + SeqBytes(s.pending) - step.before, !.before = 0]

\* What a visit does with the members it holds, up to the call it makes.
VisitMembers(st, t, stp) ==
    LET adm == AdmitMembers(st.targets[t].pending)
        st1 == [st EXCEPT !.targets[t].pending = adm.pending]
        s   == st1.targets[t]
        more == s.pending # <<>> \/ ~s.complete
    IN  IF adm.admitted # <<>>
        THEN /\ state' = st1
             /\ step' = [stp EXCEPT !.pc = "find", !.batch = adm.admitted]
        ELSE /\ state' = IF more THEN QueueKey(st1, t) ELSE [st1 EXCEPT !.targets[t] = NewScan]
             /\ step' = [stp EXCEPT !.pc = "next", !.target = "none", !.before = 0,
                                    !.bytes = @ + SeqBytes(s.pending) - stp.before]

-----------------------------------------------------------------------------
(* The surroundings: the spider adds edges, the process dies. *)

Produce(t, m) ==
    /\ produced < workload.adds
    /\ produced' = produced + 1
    /\ m \notin sets[t]
    /\ sets' = [sets EXCEPT ![t] = @ \cup {m}]
    /\ UNCHANGED <<workload, mongo, state, step, rec, faults>>

\* A crash, or the end of main after a signal: the state in memory is gone.
Restart ==
    /\ step.pc # "idle" \/ state # NewState
    /\ Spend
    /\ state' = NewState
    /\ step' = Idle
    /\ UNCHANGED <<workload, sets, mongo, rec, produced>>

-----------------------------------------------------------------------------
(* run_processor and process_cycle. *)

BeginCycle ==
    /\ step.pc = "idle"
    /\ step' = [Idle EXCEPT !.pc = "fill", !.bytes = Buffered(state)]
    /\ UNCHANGED <<workload, sets, mongo, state, rec, produced, faults>>

BeginTargets(stp, st) ==
    [stp EXCEPT !.pc = "next", !.calls = 0,
                !.todo = IF Len(st.keys) < TargetsPerCycle THEN Len(st.keys) ELSE TargetsPerCycle]

\* One SCAN of the keys, or the end of the loop that makes them.
FillPendingKeys ==
    LET capacity == PendingKeys - ScanItems
        owed     == (IF state.keyScan THEN state.keysOwed ELSE Keys) \cap Keys
    IN  /\ step.pc = "fill"
        /\ \/ /\ step.calls < ScanCalls /\ Len(state.keys) <= capacity
              /\ \E found \in SUBSET Keys :
                    LET left == owed \ found
                        new  == found \ ToSet(state.keys)
                        st1  == [state EXCEPT !.keys = @ \o SetToSeq(new),
                                              !.keysOwed = left, !.keyScan = left # {}]
                        stp  == [step EXCEPT !.calls = @ + 1]
                    IN  /\ Cardinality(found) <= ScanItems
                        /\ state' = st1
                        /\ step' = IF left = {} \/ Len(st1.keys) >= TargetsPerCycle
                                   THEN BeginTargets(stp, st1) ELSE stp
                        /\ Advances(owed, left)
           \/ /\ ~(step.calls < ScanCalls /\ Len(state.keys) <= capacity)
              /\ step' = BeginTargets(step, state)
              /\ UNCHANGED <<state, faults>>
           \/ Spend /\ step' = BeginTargets(step, state) /\ UNCHANGED state
        /\ UNCHANGED <<workload, sets, mongo, rec, produced>>

EndCycle ==
    /\ step.pc = "next"
    /\ step.todo = 0
    /\ step' = Idle
    /\ UNCHANGED <<workload, sets, mongo, state, rec, produced, faults>>

Popped == [state EXCEPT !.keys = Tail(@)]
Next1  == [step EXCEPT !.todo = @ - 1]

RejectTarget ==
    /\ step.pc = "next" /\ step.todo > 0
    /\ Head(state.keys) \in BadTarget
    /\ state' = Popped
    /\ step' = Next1
    /\ UNCHANGED <<workload, sets, mongo, rec, produced, faults>>

FaultyNeedsScan(s) == s.pending = <<>> /\ ~s.started
NeedsScan(s) == s.pending = <<>> /\ ~s.complete

\* May a full page be held?  The first target that must wait goes first.
FaultyHasRoom(t) == step.bytes + MaxSize <= PendingBytes
HasRoom(t) ==
    /\ state.waiter \in {"none", t}
    /\ step.bytes + ScanItems * MaxSize <= PendingBytes

\* The key of a waiting scan, or of a scan that Redis refused, is queued.
WaitForRoom ==
    /\ step.pc = "next" /\ step.todo > 0
    /\ LET t == Head(state.keys) IN
          /\ t \notin BadTarget
          /\ NeedsScan(state.targets[t]) /\ ~HasRoom(t)
          /\ state' = [QueueKey(Popped, t) EXCEPT !.waiter = IF @ = "none" THEN t ELSE @]
          /\ step' = Next1
    /\ UNCHANGED <<workload, sets, mongo, rec, produced, faults>>

VisitTarget ==
    /\ step.pc = "next" /\ step.todo > 0
    /\ LET t   == Head(state.keys)
           stp == [Next1 EXCEPT !.target = t, !.before = SeqBytes(state.targets[t].pending)]
       IN /\ t \notin BadTarget
          /\ IF NeedsScan(state.targets[t])
             THEN /\ HasRoom(t)
                  /\ state' = [Popped EXCEPT !.waiter = "none"]
                  /\ step' = [stp EXCEPT !.pc = "scan"]
             ELSE VisitMembers(Popped, t, stp)
    /\ UNCHANGED <<workload, sets, mongo, rec, produced, faults>>

\* One SSCAN.  A response beyond the limits is an error like any other: the
\* cursor stays, the key is queued again and the cycle ends.
ScanMembers ==
    LET t    == step.target
        s    == state.targets[t]
        owed == (IF s.started THEN s.owed ELSE sets[t]) \cap sets[t]
    IN  /\ step.pc = "scan"
        /\ \/ /\ \E page \in SUBSET sets[t] :
                    LET left == owed \ page
                        done == left = {}
                    IN  /\ Cardinality(page) <= ScanItems
                        /\ VisitMembers([state EXCEPT !.targets[t] =
                                [started |-> ~done, owed |-> left, complete |-> done,
                                 pending |-> SetToSeq(page)]], t, step)
                        /\ Advances(owed, left)
           \/ Spend /\ state' = QueueKey(state, t) /\ step' = Idle
        /\ UNCHANGED <<workload, sets, mongo, rec, produced>>

\* status "retry_later" restores the members, "rejected" drops them.
RetryLater == Settle(RestoreMembers(state, step.target, step.batch))
Rejected   == Settle(state)

\* add_backlinks: the read and the checks that precede the write.
Projected(doc, S) == {Links(doc) \cup S}
TooLarge(doc, S)  == ~(S \subseteq Links(doc)) /\ Bytes(Links(doc) \cup S) >= Ceiling

FindTarget ==
    /\ step.pc = "find"
    /\ LET doc == mongo[step.target] IN
          \/ /\ TooLarge(doc, ToSet(step.batch)) /\ Rejected
             /\ UNCHANGED faults
          \/ /\ ~TooLarge(doc, ToSet(step.batch))
             /\ step' = [step EXCEPT !.pc = "write", !.doc = doc]
             /\ UNCHANGED <<state, faults>>
          \/ Spend /\ (RetryLater \/ Rejected)
    /\ UNCHANGED <<workload, sets, mongo, rec, produced>>

\* insert_one finds no document; the update finds the one that was read.
FaultyMatches(t, doc) == TRUE
Matches(t, doc)       == mongo[t] = doc

Store(t, doc, S) == mongo' = [mongo EXCEPT ![t] = Projected(doc, S)]

FaultyWriteTarget ==
    LET t == step.target
        S == ToSet(step.batch)
    IN  /\ step.pc = "write"
        /\ \/ /\ Matches(t, step.doc) /\ Store(t, mongo[t], S)
              /\ step' = [step EXCEPT !.pc = "ack"]
              /\ UNCHANGED <<state, faults>>
           \/ ~Matches(t, step.doc) /\ RetryLater /\ UNCHANGED <<mongo, faults>>
           \/ /\ Spend /\ UNCHANGED <<mongo, state>>
              /\ step' = [step EXCEPT !.pc = "ack"]
        /\ UNCHANGED <<workload, sets, rec, produced>>

\* A lost connection keeps the members for another try, any other error of
\* MongoDB drops them from memory; either may follow a write that was made.
WriteTarget ==
    LET t == step.target
        S == ToSet(step.batch)
    IN  /\ step.pc = "write"
        /\ \/ /\ Matches(t, step.doc) /\ Store(t, mongo[t], S)
              /\ step' = [step EXCEPT !.pc = "ack"]
              /\ UNCHANGED <<state, faults>>
           \/ ~Matches(t, step.doc) /\ RetryLater /\ UNCHANGED <<mongo, faults>>
           \/ /\ Spend /\ (RetryLater \/ Rejected)
              /\ UNCHANGED mongo \/ (Matches(t, step.doc) /\ Store(t, mongo[t], S))
        /\ UNCHANGED <<workload, sets, rec, produced>>

RemoveMembers(t) == sets' = [sets EXCEPT ![t] = @ \ ToSet(step.batch)]

AckMembers ==
    /\ step.pc = "ack"
    /\ \/ RemoveMembers(step.target) /\ Settle(state) /\ UNCHANGED faults
       \/ Spend /\ RetryLater /\ (UNCHANGED sets \/ RemoveMembers(step.target))
    /\ UNCHANGED <<workload, mongo, rec, produced>>

ProcessCycle ==
    \/ BeginCycle \/ FillPendingKeys \/ EndCycle
    \/ RejectTarget \/ WaitForRoom \/ VisitTarget \/ ScanMembers
    \/ FindTarget \/ WriteTarget \/ AckMembers

-----------------------------------------------------------------------------
(* reconcile.py --apply: count the missing edges, add them one by one, and *)
(* count again.  Whatever fails ends the run; it may be run again.         *)

HasBacklink(e) == e[2] \in Links(mongo[e[1]])
Count(r) == [r EXCEPT !.todo = workload.outlinks, !.missing = 0]

StartReconcile ==
    /\ rec.pc \in {"off", "reported"}
    /\ workload.outlinks # {}
    /\ rec' = [Count(NotRunning) EXCEPT !.pc = "before"]
    /\ UNCHANGED <<workload, sets, mongo, state, step, produced, faults>>

CountMissing ==
    /\ rec.pc \in {"before", "after"}
    /\ \E e \in rec.todo :
          LET r == [rec EXCEPT !.todo = @ \ {e},
                               !.missing = IF HasBacklink(e) THEN @ ELSE @ + 1]
          IN  rec' = CASE r.todo # {}                      -> r
                       [] r.todo = {} /\ r.pc = "after"    -> [r EXCEPT !.pc = "reported"]
                       [] r.todo = {} /\ r.missing = 0     -> [Count(r) EXCEPT !.pc = "after"]
                       [] OTHER -> [r EXCEPT !.pc = "apply", !.todo = workload.outlinks]
    /\ UNCHANGED <<workload, sets, mongo, state, step, produced, faults>>

AfterEdge(r) ==
    IF r.todo = {} THEN [Count(r) EXCEPT !.pc = "after"] ELSE [r EXCEPT !.pc = "apply"]

\* has_backlink, and the read of add_backlinks when the edge is missing, are
\* one read: what the first has seen only decides whether to make the second.
ApplyEdge ==
    /\ rec.pc = "apply"
    /\ \E e \in rec.todo :
          rec' = IF HasBacklink(e) THEN AfterEdge([rec EXCEPT !.todo = @ \ {e}])
                 ELSE IF TooLarge(mongo[e[1]], {e[2]}) THEN NotRunning
                 ELSE [rec EXCEPT !.pc = "add", !.edge = e, !.todo = @ \ {e},
                                  !.doc = mongo[e[1]]]
    /\ UNCHANGED <<workload, sets, mongo, state, step, produced, faults>>

AddEdge ==
    LET t == rec.edge[1] IN
    /\ rec.pc = "add"
    /\ \/ /\ Matches(t, rec.doc) /\ Store(t, mongo[t], {rec.edge[2]})
          /\ rec' = AfterEdge([rec EXCEPT !.edge = <<>>, !.doc = NoDoc, !.added = @ + 1])
          /\ UNCHANGED faults
       \/ ~Matches(t, rec.doc) /\ rec' = NotRunning /\ UNCHANGED <<mongo, faults>>
       \/ /\ Spend /\ rec' = NotRunning
          /\ UNCHANGED mongo \/ (Matches(t, rec.doc) /\ Store(t, mongo[t], {rec.edge[2]}))
    /\ UNCHANGED <<workload, sets, state, step, produced>>

Reconcile == StartReconcile \/ CountMissing \/ ApplyEdge \/ AddEdge

-----------------------------------------------------------------------------
Init ==
    /\ workload \in Workloads
    /\ sets = [t \in Target |-> {}]
    /\ mongo = [t \in Target |-> NoDoc]
    /\ state = NewState
    /\ step = Idle
    /\ rec = NotRunning
    /\ produced = 0 /\ faults = 0

Next ==
    \/ \E t \in Target, m \in Source : Produce(t, m)
    \/ Restart
    \/ ProcessCycle
    \/ Reconcile

Spec     == Init /\ [][Next]_vars
FairSpec == Spec /\ WF_vars(ProcessCycle)

-----------------------------------------------------------------------------
(* Properties. *)

\* A member leaves its Redis set only when its edge is in MongoDB, whatever
\* fails or restarts in between, and members that came after the batch stay.
NoEdgeLost ==
    [][\A t \in Target : sets[t] \ sets'[t] \subseteq Links(mongo[t])]_vars

\* The raw members in memory, those of the batch included, never exceed the
\* budget, although a page is reserved before it is known.
BufferBounded ==
    Buffered(state) + SeqBytes(step.batch) <= PendingBytes

\* The bytes a cycle counts are those it holds, whenever it decides.
BytesCounted ==
    step.pc = "next" => step.bytes = Buffered(state)

\* The key queue keeps within its bound, no key twice, and every target whose
\* members are buffered is queued or being visited, so that nothing is
\* stranded in memory.
QueuedOnce ==
    /\ IsInjective(state.keys)
    /\ Len(state.keys) <= PendingKeys
    /\ \A t \in Target : state.targets[t].pending # <<>> =>
            Contains(state.keys, t) \/ step.target = t

\* What process_cycle holds in memory is bounded, counted and reachable.
BufferSound == BufferBounded /\ BytesCounted /\ QueuedOnce

\* No document grows past the ceiling, although the processor and the
\* reconciliation check it on a copy they read before.
BelowCeiling == \A t \in Target : Bytes(Links(mongo[t])) < Ceiling

\* A report of the reconciliation counts the edges that are missing now, or
\* more than those; none was removed, by anybody, while it ran.
ReportSound ==
    rec.pc = "reported" =>
        Cardinality({e \in workload.outlinks : ~HasBacklink(e)}) <= rec.missing

\* The checks made on a copy hold for the document itself.
ChecksHold == BelowCeiling /\ ReportSound

\* Members of the set of t, m among them, that one call may hold and that the
\* document of t has no room for together: all of them are refused, also m if
\* the document has room for it alone.
RefusedWith(t, m) ==
    \E S \in SUBSET (sets[t] \ BadSource) :
        /\ m \in S /\ Cardinality(S) <= BatchMembers /\ Bytes(S) <= BatchBytes
        /\ TooLarge(mongo[t], S)

\* Every canonical member of a canonical set reaches MongoDB in the end,
\* through partial pages, backpressure, retries and restarts, unless the
\* document of its target has no room for a batch with it.
EdgesArrive ==
    \A t \in Target \ BadTarget, m \in Source \ BadSource :
        m \in sets[t] ~> (m \in Links(mongo[t]) \/ RefusedWith(t, m))

=============================================================================

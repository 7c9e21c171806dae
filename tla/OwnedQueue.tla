----------------------------- MODULE OwnedQueue -----------------------------
(***************************************************************************)
(* The owner-fenced work queue that the page indexer and the image indexer *)
(* both keep in Redis: a list of waiting values, a list of claimed ones, a *)
(* bounded dead-letter list, an owner lock and a fencing epoch.  Every     *)
(* operation is one Lua script, so each is one action.                     *)
(*                                                                         *)
(* The lock holds "token:epoch" and each acquisition takes a new epoch, so *)
(* the epoch alone names the holder: owner is the epoch in the lock, 0     *)
(* when the lock does not exist.  A script names the epoch of its caller;  *)
(* with any other lock value it raises LOCK_LOST and writes nothing.       *)
(*                                                                         *)
(* The module is the abstract specification of one service's queue: the    *)
(* callers are any number of processes, each at any point of its program.  *)
(* PageIndexer and ImageIndexer are shown to implement it.                 *)
(*                                                                         *)
(* Here and in the other modules a definition named Faulty... is a slip    *)
(* that its successor could plausibly contain; no specification uses it,   *)
(* and the property that PROJECT.json names with it fails with it.         *)
(***************************************************************************)
EXTENDS Integers, Sequences, SequencesExt

CONSTANTS
    Value,          \* the queue values: publication keys
    MaxEpoch,       \* bound on the epochs of a run
    DeadMax,        \* INDEXER_DEAD_LETTER_MAX_ENTRIES
    RecoverBatch    \* INDEXER_RECOVERY_BATCH_SIZE

VARIABLES
    owner,          \* the epoch in the owner lock, 0 when there is no lock
    epoch,          \* the fencing epoch counter
    queue,          \* <source>: values wait here, the rightmost goes first
    processing,     \* <source>:processing, the latest claim leftmost
    dead,           \* <source>:dead
    done            \* values whose script handed them on or acknowledged them

queueVars == <<owner, epoch, queue, processing, dead, done>>
listVars  == <<queue, processing, dead>>

\* The test every fenced script makes before it writes.
Holds(e) == e # 0 /\ owner = e /\ epoch = e

AtMost(n, s) == SubSeq(s, 1, IF n < Len(s) THEN n ELSE Len(s))

-----------------------------------------------------------------------------
(* The owner lock. *)

AcquireLock ==
    /\ owner = 0
    /\ epoch < MaxEpoch
    /\ epoch' = epoch + 1
    /\ owner' = epoch + 1
    /\ UNCHANGED <<listVars, done>>

DropLock(e) ==
    /\ Holds(e)
    /\ owner' = 0
    /\ UNCHANGED <<epoch, listVars, done>>

\* Redis removes the lock when its time to live is over; the epoch stays.
LockExpires ==
    /\ owner # 0
    /\ owner' = 0
    /\ UNCHANGED <<epoch, listVars, done>>

-----------------------------------------------------------------------------
(* The lists. *)

\* LPUSH by the producer: values wait at the left and leave at the right.
Push(v) ==
    /\ queue' = <<v>> \o queue
    /\ UNCHANGED <<owner, epoch, processing, dead, done>>

ClaimScript(e) ==
    /\ Holds(e)
    /\ queue # <<>>
    /\ queue' = Front(queue)
    /\ processing' = <<Last(queue)>> \o processing
    /\ UNCHANGED <<owner, epoch, dead, done>>

RecoverScript(e) ==
    LET batch == AtMost(RecoverBatch, processing)
    IN  /\ Holds(e)
        /\ queue' = queue \o batch
        /\ processing' = SubSeq(processing, Len(batch) + 1, Len(processing))
        /\ UNCHANGED <<owner, epoch, dead, done>>

\* A claim that failed goes back to the claiming end.
FaultyReleaseScript(e, v) ==
    /\ Holds(e)
    /\ Contains(processing, v)
    /\ queue' = <<v>> \o queue
    /\ processing' = RemoveFirst(processing, v)
    /\ UNCHANGED <<owner, epoch, dead, done>>

ReleaseScript(e, v) ==
    /\ Holds(e)
    /\ Contains(processing, v)
    /\ queue' = Append(queue, v)
    /\ processing' = RemoveFirst(processing, v)
    /\ UNCHANGED <<owner, epoch, dead, done>>

\* LPUSH and LTRIM of the dead-letter list, LREM of the claim.
QuarantineScript(e, v) ==
    /\ Holds(e)
    /\ Contains(processing, v)
    /\ dead' = AtMost(DeadMax, <<v>> \o dead)
    /\ processing' = RemoveFirst(processing, v)
    /\ UNCHANGED <<owner, epoch, queue, done>>

FinishScript(e, v) ==
    /\ Holds(e)
    /\ Contains(processing, v)
    /\ done' = done \cup {v}
    /\ processing' = RemoveFirst(processing, v)
    /\ UNCHANGED <<owner, epoch, queue, dead>>

-----------------------------------------------------------------------------
QueueInit ==
    /\ owner = 0
    /\ epoch = 0
    /\ queue = <<>>
    /\ processing = <<>>
    /\ dead = <<>>
    /\ done = {}

\* A value is published once.
Fresh(v) == v \notin done /\ ~Contains(queue \o processing \o dead, v)

QueueNext ==
    \/ AcquireLock
    \/ LockExpires
    \/ \E v \in Value : Fresh(v) /\ Push(v)
    \/ \E e \in 1..epoch :
          \/ DropLock(e)
          \/ ClaimScript(e)
          \/ RecoverScript(e)
          \/ \E v \in Value :
                \/ ReleaseScript(e, v)
                \/ QuarantineScript(e, v)
                \/ FinishScript(e, v)

QueueSpec == QueueInit /\ [][QueueNext]_queueVars

=============================================================================

-------------------------------- MODULE TfIdf --------------------------------
(***************************************************************************)
(* The TF-IDF batch job (services/tfidf): worker threads take words from a *)
(* queue, read the documents of a word, and add one update per document to *)
(* a list they share; whoever makes it longer than the threshold writes it *)
(* out.  The indexer goes on replacing the same documents meanwhile.       *)
(*                                                                         *)
(* A weight is kept as the numbers it is computed from: the term frequency *)
(* and the document count of the word.  Fresh is what the indexer writes.  *)
(***************************************************************************)
EXTENDS Integers, Sequences, SequencesExt, FiniteSets

CONSTANTS
    Word, Url,
    Thread,         \* NUM_THREADS workers
    Threshold,      \* OPERATIONS_THRESHOLD
    MaxEdits, MaxFaults     \* bounds on what the indexer does, and on failures

VARIABLES
    words,          \* the words collection: <<word, url>> -> document
    todo,           \* the queue of words
    thread,         \* where each worker is
    bulk,           \* bulk_operations
    lock,           \* operations_lock: its holder or "free"
    main,           \* where the main thread is
    edited,         \* documents the indexer touched since the job began
    faults

vars == <<words, todo, thread, bulk, lock, main, edited, faults>>

Key   == Word \X Url
NoDoc == [tf |-> 0, weight |-> <<>>]
Fresh == <<>>
DocsOf(w) == {k \in Key : k[1] = w /\ words[k] # NoDoc}
Start == [pc |-> "get", word |-> "none", count |-> 0, ops |-> <<>>]
Running == main \in {"join", "final"}

ApplyOp(db, op) ==
    IF db[op.key] = NoDoc THEN db
    ELSE [db EXCEPT ![op.key].weight = <<op.tf, op.count>>]

Written(ops) == FoldLeft(ApplyOp, words, ops)

-----------------------------------------------------------------------------
(* process_words *)

GetWord(t) ==
    /\ Running /\ thread[t].pc = "get"
    /\ IF todo = <<>>
       THEN thread' = [thread EXCEPT ![t].pc = "end"] /\ UNCHANGED todo
       ELSE /\ thread' = [thread EXCEPT ![t].pc = "count", ![t].word = Head(todo)]
            /\ todo' = Tail(todo)
    /\ UNCHANGED <<words, bulk, lock, main, edited, faults>>

CountDocuments(t) ==
    /\ Running /\ thread[t].pc = "count"
    /\ thread' = [thread EXCEPT ![t].pc = "find", ![t].count = Cardinality(DocsOf(thread[t].word))]
    /\ UNCHANGED <<words, todo, bulk, lock, main, edited, faults>>

\* The cursor is read into operations of the thread's own.
FindDocuments(t) ==
    /\ Running /\ thread[t].pc = "find"
    /\ LET op(k) == [key |-> k, tf |-> words[k].tf, count |-> thread[t].count]
           keys == SetToSeq(DocsOf(thread[t].word))
       IN thread' = [thread EXCEPT ![t].pc = "lock",
                                   ![t].ops = [j \in 1..Len(keys) |-> op(keys[j])]]
    /\ UNCHANGED <<words, todo, bulk, lock, main, edited, faults>>

TakeLock(t) ==
    /\ Running /\ thread[t].pc = "lock"
    /\ lock = "free"
    /\ lock' = t
    /\ bulk' = bulk \o thread[t].ops
    /\ thread' = [thread EXCEPT ![t] = [Start EXCEPT
                      !.pc = IF Len(bulk') > Threshold THEN "write" ELSE "unlock"]]
    /\ UNCHANGED <<words, todo, main, edited, faults>>

\* update_page_tfidf_bulk: an error is logged and the list dropped all the same.
WriteBulk(t) ==
    /\ Running /\ thread[t].pc = "write"
    /\ \/ words' = Written(bulk) /\ UNCHANGED faults
       \/ faults < MaxFaults /\ faults' = faults + 1 /\ UNCHANGED words
    /\ thread' = [thread EXCEPT ![t].pc = "reset"]
    /\ UNCHANGED <<todo, bulk, lock, main, edited>>

ResetBulk(t) ==
    /\ Running /\ thread[t].pc = "reset"
    /\ bulk' = <<>>
    /\ thread' = [thread EXCEPT ![t].pc = "unlock"]
    /\ UNCHANGED <<words, todo, lock, main, edited, faults>>

Unlock(t) ==
    /\ Running /\ thread[t].pc = "unlock"
    /\ lock' = "free"
    /\ thread' = [thread EXCEPT ![t].pc = "get"]
    /\ UNCHANGED <<words, todo, bulk, main, edited, faults>>

\* A read raises: the thread ends, and its word is not done.
ThreadDies(t) ==
    /\ Running /\ thread[t].pc \in {"count", "find"}
    /\ faults < MaxFaults
    /\ faults' = faults + 1
    /\ thread' = [thread EXCEPT ![t] = [Start EXCEPT !.pc = "end"]]
    /\ UNCHANGED <<words, todo, bulk, lock, main, edited>>

Work(t) ==
    \/ GetWord(t) \/ CountDocuments(t) \/ FindDocuments(t) \/ TakeLock(t)
    \/ WriteBulk(t) \/ ResetBulk(t) \/ Unlock(t)

-----------------------------------------------------------------------------
(* The main thread. *)

Join ==
    /\ main = "join"
    /\ \A t \in Thread : thread[t].pc = "end"
    /\ main' = "final"
    /\ UNCHANGED <<words, todo, thread, bulk, lock, edited, faults>>

FaultyFinalBulk ==
    /\ main = "final"
    /\ words' = IF Len(bulk) > Threshold THEN Written(bulk) ELSE words
    /\ main' = "done"
    /\ UNCHANGED <<todo, thread, bulk, lock, edited, faults>>

FinalBulk ==
    /\ main = "final"
    /\ \/ words' = Written(bulk) /\ UNCHANGED faults
       \/ faults < MaxFaults /\ faults' = faults + 1 /\ UNCHANGED words
    /\ main' = "done"
    /\ UNCHANGED <<todo, thread, bulk, lock, edited>>

\* handle_exit: perform_batch_operations lacks its second argument, the call
\* raises, and the process ends with the list unwritten.
HandleExit ==
    /\ Running
    /\ main' = "killed"
    /\ UNCHANGED <<words, todo, thread, bulk, lock, edited, faults>>

-----------------------------------------------------------------------------
\* The indexer replaces, adds or removes a document.
IndexerWrites(k) ==
    /\ Running
    /\ Cardinality(edited) < MaxEdits
    /\ edited' = edited \cup {k}
    /\ \/ \E n \in 1..2 : words' = [words EXCEPT ![k] = [tf |-> n, weight |-> Fresh]]
       \/ words' = [words EXCEPT ![k] = NoDoc]
    /\ UNCHANGED <<todo, thread, bulk, lock, main, faults>>

Init ==
    /\ \E present \in SUBSET Key :
          words = [k \in Key |-> IF k \in present THEN [tf |-> 1, weight |-> Fresh] ELSE NoDoc]
    /\ todo = SetToSeq({w \in Word : DocsOf(w) # {}})
    /\ thread = [t \in Thread |-> Start]
    /\ bulk = <<>> /\ lock = "free" /\ main = "join" /\ edited = {} /\ faults = 0

Next ==
    \/ \E t \in Thread : Work(t) \/ ThreadDies(t)
    \/ Join \/ FinalBulk \/ HandleExit
    \/ \E k \in Key : IndexerWrites(k)

Spec == Init /\ [][Next]_vars

-----------------------------------------------------------------------------
(* Properties. *)

\* The shared list changes only in the hands of the holder of the lock, who is
\* inside the locked region.
LockHeld ==
    /\ lock \in Thread \cup {"free"}
    /\ \A t \in Thread : thread[t].pc \in {"write", "reset", "unlock"} => lock = t

\* A job that ends has weighed every document that was there when it began and
\* that the indexer left alone, whatever the threads' order.
AllWeighed ==
    main = "done" /\ faults = 0 =>
        \A k \in Key \ edited : words[k] # NoDoc =>
            words[k].weight # Fresh /\ words[k].weight[1] = words[k].tf

\* The job never brings a document back that the indexer removed.
NoResurrection ==
    edited' = edited =>
        \A k \in Key : words[k] = NoDoc => words'[k] = NoDoc
=============================================================================

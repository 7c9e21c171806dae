--------------------------- MODULE WordMigration ---------------------------
(***************************************************************************)
(* The one-off migration of the inverted index (src/migration): a document *)
(* per word with a list of pages becomes a document per word and page.     *)
(* Upserts are collected in two lists, written out when one reaches the    *)
(* threshold, and, by the signal handler, when the process is stopped.     *)
(***************************************************************************)
EXTENDS Integers, Sequences, SequencesExt, FiniteSets

CONSTANTS
    Word, Url,
    OperationsThreshold,        \* OPERATIONS_THRESHOLD
    MaxPages, MaxFaults         \* bounds: pages of a word, failed bulk writes

VARIABLES
    old,        \* the collections read: "words" and "images", sequences of [word, pages]
    new,        \* the collections written: sets of <<word, url>>
    buffer,     \* the two lists of operations
    cursor,     \* what is left to read: [kind, docs, pages]
    pc,         \* the next statement of the main thread
    faults

vars == <<old, new, buffer, cursor, pc, faults>>

Kind  == {"words", "images"}
Ended == {"exited", "killed", "failed"}
\* A document that lacks "pages" stands for the malformed ones.
NoPages == <<"none">>
OpsOf(doc) == IF doc.pages = NoPages THEN <<>>
              ELSE [j \in 1..Len(doc.pages) |-> <<doc.word, doc.pages[j]>>]

\* The operations of a collection that were appended so far, in order.
Read(kind) ==
    LET all   == FlattenSeq([j \in 1..Len(old[kind]) |-> OpsOf(old[kind][j])])
        left == Len(cursor.pages) + Len(FlattenSeq([j \in 1..Len(cursor.docs) |->
                                                        OpsOf(cursor.docs[j])]))
    IN IF cursor.kind = kind THEN SubSeq(all, 1, Len(all) - left)
       ELSE IF kind = "words" \/ cursor.kind = "end" THEN all ELSE <<>>

\* create_words_bulk and create_word_images_bulk: an unordered bulk of upserts;
\* an error is logged and nothing else.
Write(kind) ==
    \/ new' = [new EXCEPT ![kind] = @ \cup ToSet(buffer[kind])] /\ UNCHANGED faults
    \/ faults < MaxFaults /\ faults' = faults + 1 /\ UNCHANGED new

-----------------------------------------------------------------------------
NextDocument ==
    /\ pc = "read" /\ cursor.pages = <<>> /\ cursor.docs # <<>>
    /\ IF Head(cursor.docs).pages = NoPages
       THEN pc' = "failed" /\ UNCHANGED cursor
       ELSE /\ cursor' = [cursor EXCEPT !.pages = OpsOf(Head(cursor.docs)),
                                        !.docs = Tail(cursor.docs)]
            /\ UNCHANGED pc
    /\ UNCHANGED <<old, new, buffer, faults>>

AppendPage ==
    /\ pc = "read" /\ cursor.pages # <<>>
    /\ buffer' = [buffer EXCEPT ![cursor.kind] = Append(@, Head(cursor.pages))]
    /\ cursor' = [cursor EXCEPT !.pages = Tail(cursor.pages)]
    /\ pc' = "words?"
    /\ UNCHANGED <<old, new, faults>>

NextCollection ==
    /\ pc = "read" /\ cursor.pages = <<>> /\ cursor.docs = <<>>
    /\ IF cursor.kind = "words"
       THEN /\ cursor' = [kind |-> "images", docs |-> old["images"], pages |-> <<>>]
            /\ UNCHANGED pc
       ELSE cursor' = [cursor EXCEPT !.kind = "end"] /\ pc' = "words?"
    /\ UNCHANGED <<old, new, buffer, faults>>

\* perform_bulk_operations, one statement a step.
After(kind) == IF kind = "words" THEN "images?"
               ELSE IF cursor.kind = "end" THEN "exited" ELSE "read"
Asks(kind)   == IF kind = "words" THEN "words?" ELSE "images?"
Resets(kind) == IF kind = "words" THEN "words reset" ELSE "images reset"

PerformBulk(kind) ==
    /\ pc = Asks(kind)
    /\ IF Len(buffer[kind]) >= OperationsThreshold
       THEN Write(kind) /\ pc' = Resets(kind)
       ELSE pc' = After(kind) /\ UNCHANGED <<new, faults>>
    /\ UNCHANGED <<old, buffer, cursor>>

ResetBuffer(kind) ==
    /\ pc = Resets(kind)
    /\ buffer' = [buffer EXCEPT ![kind] = <<>>]
    /\ pc' = After(kind)
    /\ UNCHANGED <<old, new, cursor, faults>>

\* handle_exit, between any two statements of the main thread.
HandleExit ==
    /\ pc \notin Ended
    /\ \E lost \in SUBSET Kind :
          /\ Cardinality(lost) + faults <= MaxFaults
          /\ new' = [k \in Kind |-> IF k \in lost THEN new[k]
                                    ELSE new[k] \cup ToSet(buffer[k])]
          /\ faults' = faults + Cardinality(lost)
    /\ pc' = "killed"
    /\ UNCHANGED <<old, buffer, cursor>>

\* The operator runs the migration again, from the beginning.
RunAgain ==
    /\ pc \in Ended
    /\ buffer' = [k \in Kind |-> <<>>]
    /\ cursor' = [kind |-> "words", docs |-> old["words"], pages |-> <<>>]
    /\ pc' = "read"
    /\ UNCHANGED <<old, new, faults>>

Documents(w) == [word : {w}, pages : {NoPages} \cup SeqOf(Url, MaxPages)]
Collections  == LET ws == SetToSeq(Word)
                IN {docs \in [1..Len(ws) -> UNION {Documents(w) : w \in Word}] :
                       \A j \in 1..Len(ws) : docs[j].word = ws[j]}
Init ==
    /\ old \in [Kind -> Collections]
    /\ new = [k \in Kind |-> {}]
    /\ buffer = [k \in Kind |-> <<>>]
    /\ cursor = [kind |-> "words", docs |-> old["words"], pages |-> <<>>]
    /\ pc = "read" /\ faults = 0

Migrate ==
    \/ NextDocument \/ AppendPage \/ NextCollection
    \/ \E kind \in Kind : PerformBulk(kind) \/ ResetBuffer(kind)

Next == Migrate \/ HandleExit \/ RunAgain

Spec == Init /\ [][Next]_vars

-----------------------------------------------------------------------------
(* Properties. *)

\* The operations appended so far that the new collection does not have.
Missing(kind) == ToSet(Read(kind)) \ new[kind]

\* While the migration runs, what it has appended and not written is still in
\* its lists, whatever has been reset; and whatever statement a signal
\* interrupts, all of it is written before the process ends.
NoOpLost ==
    faults = 0 => \A kind \in Kind :
        /\ pc \notin Ended => Missing(kind) \subseteq ToSet(buffer[kind])
        /\ pc = "killed" => Missing(kind) = {}

\* The lists die with a process that ends by itself, at the end of the input,
\* although a comment there says that they are written, or at a malformed
\* document: less than a threshold of operations of a collection is left out.
LossBounded ==
    pc \in {"exited", "failed"} /\ faults = 0 => \A kind \in Kind :
        Cardinality(Missing(kind)) < OperationsThreshold
=============================================================================

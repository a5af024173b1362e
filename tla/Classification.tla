--------------------------- MODULE Classification ---------------------------
(***************************************************************************)
(* The background classification of uploaded documents                     *)
(* (documents/classification/pipeline.py) against deletes of the same      *)
(* documents and the write lock of the database.                           *)
(*                                                                         *)
(* An upload commits its row and then queues a task in the memory of the   *)
(* process.  The task renders the first page, asks the model, decides the  *)
(* outcome, and writes it onto the row in a session of its own.  A delete  *)
(* may remove the row at any time, and a restart forgets every task.       *)
(*                                                                         *)
(*   db      per document, its row as committed, Missing or Deleted        *)
(*   writer  the task or delete that holds the write lock, or NoWriter     *)
(*   txn     the rows as the writer sees them; db when there is none       *)
(*   task    where the task of each document is                            *)
(*   tries   how often the task has been turned down by the network        *)
(*   result  what the task is going to write                               *)
(*   delete  where the delete of each document is                          *)
(*   faults  crashes and errors so far, at most MaxFaults                  *)
(***************************************************************************)
EXTENDS Naturals

CONSTANTS
    Docs,        \* documents, each uploaded once
    MaxRetries,  \* client.py MAX_RETRIES
    Missing,     \* not uploaded yet
    Deleted,     \* the row is gone
    NoWriter,    \* nobody holds the write lock
    MaxFaults    \* bound: crashes and errors in a behaviour

ASSUME ClassificationAssumption ==
    /\ MaxRetries \in Nat
    /\ MaxFaults \in Nat
    /\ Missing # Deleted
    /\ NoWriter \notin {"task", "delete"} \X Docs

\* What the model may answer, as far as the outcome goes: the type the
\* borrower claimed, another one or none, and the confidence below the floor,
\* between the two thresholds, or above both.
Verdict == [type : {"claimed", "other", "UNKNOWN"}, confidence : {"low", "medium", "high"}]

\* evaluator.evaluate: the decision table.
Evaluate(v) ==
    CASE v.confidence = "low" -> "INCONCLUSIVE"
      [] v.confidence # "low" /\ v.type = "UNKNOWN" -> "UNRECOGNISED"
      [] v.confidence # "low" /\ v.type = "claimed" -> "CONFIRMED"
      [] v.confidence = "medium" /\ v.type = "other" -> "POSSIBLE_MISMATCH"
      [] v.confidence = "high" /\ v.type = "other" -> "LIKELY_MISMATCH"

Outcomes == {"CONFIRMED", "POSSIBLE_MISMATCH", "LIKELY_MISMATCH", "UNRECOGNISED", "INCONCLUSIVE"}

\* The advisory columns of a document row. "NULL" is the column's null; a
\* proposal is there or not.
Record == [status : {"NULL", "PENDING", "DONE", "FAILED", "SKIPPED"},
           outcome : Outcomes \cup {"NULL"},
           proposal : BOOLEAN]

Unclassified == [status |-> "NULL", outcome |-> "NULL", proposal |-> FALSE]

\* pipeline._failed.
Failed == [status |-> "FAILED", outcome |-> "NULL", proposal |-> FALSE]

\* Planted mistake: figures are taken from any document that was read.
AnsweredAny(v, figures) ==
    [status |-> "DONE", outcome |-> Evaluate(v), proposal |-> figures]

\* What run records of an answer: figures the document states are proposed only
\* when the model confirms that it is what the borrower said.
AnsweredRecord(v, figures) ==
    [status |-> "DONE", outcome |-> Evaluate(v),
     proposal |-> Evaluate(v) = "CONFIRMED" /\ figures]

VARIABLES db, writer, txn, task, tries, result, delete, faults
vars == <<db, writer, txn, task, tries, result, delete, faults>>

Rows == [Docs -> Record \cup {Missing, Deleted}]

\* A task is over when it has recorded or found nothing to record, when the row
\* vanished under its update, when another error ended it, or with the process.
Over == {"recorded", "nothing", "stale", "error", "lost"}
Going == {"committed", "queued", "asking", "load", "write", "commit"}

TypeOK ==
    /\ db \in Rows
    /\ txn \in Rows
    /\ writer \in {NoWriter} \cup ({"task", "delete"} \X Docs)
    /\ task \in [Docs -> {"none"} \cup Going \cup Over]
    /\ tries \in [Docs -> 0..MaxRetries]
    /\ result \in [Docs -> Record]
    /\ delete \in [Docs -> {"none", "read", "write", "commit", "over"}]
    /\ faults \in Nat

Init ==
    /\ db = [d \in Docs |-> Missing]
    /\ txn = db
    /\ writer = NoWriter
    /\ task = [d \in Docs |-> "none"]
    /\ tries = [d \in Docs |-> 0]
    /\ result = [d \in Docs |-> Unclassified]
    /\ delete = [d \in Docs |-> "none"]
    /\ faults = 0

Goto(d, label) == task' = [task EXCEPT ![d] = label]

Stored(d) == db[d] \notin {Missing, Deleted}

-----------------------------------------------------------------------------
(* Upload, and the task it schedules. *)

\* The upload commits its row; what it went through before is in FileRequests.
Upload(d) ==
    /\ task[d] = "none"
    /\ writer = NoWriter
    /\ db' = [db EXCEPT ![d] = Unclassified]
    /\ txn' = db'
    /\ Goto(d, "committed")
    /\ UNCHANGED <<writer, tries, result, delete, faults>>

\* _schedule_classification: only after the commit has returned.
Schedule(d) ==
    /\ task[d] = "committed"
    /\ Goto(d, "queued")
    /\ UNCHANGED <<db, writer, txn, tries, result, delete, faults>>

\* render_first_page works, or the document cannot be rendered at all.
Render(d) ==
    /\ task[d] = "queued"
    /\ \/ Goto(d, "asking") /\ UNCHANGED result
       \/ Goto(d, "load") /\ result' = [result EXCEPT ![d] = Failed]
    /\ UNCHANGED <<db, writer, txn, tries, delete, faults>>

Answer(d) ==
    /\ task[d] = "asking"
    /\ \E v \in Verdict, figures \in BOOLEAN :
         result' = [result EXCEPT ![d] = AnsweredRecord(v, figures)]
    /\ Goto(d, "load")
    /\ UNCHANGED <<db, writer, txn, tries, delete, faults>>

\* Planted mistake: the number of retries is not bounded.
RetryUnbounded(d) ==
    /\ task[d] = "asking"
    /\ tries' = [tries EXCEPT ![d] = (@ + 1) % (MaxRetries + 1)]
    /\ UNCHANGED <<db, writer, txn, task, result, delete, faults>>

\* The client asks again after a timeout or a network error.
Retry(d) ==
    /\ task[d] = "asking"
    /\ tries[d] < MaxRetries
    /\ tries' = [tries EXCEPT ![d] = @ + 1]
    /\ UNCHANGED <<db, writer, txn, task, result, delete, faults>>

\* A refusal is not retried, and the last retry may fail like the first.
GiveUp(d) ==
    /\ task[d] = "asking"
    /\ result' = [result EXCEPT ![d] = Failed]
    /\ Goto(d, "load")
    /\ UNCHANGED <<db, writer, txn, tries, delete, faults>>

\* set_classification selects the row, outside any transaction.
LoadRow(d) ==
    /\ task[d] = "load"
    /\ Goto(d, IF Stored(d) THEN "write" ELSE "nothing")
    /\ UNCHANGED <<db, writer, txn, tries, result, delete, faults>>

\* Planted mistake: the row is inserted when it is gone.
WriteRowUpsert(d) ==
    /\ task[d] = "write"
    /\ writer = NoWriter
    /\ writer' = <<"task", d>>
    /\ txn' = [db EXCEPT ![d] = result[d]]
    /\ Goto(d, "commit")
    /\ UNCHANGED <<db, tries, result, delete, faults>>

\* UPDATE by id under the write lock.
WriteRow(d) ==
    /\ task[d] = "write"
    /\ writer = NoWriter
    /\ Stored(d)
    /\ writer' = <<"task", d>>
    /\ txn' = [db EXCEPT ![d] = result[d]]
    /\ Goto(d, "commit")
    /\ UNCHANGED <<db, tries, result, delete, faults>>

\* The UPDATE finds no row: SQLAlchemy raises StaleDataError.
WriteFindsNoRow(d) ==
    /\ task[d] = "write"
    /\ writer = NoWriter
    /\ ~Stored(d)
    /\ Goto(d, "stale")
    /\ UNCHANGED <<db, writer, txn, tries, result, delete, faults>>

\* The lock does not come within the busy timeout.
WriteTimesOut(d) ==
    /\ task[d] = "write"
    /\ writer # NoWriter
    /\ Goto(d, "error")
    /\ UNCHANGED <<db, writer, txn, tries, result, delete, faults>>

\* Planted mistake: a failed document is queued again.
CommitRowRequeued(d) ==
    /\ task[d] = "commit"
    /\ db' = txn
    /\ writer' = NoWriter
    /\ Goto(d, IF result[d] = Failed THEN "queued" ELSE "recorded")
    /\ UNCHANGED <<txn, tries, result, delete, faults>>

CommitRow(d) ==
    /\ task[d] = "commit"
    /\ db' = txn
    /\ writer' = NoWriter
    /\ Goto(d, "recorded")
    /\ UNCHANGED <<txn, tries, result, delete, faults>>

-----------------------------------------------------------------------------
(* The delete of a document; what it does to status and blob is in FileRequests. *)

DeleteRead(d) ==
    /\ delete[d] = "none"
    /\ Stored(d)
    /\ delete' = [delete EXCEPT ![d] = "write"]
    /\ UNCHANGED <<db, writer, txn, task, tries, result, faults>>

DeleteWrite(d) ==
    /\ delete[d] = "write"
    /\ writer = NoWriter
    /\ writer' = <<"delete", d>>
    /\ txn' = [db EXCEPT ![d] = Deleted]
    /\ delete' = [delete EXCEPT ![d] = "commit"]
    /\ UNCHANGED <<db, task, tries, result, faults>>

DeleteTimesOut(d) ==
    /\ delete[d] = "write"
    /\ writer # NoWriter
    /\ delete' = [delete EXCEPT ![d] = "over"]
    /\ UNCHANGED <<db, writer, txn, task, tries, result, faults>>

DeleteCommit(d) ==
    /\ delete[d] = "commit"
    /\ db' = txn
    /\ writer' = NoWriter
    /\ delete' = [delete EXCEPT ![d] = "over"]
    /\ UNCHANGED <<txn, task, tries, result, faults>>

-----------------------------------------------------------------------------

\* An error in the task: while it decides, it is recorded as a failure; while
\* it records, nothing catches it.
Fault(d) ==
    /\ faults < MaxFaults
    /\ faults' = faults + 1
    /\ \/ /\ task[d] \in {"queued", "asking"}
          /\ result' = [result EXCEPT ![d] = Failed]
          /\ Goto(d, "load")
          /\ UNCHANGED <<writer, txn>>
       \/ /\ task[d] \in {"load", "write", "commit"}
          /\ Goto(d, "error")
          /\ IF writer = <<"task", d>> THEN txn' = db /\ writer' = NoWriter
                                       ELSE UNCHANGED <<txn, writer>>
          /\ UNCHANGED result
    /\ UNCHANGED <<db, tries, delete>>

\* The process stops and starts again; nothing remembers a task.
Crash ==
    /\ faults < MaxFaults
    /\ faults' = faults + 1
    /\ task' = [d \in Docs |-> IF task[d] \in Going THEN "lost" ELSE task[d]]
    /\ delete' = [d \in Docs |-> IF delete[d] \in {"write", "commit"} THEN "over" ELSE delete[d]]
    /\ txn' = db
    /\ writer' = NoWriter
    /\ UNCHANGED <<db, tries, result>>

\* What the event loop and the client's timeout bring about by themselves.
TaskStep(d) ==
    \/ Schedule(d) \/ Render(d) \/ Answer(d) \/ Retry(d) \/ GiveUp(d)
    \/ LoadRow(d) \/ WriteRow(d) \/ WriteFindsNoRow(d) \/ WriteTimesOut(d) \/ CommitRow(d)

DeleteStep(d) == DeleteWrite(d) \/ DeleteTimesOut(d) \/ DeleteCommit(d)

Quiet ==
    /\ \A d \in Docs : task[d] \in Over /\ delete[d] \notin {"write", "commit"}
    /\ UNCHANGED vars

Next ==
    \/ \E d \in Docs : \/ Upload(d) \/ TaskStep(d) \/ Fault(d)
                       \/ DeleteRead(d) \/ DeleteStep(d)
    \/ Crash
    \/ Quiet

Spec == Init /\ [][Next]_vars

\* Every coroutine that can go on does, and a call of the model ends within its
\* timeout, one way or the other.
FairSpec == Spec /\ \A d \in Docs : WF_vars(TaskStep(d)) /\ WF_vars(DeleteStep(d))

-----------------------------------------------------------------------------
(* Properties *)

\* The outcome column says what was decided and is only ever written together
\* with DONE; a proposal is only there when the document was confirmed
\* (pipeline.py, AI-020, T57).
RecordsConsistent ==
    \A d \in Docs : Stored(d) =>
       /\ db[d].status = "DONE" <=> db[d].outcome # "NULL"
       /\ db[d].proposal => db[d].outcome = "CONFIRMED"

\* A late verdict never brings a deleted document back
\* (repository.py set_classification).
DeletedStaysDeleted == [][\A d \in Docs : db[d] = Deleted => db'[d] = Deleted]_vars

\* A verdict is written once and never replaced, by whichever of task, error
\* and delete comes last (pipeline.py run).
VerdictIsFinal ==
    [][\A d \in Docs : Stored(d) /\ db[d] # Unclassified => db'[d] \in {db[d], Deleted}]_vars

\* Every queued task comes to an end, and unless the process died, the lock did
\* not come or the row was deleted, with its verdict on the row (AI-018, AI-022).
QueuedSettles ==
    \A d \in Docs :
       task[d] = "queued" ~>
         \/ task[d] \in {"stale", "nothing"} /\ db[d] = Deleted
         \/ task[d] \in {"error", "lost"}
         \/ task[d] = "recorded" /\ db[d] \in {result[d], Deleted}
=============================================================================

------------------------ MODULE ClassificationProofs ------------------------
(***************************************************************************)
(* Theorems about Classification for every set of documents, every number  *)
(* of retries and any number of faults.                                    *)
(***************************************************************************)
EXTENDS Classification, TLAPS

\* What the columns of one row say agrees.
Consistent(r) ==
    /\ r.status = "DONE" <=> r.outcome # "NULL"
    /\ r.proposal => r.outcome = "CONFIRMED"

\* The lock is held exactly from the first write to the commit.
LockHeld ==
    /\ \A d \in Docs : task[d] = "commit" <=> writer = <<"task", d>>
    /\ \A d \in Docs : delete[d] = "commit" <=> writer = <<"delete", d>>

\* What the writer has staged is its own change of the committed rows.
Staged ==
    /\ writer = NoWriter => txn = db
    /\ \A d \in Docs :
         /\ writer = <<"task", d>> => Stored(d) /\ txn = [db EXCEPT ![d] = result[d]]
         /\ writer = <<"delete", d>> => txn = [db EXCEPT ![d] = Deleted]

\* Until its task is over, a row has no verdict; before its upload there is no
\* row, and no delete of it.
NotYet ==
    \A d \in Docs :
       /\ task[d] = "none" => db[d] = Missing
       /\ task[d] \in Going => db[d] \in {Unclassified, Deleted}
       /\ delete[d] # "none" => task[d] # "none"

ResultsConsistent == \A d \in Docs : Consistent(result[d])

ClassInv ==
    /\ TypeOK /\ LockHeld /\ Staged /\ NotYet
    /\ ResultsConsistent /\ RecordsConsistent

-----------------------------------------------------------------------------
(* What a task may record. *)

LEMMA EvaluateType ==
    ASSUME NEW v \in Verdict PROVE Evaluate(v) \in Outcomes
  BY DEF Verdict, Evaluate, Outcomes

LEMMA RecordFacts ==
    /\ Unclassified \in Record /\ Consistent(Unclassified)
    /\ Failed \in Record /\ Consistent(Failed)
  BY DEF Unclassified, Failed, Record, Consistent

LEMMA AnsweredFacts ==
    ASSUME NEW v \in Verdict, NEW figures \in BOOLEAN
    PROVE  AnsweredRecord(v, figures) \in Record /\ Consistent(AnsweredRecord(v, figures))
<1>1. Evaluate(v) \in Outcomes
  BY EvaluateType
<1>2. Evaluate(v) # "NULL"
  BY <1>1 DEF Outcomes
<1>3. (Evaluate(v) = "CONFIRMED" /\ figures) \in BOOLEAN
  OBVIOUS
<1>4. QED
  BY <1>1, <1>2, <1>3 DEF AnsweredRecord, Record, Consistent

-----------------------------------------------------------------------------
(* Types *)

LEMMA TypeInit == Init => TypeOK
  BY ClassificationAssumption, RecordFacts DEF Init, TypeOK, Rows

LEMMA TypeStep == TypeOK /\ [Next]_vars => TypeOK'
<1> SUFFICES ASSUME TypeOK, [Next]_vars PROVE TypeOK'
  OBVIOUS
<1> USE DEF TypeOK, Rows, Going, Over
<1>1. ASSUME NEW d \in Docs, Upload(d) PROVE TypeOK'
  BY <1>1, RecordFacts DEF Upload, Goto
<1>2. ASSUME NEW d \in Docs, Schedule(d) PROVE TypeOK'
  BY <1>2 DEF Schedule, Goto
<1>3. ASSUME NEW d \in Docs, Render(d) PROVE TypeOK'
  BY <1>3, RecordFacts DEF Render, Goto
<1>4. ASSUME NEW d \in Docs, Answer(d) PROVE TypeOK'
  <2>1. PICK v \in Verdict, figures \in BOOLEAN :
          result' = [result EXCEPT ![d] = AnsweredRecord(v, figures)]
    BY <1>4 DEF Answer
  <2>2. AnsweredRecord(v, figures) \in Record
    BY AnsweredFacts
  <2>3. QED
    BY <1>4, <2>1, <2>2 DEF Answer, Goto
<1>5. ASSUME NEW d \in Docs, Retry(d) PROVE TypeOK'
  BY <1>5, ClassificationAssumption DEF Retry
<1>6. ASSUME NEW d \in Docs, GiveUp(d) PROVE TypeOK'
  BY <1>6, RecordFacts DEF GiveUp, Goto
<1>7. ASSUME NEW d \in Docs, LoadRow(d) PROVE TypeOK'
  BY <1>7 DEF LoadRow, Goto
<1>8. ASSUME NEW d \in Docs, WriteRow(d) PROVE TypeOK'
  BY <1>8 DEF WriteRow, Goto
<1>9. ASSUME NEW d \in Docs, WriteFindsNoRow(d) \/ WriteTimesOut(d) PROVE TypeOK'
  BY <1>9 DEF WriteFindsNoRow, WriteTimesOut, Goto
<1>10. ASSUME NEW d \in Docs, CommitRow(d) PROVE TypeOK'
  BY <1>10 DEF CommitRow, Goto
<1>11. ASSUME NEW d \in Docs, DeleteRead(d) PROVE TypeOK'
  BY <1>11 DEF DeleteRead
<1>12. ASSUME NEW d \in Docs, DeleteStep(d) PROVE TypeOK'
  BY <1>12 DEF DeleteStep, DeleteWrite, DeleteTimesOut, DeleteCommit
<1>13. ASSUME NEW d \in Docs, Fault(d) PROVE TypeOK'
  BY <1>13, RecordFacts DEF Fault, Goto
<1>14. CASE Crash
  BY <1>14 DEF Crash
<1>15. CASE Quiet \/ UNCHANGED vars
  BY <1>15 DEF Quiet, vars
<1>16. QED
  BY <1>1, <1>2, <1>3, <1>4, <1>5, <1>6, <1>7, <1>8, <1>9, <1>10, <1>11, <1>12,
     <1>13, <1>14, <1>15 DEF Next, TaskStep

\* The state keeps its types.
THEOREM TypeCorrect == Spec => []TypeOK
  BY TypeInit, TypeStep, PTL DEF Spec

-----------------------------------------------------------------------------
(* The inductive invariant *)

LEMMA ClassInit == Init => ClassInv
<1> SUFFICES ASSUME Init PROVE ClassInv
  OBVIOUS
<1>1. TypeOK
  BY TypeInit
<1>2. LockHeld
  BY ClassificationAssumption DEF Init, LockHeld
<1>3. Staged
  <2>1. writer = NoWriter /\ txn = db
    BY DEF Init
  <2>2. QED
    BY <2>1, ClassificationAssumption DEF Staged
<1>4. NotYet
  BY DEF Init, NotYet, Going
<1>5. ResultsConsistent
  BY RecordFacts DEF Init, ResultsConsistent
<1>6. RecordsConsistent
  BY DEF Init, RecordsConsistent, Stored
<1>7. QED
  BY <1>1, <1>2, <1>3, <1>4, <1>5, <1>6 DEF ClassInv

\* A task that moves on before it writes, with a consistent result.
LEMMA DecideKeeps ==
    ASSUME ClassInv, NEW d \in Docs,
           task[d] \in {"committed", "queued", "asking", "load"},
           NEW label \in (Going \ {"commit"}) \cup Over, Goto(d, label),
           NEW r \in Record, Consistent(r),
           result' = [result EXCEPT ![d] = r],
           UNCHANGED <<db, writer, txn, delete>>
    PROVE  LockHeld' /\ Staged' /\ NotYet' /\ ResultsConsistent' /\ RecordsConsistent'
<1> USE DEF ClassInv
<1>1. writer # <<"task", d>>
  BY DEF LockHeld
<1>2. LockHeld'
  BY DEF LockHeld, Goto, Going, Over, TypeOK
<1>3. \A c \in Docs : c # d => result'[c] = result[c]
  BY DEF TypeOK
<1>4. Staged'
  BY <1>1, <1>3 DEF Staged, Stored
<1>5. NotYet'
  BY DEF NotYet, Goto, Going, Over, TypeOK
<1>6. ResultsConsistent'
  BY DEF ResultsConsistent, TypeOK
<1>7. RecordsConsistent'
  BY DEF RecordsConsistent, Stored
<1>8. QED
  BY <1>2, <1>4, <1>5, <1>6, <1>7

\* A task that moves on without a new result.
LEMMA MoveKeeps ==
    ASSUME ClassInv, NEW d \in Docs,
           task[d] \in Going \ {"commit"},
           NEW label \in (Going \ {"commit"}) \cup Over, Goto(d, label),
           UNCHANGED <<db, writer, txn, result, delete>>
    PROVE  LockHeld' /\ Staged' /\ NotYet' /\ ResultsConsistent' /\ RecordsConsistent'
<1> USE DEF ClassInv
<1>1. LockHeld'
  BY DEF LockHeld, Goto, Going, Over, TypeOK
<1>2. Staged'
  BY DEF Staged, Stored
<1>3. NotYet'
  BY DEF NotYet, Goto, Going, Over, TypeOK
<1>4. ResultsConsistent' /\ RecordsConsistent'
  BY DEF ResultsConsistent, RecordsConsistent, Stored
<1>5. QED
  BY <1>1, <1>2, <1>3, <1>4

LEMMA UploadKeeps ==
    ASSUME ClassInv, NEW d \in Docs, Upload(d)
    PROVE  LockHeld' /\ Staged' /\ NotYet' /\ ResultsConsistent' /\ RecordsConsistent'
<1> USE DEF ClassInv, Upload
<1>1. LockHeld'
  BY DEF LockHeld, Goto, TypeOK
<1>2. Staged'
  BY ClassificationAssumption DEF Staged
<1>3. NotYet'
  BY DEF NotYet, Goto, Going, TypeOK, Rows
<1>4. RecordsConsistent'
  BY RecordFacts DEF RecordsConsistent, Stored, Consistent, TypeOK, Rows
<1>5. ResultsConsistent'
  BY DEF ResultsConsistent
<1>6. QED
  BY <1>1, <1>2, <1>3, <1>4, <1>5

LEMMA WriteKeeps ==
    ASSUME ClassInv, NEW d \in Docs, WriteRow(d)
    PROVE  LockHeld' /\ Staged' /\ NotYet' /\ ResultsConsistent' /\ RecordsConsistent'
<1> USE DEF ClassInv, WriteRow
<1>1. LockHeld'
  BY ClassificationAssumption DEF LockHeld, Goto, TypeOK
<1>2. Staged'
  BY ClassificationAssumption DEF Staged, Stored
<1>3. NotYet'
  BY DEF NotYet, Goto, Going, TypeOK
<1>4. ResultsConsistent' /\ RecordsConsistent'
  BY DEF ResultsConsistent, RecordsConsistent, Stored
<1>5. QED
  BY <1>1, <1>2, <1>3, <1>4

LEMMA CommitKeeps ==
    ASSUME ClassInv, NEW d \in Docs, CommitRow(d)
    PROVE  LockHeld' /\ Staged' /\ NotYet' /\ ResultsConsistent' /\ RecordsConsistent'
<1> USE DEF ClassInv, CommitRow
<1>1. writer = <<"task", d>>
  BY DEF LockHeld
<1>2. Stored(d) /\ txn = [db EXCEPT ![d] = result[d]]
  BY <1>1 DEF Staged
<1>3. LockHeld'
  BY <1>1, ClassificationAssumption DEF LockHeld, Goto, TypeOK
<1>4. Staged'
  BY ClassificationAssumption DEF Staged
<1>5. NotYet'
  <2> SUFFICES ASSUME NEW c \in Docs
               PROVE  /\ task'[c] = "none" => db'[c] = Missing
                      /\ task'[c] \in Going => db'[c] \in {Unclassified, Deleted}
                      /\ delete'[c] # "none" => task'[c] # "none"
    BY DEF NotYet
  <2>1. CASE c = d
    BY <2>1 DEF NotYet, Goto, Going, TypeOK
  <2>2. CASE c # d
    BY <1>2, <2>2 DEF NotYet, Goto, TypeOK, Rows
  <2>3. QED
    BY <2>1, <2>2
<1>6. RecordsConsistent'
  <2> SUFFICES ASSUME NEW c \in Docs, Stored(c)' PROVE Consistent(db'[c])
    BY DEF RecordsConsistent, Consistent
  <2>1. CASE c = d
    BY <1>2, <2>1 DEF ResultsConsistent, TypeOK, Rows
  <2>2. CASE c # d
    BY <1>2, <2>2 DEF RecordsConsistent, Consistent, Stored, TypeOK, Rows
  <2>3. QED
    BY <2>1, <2>2
<1>7. ResultsConsistent'
  BY DEF ResultsConsistent
<1>8. QED
  BY <1>3, <1>4, <1>5, <1>6, <1>7

\* A delete before its commit: the committed rows stay.
LEMMA DeleteMovesKeep ==
    ASSUME ClassInv, NEW d \in Docs,
           DeleteRead(d) \/ DeleteWrite(d) \/ DeleteTimesOut(d)
    PROVE  LockHeld' /\ Staged' /\ NotYet' /\ ResultsConsistent' /\ RecordsConsistent'
<1> USE DEF ClassInv, DeleteRead, DeleteWrite, DeleteTimesOut
<1>1. LockHeld'
  BY ClassificationAssumption DEF LockHeld, TypeOK
<1>2. Staged'
  BY ClassificationAssumption DEF Staged, Stored
<1>3. NotYet'
  <2>1. delete[d] = "none" => task[d] # "none"
    BY DEF NotYet, Stored, LockHeld, TypeOK
  <2>2. QED
    BY <2>1 DEF NotYet, TypeOK
<1>4. ResultsConsistent' /\ RecordsConsistent'
  BY DEF ResultsConsistent, RecordsConsistent, Stored
<1>5. QED
  BY <1>1, <1>2, <1>3, <1>4

LEMMA DeleteCommitKeeps ==
    ASSUME ClassInv, NEW d \in Docs, DeleteCommit(d)
    PROVE  LockHeld' /\ Staged' /\ NotYet' /\ ResultsConsistent' /\ RecordsConsistent'
<1> USE DEF ClassInv, DeleteCommit
<1>1. writer = <<"delete", d>>
  BY DEF LockHeld
<1>2. txn = [db EXCEPT ![d] = Deleted]
  BY <1>1 DEF Staged
<1>3. LockHeld'
  BY <1>1, ClassificationAssumption DEF LockHeld, TypeOK
<1>4. Staged'
  BY ClassificationAssumption DEF Staged
<1>5. NotYet'
  BY <1>2 DEF NotYet, TypeOK, Rows
<1>6. RecordsConsistent'
  BY <1>2 DEF RecordsConsistent, Stored, TypeOK, Rows
<1>7. ResultsConsistent'
  BY DEF ResultsConsistent
<1>8. QED
  BY <1>3, <1>4, <1>5, <1>6, <1>7

\* An error ends a task and lets go of the lock it may hold.
LEMMA FaultKeeps ==
    ASSUME ClassInv, NEW d \in Docs, Fault(d)
    PROVE  LockHeld' /\ Staged' /\ NotYet' /\ ResultsConsistent' /\ RecordsConsistent'
<1> USE DEF ClassInv
<1>1. CASE task[d] \in {"queued", "asking"}
  <2>1. /\ Goto(d, "load")
        /\ result' = [result EXCEPT ![d] = Failed]
        /\ UNCHANGED <<db, writer, txn, delete>>
    BY <1>1 DEF Fault
  <2>2. "load" \in (Going \ {"commit"}) \cup Over
    BY DEF Going
  <2>3. QED
    BY <1>1, <2>1, <2>2, RecordFacts, DecideKeeps
<1>2. CASE task[d] \in {"load", "write", "commit"}
  <2>1. /\ Goto(d, "error")
        /\ IF writer = <<"task", d>> THEN txn' = db /\ writer' = NoWriter
                                     ELSE UNCHANGED <<txn, writer>>
        /\ UNCHANGED <<db, result, delete>>
    BY <1>2 DEF Fault
  <2>2. LockHeld'
    BY <2>1, ClassificationAssumption DEF LockHeld, Goto, TypeOK
  <2>3. Staged'
    BY <2>1, ClassificationAssumption DEF Staged, Stored
  <2>4. NotYet'
    BY <1>2, <2>1 DEF NotYet, Goto, Going, TypeOK
  <2>5. ResultsConsistent' /\ RecordsConsistent'
    BY <2>1 DEF ResultsConsistent, RecordsConsistent, Stored
  <2>6. QED
    BY <2>2, <2>3, <2>4, <2>5
<1>3. QED
  BY <1>1, <1>2 DEF Fault

LEMMA CrashKeeps ==
    ASSUME ClassInv, Crash
    PROVE  LockHeld' /\ Staged' /\ NotYet' /\ ResultsConsistent' /\ RecordsConsistent'
<1> USE DEF ClassInv, Crash
<1>1. LockHeld'
  BY ClassificationAssumption DEF LockHeld, Going, TypeOK
<1>2. Staged'
  BY ClassificationAssumption DEF Staged
<1>3. NotYet'
  BY DEF NotYet, Going, TypeOK
<1>4. ResultsConsistent' /\ RecordsConsistent'
  BY DEF ResultsConsistent, RecordsConsistent, Stored
<1>5. QED
  BY <1>1, <1>2, <1>3, <1>4

LEMMA ClassStep == ClassInv /\ [Next]_vars => ClassInv'
<1> SUFFICES ASSUME ClassInv, [Next]_vars PROVE ClassInv'
  OBVIOUS
<1> DEFINE Rest == LockHeld' /\ Staged' /\ NotYet' /\ ResultsConsistent' /\ RecordsConsistent'
<1>1. TypeOK'
  BY TypeStep DEF ClassInv
<1>2. ASSUME NEW d \in Docs, Upload(d) PROVE Rest
  BY <1>2, UploadKeeps
<1>3. ASSUME NEW d \in Docs, Schedule(d) PROVE Rest
  <2>1. "queued" \in (Going \ {"commit"}) \cup Over /\ task[d] \in Going \ {"commit"}
    BY <1>3 DEF Schedule, Going
  <2>2. QED
    BY <1>3, <2>1, MoveKeeps DEF Schedule
<1>4. ASSUME NEW d \in Docs, Render(d) PROVE Rest
  <2>1. /\ {"asking", "load"} \subseteq (Going \ {"commit"}) \cup Over
        /\ task[d] \in Going \ {"commit"}
    BY <1>4 DEF Render, Going
  <2>2. CASE Goto(d, "asking") /\ UNCHANGED result
    BY <1>4, <2>1, <2>2, MoveKeeps DEF Render
  <2>3. CASE Goto(d, "load") /\ result' = [result EXCEPT ![d] = Failed]
    BY <1>4, <2>1, <2>3, RecordFacts, DecideKeeps DEF Render
  <2>4. QED
    BY <1>4, <2>2, <2>3 DEF Render
<1>5. ASSUME NEW d \in Docs, Answer(d) PROVE Rest
  <2>1. PICK v \in Verdict, figures \in BOOLEAN :
          result' = [result EXCEPT ![d] = AnsweredRecord(v, figures)]
    BY <1>5 DEF Answer
  <2>2. AnsweredRecord(v, figures) \in Record /\ Consistent(AnsweredRecord(v, figures))
    BY AnsweredFacts
  <2>3. "load" \in (Going \ {"commit"}) \cup Over
    BY DEF Going
  <2>4. QED
    BY <1>5, <2>1, <2>2, <2>3, DecideKeeps DEF Answer
<1>6. ASSUME NEW d \in Docs, GiveUp(d) PROVE Rest
  <2>1. "load" \in (Going \ {"commit"}) \cup Over
    BY DEF Going
  <2>2. QED
    BY <1>6, <2>1, RecordFacts, DecideKeeps DEF GiveUp
<1>7. ASSUME NEW d \in Docs, LoadRow(d) \/ WriteFindsNoRow(d) \/ WriteTimesOut(d) PROVE Rest
  <2>1. /\ {"write", "nothing", "stale", "error"} \subseteq (Going \ {"commit"}) \cup Over
        /\ task[d] \in Going \ {"commit"}
    BY <1>7 DEF LoadRow, WriteFindsNoRow, WriteTimesOut, Going, Over
  <2>2. PICK label \in {"write", "nothing", "stale", "error"} : Goto(d, label)
    BY <1>7 DEF LoadRow, WriteFindsNoRow, WriteTimesOut
  <2>3. QED
    BY <1>7, <2>1, <2>2, MoveKeeps DEF LoadRow, WriteFindsNoRow, WriteTimesOut
<1>8. ASSUME NEW d \in Docs, WriteRow(d) PROVE Rest
  BY <1>8, WriteKeeps
<1>9. ASSUME NEW d \in Docs, CommitRow(d) PROVE Rest
  BY <1>9, CommitKeeps
<1>10. ASSUME NEW d \in Docs, DeleteRead(d) \/ DeleteStep(d) PROVE Rest
  BY <1>10, DeleteMovesKeep, DeleteCommitKeeps DEF DeleteStep
<1>11. ASSUME NEW d \in Docs, Fault(d) PROVE Rest
  BY <1>11, FaultKeeps
<1>12. ASSUME Crash PROVE Rest
  BY <1>12, CrashKeeps
<1>13. ASSUME Quiet \/ UNCHANGED vars \/ \E d \in Docs : Retry(d) PROVE Rest
  <2>1. UNCHANGED <<db, writer, txn, task, result, delete>>
    BY <1>13 DEF Quiet, vars, Retry
  <2>2. QED
    BY <2>1 DEF ClassInv, LockHeld, Staged, NotYet, ResultsConsistent, RecordsConsistent, Stored
<1>14. Rest
  BY <1>2, <1>3, <1>4, <1>5, <1>6, <1>7, <1>8, <1>9, <1>10, <1>11, <1>12, <1>13
     DEF Next, TaskStep
<1>15. QED
  BY <1>1, <1>14 DEF ClassInv

LEMMA ClassInvHolds == Spec => []ClassInv
  BY ClassInit, ClassStep, PTL DEF Spec

-----------------------------------------------------------------------------
(* What follows *)

\* On every committed row, status, outcome and proposal agree, with any number
\* of documents, retries, deletes and faults (pipeline.py run).
THEOREM RecordsAgree == Spec => []RecordsConsistent
<1>1. ClassInv => RecordsConsistent
  BY DEF ClassInv
<1>2. QED
  BY <1>1, ClassInvHolds, PTL

\* The committed rows change by an upload, a verdict or a delete, each of one row.
LEMMA CommittedChanges ==
    ASSUME ClassInv, [Next]_vars
    PROVE  \/ db' = db
           \/ \E d \in Docs : /\ db[d] = Missing
                              /\ db' = [db EXCEPT ![d] = Unclassified]
           \/ \E d \in Docs : /\ db[d] = Unclassified /\ db[d] # Deleted
                              /\ db' = [db EXCEPT ![d] = result[d]]
           \/ \E d \in Docs : db' = [db EXCEPT ![d] = Deleted]
<1>1. ASSUME NEW d \in Docs, Upload(d)
      PROVE  db[d] = Missing /\ db' = [db EXCEPT ![d] = Unclassified]
  BY <1>1 DEF Upload, ClassInv, NotYet
<1>2. ASSUME NEW d \in Docs, CommitRow(d)
      PROVE  /\ db[d] = Unclassified /\ db[d] # Deleted
             /\ db' = [db EXCEPT ![d] = result[d]]
  <2>1. writer = <<"task", d>>
    BY <1>2 DEF CommitRow, ClassInv, LockHeld
  <2>2. Stored(d) /\ db' = [db EXCEPT ![d] = result[d]]
    BY <1>2, <2>1 DEF CommitRow, ClassInv, Staged
  <2>3. db[d] \in {Unclassified, Deleted}
    BY <1>2 DEF CommitRow, ClassInv, NotYet, Going
  <2>4. QED
    BY <2>2, <2>3 DEF Stored
<1>3. ASSUME NEW d \in Docs, DeleteCommit(d) PROVE db' = [db EXCEPT ![d] = Deleted]
  BY <1>3 DEF DeleteCommit, ClassInv, LockHeld, Staged
<1>4. ASSUME NEW d \in Docs,
             \/ Schedule(d) \/ Render(d) \/ Answer(d) \/ Retry(d) \/ GiveUp(d)
             \/ LoadRow(d) \/ WriteRow(d) \/ WriteFindsNoRow(d) \/ WriteTimesOut(d)
             \/ Fault(d) \/ DeleteRead(d) \/ DeleteWrite(d) \/ DeleteTimesOut(d)
      PROVE  db' = db
  BY <1>4 DEF Schedule, Render, Answer, Retry, GiveUp, LoadRow, WriteRow, WriteFindsNoRow,
     WriteTimesOut, Fault, DeleteRead, DeleteWrite, DeleteTimesOut
<1>5. Crash \/ Quiet \/ UNCHANGED vars => db' = db
  BY DEF Crash, Quiet, vars
<1>6. QED
  BY <1>1, <1>2, <1>3, <1>4, <1>5 DEF Next, TaskStep, DeleteStep

\* No late verdict brings a deleted document back (repository.py
\* set_classification).
THEOREM DeletedForGood == Spec => DeletedStaysDeleted
<1>1. ClassInv /\ [Next]_vars => \A d \in Docs : db[d] = Deleted => db'[d] = Deleted
  <2> SUFFICES ASSUME ClassInv, [Next]_vars, NEW d \in Docs, db[d] = Deleted
               PROVE  db'[d] = Deleted
    OBVIOUS
  <2>1. QED
    BY CommittedChanges, ClassificationAssumption DEF ClassInv, TypeOK, Rows
<1>2. QED
  BY <1>1, ClassInvHolds, PTL DEF Spec, DeletedStaysDeleted

\* A verdict that is committed is replaced by nothing but the delete of its row,
\* whatever errors, restarts and retries come between (pipeline.py run).
THEOREM VerdictsFinal == Spec => VerdictIsFinal
<1>1. ClassInv /\ [Next]_vars =>
        \A d \in Docs : Stored(d) /\ db[d] # Unclassified => db'[d] \in {db[d], Deleted}
  <2> SUFFICES ASSUME ClassInv, [Next]_vars,
                      NEW d \in Docs, Stored(d), db[d] # Unclassified
               PROVE  db'[d] \in {db[d], Deleted}
    OBVIOUS
  <2>1. db[d] # Missing
    BY DEF Stored
  <2>2. QED
    BY <2>1, CommittedChanges DEF ClassInv, TypeOK, Rows
<1>2. QED
  BY <1>1, ClassInvHolds, PTL DEF Spec, VerdictIsFinal
=============================================================================

--------------------------- MODULE FinancialsProofs ---------------------------
(***************************************************************************)
(* Theorems about Financials for every set of requests, every profile they *)
(* submit, and any number of edits and errors.                             *)
(***************************************************************************)
EXTENDS Financials, TLAPS

\* A row is its columns.
LEMMA RowIsColumns ==
    ASSUME NEW a \in Row, NEW b \in Row, \A c \in Columns : a[c] = b[c]
    PROVE  a = b
  BY DEF Row, Columns

\* Any mixture of the columns of two rows is a row.
LEMMA MixIsRow ==
    ASSUME NEW a \in Row, NEW b \in Row, NEW S
    PROVE  [c \in Columns |-> IF c \in S THEN a[c] ELSE b[c]] \in Row
  BY DEF Row, Columns

LEMMA StatedIsRow ==
    ASSUME NEW r \in Requests, body \in [Requests -> FinancialsRequest]
    PROVE  Stated(r) \in Row
  BY DEF Stated, Row, FinancialsRequest, Amount, Provenance, ConfirmedAt

LEMMA BodyType ==
    ASSUME TypeOK PROVE body \in [Requests -> FinancialsRequest]
<1>1. NoBody \in FinancialsRequest
  BY DEF NoBody, FinancialsRequest, Amount
<1>2. QED
  BY <1>1, FinancialsAssumption DEF TypeOK

\* What an UPDATE writes over the committed row.
Updated(r) == [c \in Columns |-> IF c \in Changed(r) THEN Stated(r)[c] ELSE row[c]]

LEMMA UpdatedIsRow ==
    ASSUME TypeOK, NEW r \in Requests, row # Missing PROVE Updated(r) \in Row
<1>1. row \in Row
  BY DEF TypeOK
<1>2. QED
  BY <1>1, StatedIsRow, BodyType, MixIsRow DEF Updated

\* An UPDATE of the row that was loaded makes it the row that is stated.
LEMMA UpdatedIsStated ==
    ASSUME TypeOK, NEW r \in Requests, row # Missing, loaded[r] = row
    PROVE  Updated(r) = Stated(r)
<1>1. ASSUME NEW c \in Columns PROVE Updated(r)[c] = Stated(r)[c]
  BY <1>1 DEF Updated, Changed
<1>2. QED
  BY <1>1, UpdatedIsRow, StatedIsRow, BodyType, RowIsColumns

-----------------------------------------------------------------------------
(* The inductive invariant *)

\* A row is never taken away.
NeverGone ==
    /\ row # Missing \/ writer # NoRequest => txn # Missing
    /\ \A r \in Requests : loaded[r] # Missing => row # Missing

\* The last PUT to commit is done with the row.
LastDone == last # NoRequest => last \in Requests /\ pc[last] \in {"assess", "ok", "failed"}

FinInv == TypeOK /\ NeverGone /\ LastDone /\ ReplaceInv

LEMMA TypeInit == Init => TypeOK
  BY FinancialsAssumption DEF Init, TypeOK, InFlight

LEMMA LockType ==
    ASSUME TypeOK, NEW r \in Requests, NEW after \in Row, TakeLock(r, after)
    PROVE  TypeOK'
  BY DEF TakeLock, NoteStale, Goto, TypeOK, InFlight

LEMMA TypeStep == TypeOK /\ NeverGone /\ [Next]_vars => TypeOK'
<1> SUFFICES ASSUME TypeOK, NeverGone, [Next]_vars PROVE TypeOK'
  OBVIOUS
<1>1. ASSUME NEW r \in Requests,
             Get(r) \/ ReadApplication(r) \/ GetFinancials(r) \/ LoadRow(r)
      PROVE  TypeOK'
  BY <1>1 DEF TypeOK, Get, ReadApplication, GetFinancials, LoadRow, Goto, InFlight, history
<1>2. ASSUME NEW r \in Requests, NEW b \in Bodies, Put(r, b) PROVE TypeOK'
  BY <1>2 DEF TypeOK, Put, Goto, InFlight, history
<1>3. ASSUME NEW r \in Requests, FlushInsert(r) PROVE TypeOK'
  BY <1>3, StatedIsRow, BodyType, LockType DEF FlushInsert
<1>4. ASSUME NEW r \in Requests, FlushUpdate(r) PROVE TypeOK'
  <2>1. row # Missing
    BY <1>4 DEF FlushUpdate, NeverGone
  <2>2. QED
    BY <1>4, <2>1, UpdatedIsRow, LockType DEF FlushUpdate, Updated
<1>5. ASSUME NEW r \in Requests,
             InsertRefused(r) \/ FlushNothing(r) \/ BusyTimeout(r) \/ Respond(r)
      PROVE  TypeOK'
  BY <1>5 DEF TypeOK, InsertRefused, FlushNothing, NoteStale, BusyTimeout, Respond, Goto,
     InFlight, history
<1>6. ASSUME NEW r \in Requests, Commit(r) PROVE TypeOK'
  BY <1>6 DEF TypeOK, Commit, Goto, InFlight
<1>7. ASSUME NEW r \in Requests, Fault(r) PROVE TypeOK'
  BY <1>7, FinancialsAssumption DEF TypeOK, Fault, Rollback, Goto, InFlight, history
<1>8. CASE EditFile
  BY <1>8, FinancialsAssumption DEF TypeOK, EditFile, control, history
<1>9. CASE Quiet \/ UNCHANGED vars
  BY <1>9 DEF TypeOK, Quiet, vars, control, history
<1>10. QED
  BY <1>1, <1>2, <1>3, <1>4, <1>5, <1>6, <1>7, <1>8, <1>9 DEF Next, Step

-----------------------------------------------------------------------------
(* Steps *)

LEMMA FinInit == Init => FinInv
<1> SUFFICES ASSUME Init PROVE FinInv
  OBVIOUS
<1>1. TypeOK
  BY TypeInit
<1>2. ReplaceInv
  BY FinancialsAssumption DEF Init, ReplaceInv, LockHeld, StagedWhole, LastPutReplaces
<1>3. NeverGone /\ LastDone
  BY DEF Init, NeverGone, LastDone
<1>4. QED
  BY <1>1, <1>2, <1>3 DEF FinInv

\* What everything but the types comes to after a step.
LEMMA StatedKept ==
    ASSUME NEW p \in Requests, body'[p] = body[p] PROVE Stated(p)' = Stated(p)
  BY DEF Stated

\* A step that neither commits, nor locks, nor releases.
LEMMA MoveKeeps ==
    ASSUME FinInv, NEW r \in Requests, pc[r] # "commit",
           NEW label \in {"get", "put", "load", "lookup", "flush", "assess", "ok", "failed"},
           Goto(r, label),
           pc[r] \in {"assess", "ok", "failed"} => label \in {"assess", "ok", "failed"},
           \A p \in Requests : pc[p] # "idle" => body'[p] = body[p],
           \A p \in Requests : loaded'[p] \in {loaded[p], row},
           UNCHANGED <<row, writer, txn, last, stale>>
    PROVE  NeverGone' /\ LastDone' /\ ReplaceInv'
<1> USE DEF FinInv, ReplaceInv
<1>1. NeverGone'
  BY DEF NeverGone
<1>2. LastDone'
  BY DEF LastDone, Goto, TypeOK
<1>3. LockHeld'
  BY DEF LockHeld, Goto, TypeOK
<1>4. StagedWhole'
  <2> SUFFICES ASSUME writer \notin stale \cup {NoRequest} PROVE txn = Stated(writer)'
    BY DEF StagedWhole
  <2>1. writer \in Requests /\ pc[writer] = "commit"
    BY DEF TypeOK, LockHeld
  <2>2. QED
    BY <2>1, StatedKept DEF StagedWhole
<1>5. LastPutReplaces'
  <2> SUFFICES ASSUME last \notin stale \cup {NoRequest} PROVE row = Stated(last)'
    BY DEF LastPutReplaces
  <2>1. last \in Requests /\ pc[last] # "idle"
    BY DEF LastDone
  <2>2. QED
    BY <2>1, StatedKept DEF LastPutReplaces
<1>6. QED
  BY <1>1, <1>2, <1>3, <1>4, <1>5

\* A flush: what it stages is what it states, unless the row is not the one it
\* had loaded.
LEMMA LockKeeps ==
    ASSUME FinInv, NEW r \in Requests, pc[r] = "flush", NEW after \in Row, TakeLock(r, after),
           loaded[r] = row => after = Stated(r)
    PROVE  NeverGone' /\ LastDone' /\ ReplaceInv'
<1> USE DEF FinInv, ReplaceInv, TakeLock
<1>1. after # Missing
  BY FinancialsAssumption
<1>2. NeverGone'
  BY <1>1 DEF NeverGone
<1>3. LastDone'
  BY DEF LastDone, Goto, TypeOK
<1>4. LockHeld'
  BY FinancialsAssumption DEF LockHeld, Goto, TypeOK
<1>5. Stated(r)' = Stated(r)
  BY StatedKept
<1>6. r \notin stale' => loaded[r] = row
  BY DEF NoteStale
<1>7. StagedWhole'
  BY <1>5, <1>6 DEF StagedWhole
<1>8. LastPutReplaces'
  <2> SUFFICES ASSUME last \notin stale' \cup {NoRequest} PROVE row = Stated(last)'
    BY DEF LastPutReplaces
  <2>1. last \in Requests /\ last \notin stale
    BY DEF LastDone, NoteStale
  <2>2. QED
    BY <2>1, StatedKept DEF LastPutReplaces
<1>9. QED
  BY <1>2, <1>3, <1>4, <1>7, <1>8

LEMMA FlushNothingKeeps ==
    ASSUME FinInv, NEW r \in Requests, FlushNothing(r)
    PROVE  NeverGone' /\ LastDone' /\ ReplaceInv'
<1> USE DEF FinInv, ReplaceInv, FlushNothing
<1>1. row # Missing /\ row \in Row
  BY DEF NeverGone, WritesNothing, TypeOK
<1>2. Stated(r)' = Stated(r)
  BY StatedKept
<1>3. loaded[r] = row => row = Stated(r)
  <2> SUFFICES ASSUME loaded[r] = row PROVE row = Stated(r)
    OBVIOUS
  <2>1. ASSUME NEW c \in Columns PROVE row[c] = Stated(r)[c]
    BY <2>1 DEF WritesNothing, Changed
  <2>2. QED
    BY <1>1, <2>1, StatedIsRow, BodyType, RowIsColumns
<1>4. LastPutReplaces'
  BY <1>2, <1>3 DEF LastPutReplaces, NoteStale
<1>5. LockHeld'
  BY <1>1, FinancialsAssumption DEF LockHeld, Goto, TypeOK
<1>6. StagedWhole'
  <2> SUFFICES ASSUME writer \notin stale' \cup {NoRequest} PROVE txn = Stated(writer)'
    BY DEF StagedWhole
  <2>1. writer \in Requests /\ writer \notin stale
    BY DEF TypeOK, NoteStale
  <2>2. QED
    BY <2>1, StatedKept DEF StagedWhole
<1>7. NeverGone' /\ LastDone'
  BY DEF NeverGone, LastDone, Goto, TypeOK
<1>8. QED
  BY <1>4, <1>5, <1>6, <1>7

LEMMA CommitKeeps ==
    ASSUME FinInv, NEW r \in Requests, Commit(r)
    PROVE  NeverGone' /\ LastDone' /\ ReplaceInv'
<1> USE DEF FinInv, ReplaceInv, Commit
<1>1. writer = r /\ writer # NoRequest
  BY FinancialsAssumption DEF LockHeld
<1>2. txn # Missing
  BY <1>1 DEF NeverGone
<1>3. Stated(r)' = Stated(r)
  BY StatedKept
<1>4. LastPutReplaces'
  BY <1>1, <1>3 DEF LastPutReplaces, StagedWhole
<1>5. LockHeld'
  BY <1>1, <1>2, FinancialsAssumption DEF LockHeld, Goto, TypeOK
<1>6. StagedWhole'
  BY DEF StagedWhole
<1>7. NeverGone' /\ LastDone'
  BY <1>1, <1>2 DEF NeverGone, LastDone, Goto, TypeOK
<1>8. QED
  BY <1>4, <1>5, <1>6, <1>7

LEMMA FaultKeeps ==
    ASSUME FinInv, NEW r \in Requests, Fault(r)
    PROVE  NeverGone' /\ LastDone' /\ ReplaceInv'
<1> USE DEF FinInv, ReplaceInv
<1>1. /\ Goto(r, "failed") /\ UNCHANGED <<row, body, loaded, last, stale>>
      /\ pc[r] \in InFlight
  BY DEF Fault, Rollback, history
<1>2. ASSUME NEW p \in Requests PROVE Stated(p)' = Stated(p)
  BY <1>1, StatedKept
<1>3. LastDone'
  BY <1>1 DEF LastDone, Goto, TypeOK
<1>4. LastPutReplaces'
  BY <1>1, <1>2 DEF LastPutReplaces, LastDone
<1>5. CASE writer = r
  <2>1. writer' = NoRequest /\ txn' = row
    BY <1>5 DEF Fault, Rollback
  <2>2. LockHeld'
    BY <1>1, <1>5, <2>1, FinancialsAssumption DEF LockHeld, Goto, TypeOK
  <2>3. StagedWhole' /\ NeverGone'
    BY <1>1, <2>1 DEF StagedWhole, NeverGone
  <2>4. QED
    BY <1>3, <1>4, <2>2, <2>3
<1>6. CASE writer # r
  <2>1. writer' = writer /\ txn' = txn
    BY <1>6 DEF Fault, Rollback
  <2>2. LockHeld'
    BY <1>1, <1>6, <2>1 DEF LockHeld, Goto, TypeOK
  <2>3. StagedWhole'
    BY <1>1, <1>2, <2>1 DEF StagedWhole, TypeOK
  <2>4. NeverGone'
    BY <1>1, <2>1 DEF NeverGone
  <2>5. QED
    BY <1>3, <1>4, <2>2, <2>3, <2>4
<1>7. QED
  BY <1>5, <1>6

LEMMA FinStep == FinInv /\ [Next]_vars => FinInv'
<1> SUFFICES ASSUME FinInv, [Next]_vars PROVE FinInv'
  OBVIOUS
<1> DEFINE Rest == NeverGone' /\ LastDone' /\ ReplaceInv'
<1>1. TypeOK'
  BY TypeStep DEF FinInv
<1>2. ASSUME NEW r \in Requests, Get(r) PROVE Rest
  BY <1>2, MoveKeeps DEF Get, history
<1>3. ASSUME NEW r \in Requests, NEW b \in Bodies, Put(r, b) PROVE Rest
  <2>1. \A p \in Requests : pc[p] # "idle" => body'[p] = body[p]
    BY <1>3 DEF Put, FinInv, TypeOK
  <2>2. QED
    BY <1>3, <2>1, MoveKeeps DEF Put, history
<1>4. ASSUME NEW r \in Requests,
             \/ ReadApplication(r) \/ GetFinancials(r) \/ LoadRow(r)
             \/ InsertRefused(r) \/ BusyTimeout(r) \/ Respond(r)
      PROVE  Rest
  <2>1. PICK label \in {"load", "lookup", "flush", "assess", "ok", "failed"} :
          /\ Goto(r, label)
          /\ label \in {"ok", "failed"} \/ pc[r] \notin {"assess", "ok", "failed"}
    BY <1>4 DEF ReadApplication, GetFinancials, LoadRow, InsertRefused, BusyTimeout, Respond
  <2>2. pc[r] # "commit" /\ UNCHANGED <<row, writer, txn, body, last, stale>>
    BY <1>4 DEF ReadApplication, GetFinancials, LoadRow, InsertRefused, BusyTimeout, Respond,
       history
  <2>3. \A p \in Requests : loaded'[p] \in {loaded[p], row}
    BY <1>4 DEF ReadApplication, GetFinancials, LoadRow, InsertRefused, BusyTimeout, Respond,
       FinInv, TypeOK
  <2>4. QED
    BY <2>1, <2>2, <2>3, MoveKeeps
<1>5. ASSUME NEW r \in Requests, FlushInsert(r) PROVE Rest
  BY <1>5, StatedIsRow, BodyType, LockKeeps DEF FlushInsert, FinInv
<1>6. ASSUME NEW r \in Requests, FlushUpdate(r) PROVE Rest
  <2>1. row # Missing
    BY <1>6 DEF FlushUpdate, FinInv, NeverGone
  <2>2. /\ Updated(r) \in Row
        /\ loaded[r] = row => Updated(r) = Stated(r)
    BY <2>1, UpdatedIsRow, UpdatedIsStated DEF FinInv
  <2>3. TakeLock(r, Updated(r)) /\ pc[r] = "flush"
    BY <1>6 DEF FlushUpdate, Updated
  <2>4. QED
    BY <2>2, <2>3, LockKeeps
<1>7. ASSUME NEW r \in Requests, FlushNothing(r) \/ Commit(r) \/ Fault(r) PROVE Rest
  BY <1>7, FlushNothingKeeps, CommitKeeps, FaultKeeps
<1>8. ASSUME EditFile \/ Quiet \/ UNCHANGED vars PROVE Rest
  <2>1. UNCHANGED <<row, writer, txn, pc, body, loaded, last, stale>>
    BY <1>8 DEF EditFile, Quiet, vars, control, history
  <2>2. \A p : Stated(p)' = Stated(p)
    BY <2>1 DEF Stated
  <2>3. QED
    BY <2>1, <2>2 DEF FinInv, NeverGone, LastDone, ReplaceInv, LockHeld, StagedWhole,
       LastPutReplaces
<1>9. Rest
  BY <1>2, <1>3, <1>4, <1>5, <1>6, <1>7, <1>8 DEF Next, Step
<1>10. QED
  BY <1>1, <1>9 DEF FinInv

LEMMA FinInvHolds == Spec => []FinInv
  BY FinInit, FinStep, PTL DEF Spec

-----------------------------------------------------------------------------
(* What follows *)

\* The state keeps its types.
THEOREM TypeCorrect == Spec => []TypeOK
  BY FinInvHolds, PTL DEF FinInv

\* A PUT that flushed against the row it had loaded has replaced the profile as
\* a whole once it has committed, whatever came before it and however many
\* other requests failed (repository.py upsert_financials).
THEOREM PutsReplace == Spec => []LastPutReplaces
  BY FinInvHolds, PTL DEF FinInv, ReplaceInv

-----------------------------------------------------------------------------
(* Where each column comes from *)

AcceptedDone == \A r \in accepted : pc[r] \in {"assess", "ok", "failed"}

\* What is staged is the writer's, or was there before.
StagedColumns ==
    writer # NoRequest =>
       \A c \in Columns : \/ txn[c] = Stated(writer)[c]
                          \/ row # Missing /\ txn[c] = row[c]

ColumnsInv == FinInv /\ AcceptedDone /\ StagedColumns /\ ColumnsSubmitted

LEMMA ColumnsInit == Init => ColumnsInv
  BY FinInit DEF Init, ColumnsInv, AcceptedDone, StagedColumns, ColumnsSubmitted

\* A step that touches neither the rows nor the lock.
LEMMA ColumnsMove ==
    ASSUME ColumnsInv, UNCHANGED <<row, writer, txn>>,
           \A p \in Requests : pc[p] # "idle" => body'[p] = body[p],
           accepted \subseteq accepted', AcceptedDone'
    PROVE  StagedColumns' /\ ColumnsSubmitted'
<1> USE DEF ColumnsInv
<1>1. \A p \in accepted : p \in Requests /\ Stated(p)' = Stated(p)
  BY StatedKept DEF AcceptedDone, FinInv, TypeOK
<1>2. writer # NoRequest => Stated(writer)' = Stated(writer)
  BY StatedKept DEF FinInv, ReplaceInv, LockHeld, TypeOK
<1>3. ColumnsSubmitted'
  BY <1>1 DEF ColumnsSubmitted
<1>4. StagedColumns'
  BY <1>2 DEF StagedColumns
<1>5. QED
  BY <1>3, <1>4

LEMMA ColumnsLock ==
    ASSUME ColumnsInv, NEW r \in Requests, FlushInsert(r) \/ FlushUpdate(r)
    PROVE  AcceptedDone' /\ StagedColumns' /\ ColumnsSubmitted'
<1> USE DEF ColumnsInv
<1>1. PICK after \in {Stated(r), Updated(r)} :
        /\ TakeLock(r, after) /\ pc[r] = "flush"
        /\ after = Updated(r) => row # Missing \/ after = Stated(r)
  BY DEF FlushInsert, FlushUpdate, Updated, FinInv, NeverGone
<1>2. /\ UNCHANGED <<row, body, accepted>> /\ Goto(r, "commit")
      /\ writer' = r /\ txn' = after
  BY <1>1 DEF TakeLock
<1>3. AcceptedDone'
  BY <1>1, <1>2 DEF AcceptedDone, Goto, FinInv, TypeOK
<1>4. \A p : Stated(p)' = Stated(p)
  BY <1>2 DEF Stated
<1>5. ColumnsSubmitted'
  BY <1>2, <1>4 DEF ColumnsSubmitted
<1>6. ASSUME NEW c \in Columns
      PROVE  after[c] = Stated(r)[c] \/ (row # Missing /\ after[c] = row[c])
  <2>1. CASE after = Stated(r)
    BY <2>1
  <2>2. CASE after = Updated(r) /\ row # Missing
    BY <2>2 DEF Updated
  <2>3. QED
    BY <1>1, <2>1, <2>2
<1>7. StagedColumns'
  BY <1>2, <1>4, <1>6 DEF StagedColumns
<1>8. QED
  BY <1>3, <1>5, <1>7

LEMMA ColumnsCommit ==
    ASSUME ColumnsInv, NEW r \in Requests, Commit(r)
    PROVE  AcceptedDone' /\ StagedColumns' /\ ColumnsSubmitted'
<1> USE DEF ColumnsInv, Commit
<1>1. writer = r /\ writer # NoRequest
  BY FinancialsAssumption DEF FinInv, ReplaceInv, LockHeld
<1>2. \A p : Stated(p)' = Stated(p)
  BY DEF Stated
<1>3. ASSUME NEW c \in Columns PROVE \E p \in accepted' : txn[c] = Stated(p)[c]
  <2>1. CASE txn[c] = Stated(r)[c]
    BY <2>1
  <2>2. CASE row # Missing /\ txn[c] = row[c]
    BY <2>2 DEF ColumnsSubmitted
  <2>3. QED
    BY <1>1, <2>1, <2>2 DEF StagedColumns
<1>4. ColumnsSubmitted'
  BY <1>2, <1>3 DEF ColumnsSubmitted
<1>5. AcceptedDone'
  BY DEF AcceptedDone, Goto, FinInv, TypeOK
<1>6. StagedColumns'
  BY DEF StagedColumns
<1>7. QED
  BY <1>4, <1>5, <1>6

LEMMA ColumnsFault ==
    ASSUME ColumnsInv, NEW r \in Requests, Fault(r)
    PROVE  AcceptedDone' /\ StagedColumns' /\ ColumnsSubmitted'
<1> USE DEF ColumnsInv
<1>1. /\ UNCHANGED <<row, body, accepted>> /\ Goto(r, "failed")
      /\ (writer' = writer /\ txn' = txn) \/ writer' = NoRequest
  BY DEF Fault, Rollback, history
<1>2. \A p : Stated(p)' = Stated(p)
  BY <1>1 DEF Stated
<1>3. ColumnsSubmitted' /\ StagedColumns'
  BY <1>1, <1>2 DEF ColumnsSubmitted, StagedColumns
<1>4. AcceptedDone'
  BY <1>1 DEF AcceptedDone, Goto, FinInv, TypeOK
<1>5. QED
  BY <1>3, <1>4

LEMMA ColumnsStep == ColumnsInv /\ [Next]_vars => ColumnsInv'
<1> SUFFICES ASSUME ColumnsInv, [Next]_vars PROVE ColumnsInv'
  OBVIOUS
<1> DEFINE Rest == AcceptedDone' /\ StagedColumns' /\ ColumnsSubmitted'
<1>1. FinInv'
  BY FinStep DEF ColumnsInv
<1>2. ASSUME NEW r \in Requests,
             \/ Get(r) \/ ReadApplication(r) \/ GetFinancials(r) \/ LoadRow(r)
             \/ InsertRefused(r) \/ BusyTimeout(r) \/ Respond(r) \/ FlushNothing(r)
             \/ \E b \in Bodies : Put(r, b)
      PROVE  Rest
  <2>1. UNCHANGED <<row, writer, txn>>
    BY <1>2 DEF Get, ReadApplication, GetFinancials, LoadRow, InsertRefused, BusyTimeout,
       Respond, FlushNothing, Put
  <2>2. \A p \in Requests : pc[p] # "idle" => body'[p] = body[p]
    BY <1>2 DEF Get, ReadApplication, GetFinancials, LoadRow, InsertRefused, BusyTimeout,
       Respond, FlushNothing, Put, ColumnsInv, FinInv, TypeOK
  <2>3. \/ accepted' = accepted
        \/ accepted' = accepted \cup {r} /\ Goto(r, "assess")
    BY <1>2 DEF Get, ReadApplication, GetFinancials, LoadRow, InsertRefused, BusyTimeout,
       Respond, FlushNothing, Put, history
  <2>4. PICK label : Goto(r, label) /\ (r \in accepted => label \in {"assess", "ok", "failed"})
    BY <1>2 DEF Get, ReadApplication, GetFinancials, LoadRow, InsertRefused, BusyTimeout,
       Respond, FlushNothing, Put, ColumnsInv, AcceptedDone
  <2>5. AcceptedDone'
    <3>1. \A p \in accepted : pc'[p] \in {"assess", "ok", "failed"}
      BY <2>4 DEF ColumnsInv, AcceptedDone, Goto, FinInv, TypeOK
    <3>2. Goto(r, "assess") => pc'[r] = "assess"
      BY DEF Goto, ColumnsInv, FinInv, TypeOK
    <3>3. QED
      BY <2>3, <3>1, <3>2 DEF AcceptedDone
  <2>6. QED
    BY <2>1, <2>2, <2>3, <2>5, ColumnsMove
<1>3. ASSUME NEW r \in Requests,
             FlushInsert(r) \/ FlushUpdate(r) \/ Commit(r) \/ Fault(r)
      PROVE  Rest
  BY <1>3, ColumnsLock, ColumnsCommit, ColumnsFault
<1>4. ASSUME EditFile \/ Quiet \/ UNCHANGED vars PROVE Rest
  <2>1. UNCHANGED <<row, writer, txn, pc, body, accepted>>
    BY <1>4 DEF EditFile, Quiet, vars, control, history
  <2>2. \A p : Stated(p)' = Stated(p)
    BY <2>1 DEF Stated
  <2>3. QED
    BY <2>1, <2>2 DEF ColumnsInv, AcceptedDone, StagedColumns, ColumnsSubmitted
<1>5. Rest
  BY <1>2, <1>3, <1>4 DEF Next, Step
<1>6. QED
  BY <1>1, <1>5 DEF ColumnsInv

\* Whatever overlaps, times out or fails, each column of the profile is what
\* some committed PUT submitted for it (service.py put_financials).
THEOREM ColumnsAreSubmitted == Spec => []ColumnsSubmitted
<1>1. ColumnsInv => ColumnsSubmitted
  BY DEF ColumnsInv
<1>2. QED
  BY <1>1, ColumnsInit, ColumnsStep, PTL DEF Spec

-----------------------------------------------------------------------------
(* What is shown *)

\* Every column of a profile is what some committed PUT submitted for it.
Backed(profile) ==
    profile # Missing => \A c \in Columns : \E p \in accepted : profile[c] = Stated(p)[c]

\* A PUT shows the row it staged until it is committed; what is answered is a
\* row that was.
ShownBacked ==
    \A r \in Requests : /\ pc[r] = "commit" => shown[r] = txn
                        /\ pc[r] \in {"assess", "ok"} => Backed(shown[r])

ShownInv == ColumnsInv /\ ShownBacked

LEMMA ShownInit == Init => ShownInv
  BY ColumnsInit DEF Init, ShownInv, ShownBacked

\* What is backed stays so: no committed PUT is forgotten, and none changes.
LEMMA BackedStays ==
    ASSUME ColumnsInv, [Next]_vars, NEW profile, Backed(profile)
    PROVE  Backed(profile)'
<1> USE DEF ColumnsInv
<1>1. accepted \subseteq accepted'
  BY DEF Next, Step, Get, Put, ReadApplication, GetFinancials, LoadRow, FlushInsert,
     InsertRefused, FlushUpdate, FlushNothing, BusyTimeout, Commit, Respond, Fault, TakeLock,
     EditFile, Quiet, vars, history
<1>2. ASSUME NEW p \in accepted PROVE Stated(p)' = Stated(p)
  <2>1. p \in Requests /\ pc[p] # "idle"
    BY DEF AcceptedDone, FinInv, TypeOK
  <2>2. body'[p] = body[p]
    <3>1. ASSUME NEW r \in Requests, NEW b \in Bodies, Put(r, b) PROVE body'[p] = body[p]
      BY <2>1, <3>1 DEF Put, FinInv, TypeOK
    <3>2. ASSUME ~(\E r \in Requests, b \in Bodies : Put(r, b)) PROVE body' = body
      BY <3>2 DEF Next, Step, Get, ReadApplication, GetFinancials, LoadRow, FlushInsert,
         InsertRefused, FlushUpdate, FlushNothing, BusyTimeout, Commit, Respond, Fault, TakeLock,
         EditFile, Quiet, vars, control
    <3>3. QED
      BY <3>1, <3>2
  <2>3. QED
    BY <2>1, <2>2, StatedKept
<1>3. QED
  BY <1>1, <1>2 DEF Backed

\* What a request other than r, or an edit, leaves of a request.
LEMMA ShownElsewhere ==
    ASSUME ShownInv, [Next]_vars, NEW q \in Requests,
           pc'[q] = pc[q], shown'[q] = shown[q], pc[q] = "commit" => txn' = txn
    PROVE  /\ pc'[q] = "commit" => shown'[q] = txn'
           /\ pc'[q] \in {"assess", "ok"} => Backed(shown[q])'
  BY BackedStays DEF ShownInv, ShownBacked

LEMMA ShownStep == ShownInv /\ [Next]_vars => ShownInv'
<1> SUFFICES ASSUME ShownInv, [Next]_vars PROVE ShownInv'
  OBVIOUS
<1> DEFINE Right(q) == /\ pc'[q] = "commit" => shown'[q] = txn'
                       /\ pc'[q] \in {"assess", "ok"} => Backed(shown[q])'
<1>1. ColumnsInv /\ ColumnsInv' /\ TypeOK /\ LockHeld
  BY ColumnsStep DEF ShownInv, ColumnsInv, FinInv, ReplaceInv
<1>2. Backed(row) /\ Backed(row)'
  BY <1>1 DEF ColumnsInv, ColumnsSubmitted, Backed
<1>3. ASSUME NEW r \in Requests,
             \/ Get(r) \/ ReadApplication(r) \/ LoadRow(r) \/ InsertRefused(r)
             \/ BusyTimeout(r) \/ \E b \in Bodies : Put(r, b)
      PROVE  \A q \in Requests : Right(q)
  <2>1. UNCHANGED <<shown, txn>>
    BY <1>3 DEF Get, ReadApplication, LoadRow, InsertRefused, BusyTimeout, Put
  <2>2. /\ pc'[r] \notin {"commit", "assess", "ok"}
        /\ \A q \in Requests : q # r => pc'[q] = pc[q]
    BY <1>1, <1>3 DEF Get, ReadApplication, LoadRow, InsertRefused, BusyTimeout, Put, Goto,
       TypeOK
  <2>3. QED
    BY <2>1, <2>2, ShownElsewhere
<1>4. ASSUME NEW r \in Requests, GetFinancials(r) \/ FlushNothing(r)
      PROVE  \A q \in Requests : Right(q)
  <2>1. txn' = txn /\ row' = row /\ Goto(r, "assess") /\ shown' = [shown EXCEPT ![r] = row]
    BY <1>4 DEF GetFinancials, FlushNothing
  <2>2. /\ pc'[r] = "assess" /\ shown'[r] = row'
        /\ \A q \in Requests : q # r => pc'[q] = pc[q] /\ shown'[q] = shown[q]
    BY <1>1, <2>1 DEF Goto, TypeOK
  <2>3. Right(r)
    BY <1>2, <2>2 DEF Backed
  <2>4. QED
    BY <2>1, <2>2, <2>3, ShownElsewhere
<1>5. ASSUME NEW r \in Requests, NEW after, TakeLock(r, after)
      PROVE  \A q \in Requests : Right(q)
  <2>1. /\ pc'[r] = "commit" /\ shown'[r] = txn'
        /\ \A q \in Requests : q # r => pc'[q] = pc[q] /\ shown'[q] = shown[q]
    BY <1>1, <1>5 DEF TakeLock, Goto, TypeOK
  <2>2. \A q \in Requests : pc[q] # "commit"
    BY <1>1, <1>5, FinancialsAssumption DEF TakeLock, LockHeld
  <2>3. QED
    BY <2>1, <2>2, ShownElsewhere
<1>6. ASSUME NEW r \in Requests, Commit(r) PROVE \A q \in Requests : Right(q)
  <2>1. /\ pc[r] = "commit" /\ row' = txn /\ UNCHANGED <<txn, shown>>
        /\ pc'[r] = "assess" /\ \A q \in Requests : q # r => pc'[q] = pc[q]
    BY <1>1, <1>6 DEF Commit, Goto, TypeOK
  <2>2. shown'[r] = row'
    BY <2>1 DEF ShownInv, ShownBacked
  <2>3. Right(r)
    BY <1>2, <2>1, <2>2 DEF Backed
  <2>4. QED
    BY <2>1, <2>3, ShownElsewhere
<1>7. ASSUME NEW r \in Requests, Respond(r) PROVE \A q \in Requests : Right(q)
  <2>1. /\ pc[r] = "assess" /\ UNCHANGED <<txn, shown>>
        /\ pc'[r] = "ok" /\ \A q \in Requests : q # r => pc'[q] = pc[q]
    BY <1>1, <1>7 DEF Respond, Goto, TypeOK
  <2>2. Right(r)
    BY <1>1, <2>1, BackedStays DEF ShownInv, ShownBacked
  <2>3. QED
    BY <2>1, <2>2, ShownElsewhere
<1>8. ASSUME NEW r \in Requests, Fault(r) PROVE \A q \in Requests : Right(q)
  <2>1. /\ shown' = shown /\ pc'[r] = "failed"
        /\ \A q \in Requests : q # r => pc'[q] = pc[q]
    BY <1>1, <1>8 DEF Fault, Goto, TypeOK
  <2>2. ASSUME NEW q \in Requests, q # r, pc[q] = "commit" PROVE txn' = txn
    BY <1>1, <1>8, <2>2 DEF Fault, Rollback, LockHeld
  <2>3. QED
    BY <2>1, <2>2, ShownElsewhere
<1>9. ASSUME EditFile \/ Quiet \/ UNCHANGED vars PROVE \A q \in Requests : Right(q)
  <2>1. UNCHANGED <<pc, shown, txn>>
    BY <1>9 DEF EditFile, Quiet, vars, control
  <2>2. QED
    BY <2>1, ShownElsewhere
<1>10. \A q \in Requests : Right(q)
  <2>1. ASSUME NEW r \in Requests, FlushInsert(r) \/ FlushUpdate(r)
        PROVE  \E after : TakeLock(r, after)
    BY <2>1 DEF FlushInsert, FlushUpdate
  <2>2. QED
    BY <1>3, <1>4, <1>5, <1>6, <1>7, <1>8, <1>9, <2>1 DEF Next, Step
<1>11. QED
  BY <1>1, <1>10 DEF ShownInv, ShownBacked

LEMMA ShownInvHolds == Spec => []ShownInv
  BY ShownInit, ShownStep, PTL DEF Spec

-----------------------------------------------------------------------------
(* Which amount a time belongs to *)

\* The time of a PUT that replaced the row it had loaded is next to the amount
\* that PUT submitted, or to none.
IncomeTimed(profile) ==
    LET at == profile.net_monthly_income_confirmed_at
    IN  at # Null =>
          /\ at \in Requests /\ pc[at] # "idle"
          /\ profile.net_monthly_income # Null /\ at \notin stale =>
               profile.net_monthly_income = body[at].income

CreditTimed(profile) ==
    LET at == profile.existing_credit_confirmed_at
    IN  at # Null =>
          /\ at \in Requests /\ pc[at] # "idle"
          /\ profile.existing_credit_monthly # Null /\ at \notin stale =>
               profile.existing_credit_monthly = body[at].credit

Timed(profile) == profile # Missing => IncomeTimed(profile) /\ CreditTimed(profile)

\* What a PUT has loaded is older than the PUT itself.
TimesHold ==
    /\ Timed(row)
    /\ \A r \in Requests : /\ pc[r] = "flush" => Backed(loaded[r])
                           /\ pc[r] \in {"commit", "assess", "ok"} => Timed(shown[r])

TimedInv == ShownInv /\ TimesHold

LEMMA TimedInit == Init => TimedInv
  BY ShownInit DEF Init, TimedInv, TimesHold, Timed

\* A PUT that has begun keeps its body, and what was stale stays so.
LEMMA PutsStay ==
    ASSUME TypeOK, [Next]_vars, NEW p \in Requests, pc[p] # "idle"
    PROVE  pc'[p] # "idle" /\ body'[p] = body[p] /\ stale \subseteq stale'
<1> USE DEF TypeOK
<1>1. ASSUME NEW r \in Requests, NEW b \in Bodies, Put(r, b)
      PROVE  pc'[p] # "idle" /\ body'[p] = body[p] /\ stale' = stale
  BY <1>1 DEF Put, Goto, history
<1>2. ASSUME NEW r \in Requests,
             \/ Get(r) \/ ReadApplication(r) \/ GetFinancials(r) \/ LoadRow(r)
             \/ InsertRefused(r) \/ BusyTimeout(r) \/ Respond(r) \/ Commit(r) \/ Fault(r)
      PROVE  pc'[p] # "idle" /\ body' = body /\ stale' = stale
  BY <1>2 DEF Get, ReadApplication, GetFinancials, LoadRow, InsertRefused, BusyTimeout, Respond,
     Commit, Fault, Goto, history
<1>3. ASSUME NEW r \in Requests, FlushInsert(r) \/ FlushUpdate(r) \/ FlushNothing(r)
      PROVE  pc'[p] # "idle" /\ body' = body /\ stale \subseteq stale'
  BY <1>3 DEF FlushInsert, FlushUpdate, FlushNothing, TakeLock, NoteStale, Goto
<1>4. ASSUME EditFile \/ Quiet \/ UNCHANGED vars PROVE UNCHANGED <<pc, body, stale>>
  BY <1>4 DEF EditFile, Quiet, vars, control, history
<1>5. QED
  BY <1>1, <1>2, <1>3, <1>4 DEF Next, Step

LEMMA TimedStays ==
    ASSUME TypeOK, [Next]_vars, NEW profile, Timed(profile)
    PROVE  Timed(profile)'
<1>1. \A p \in Requests : pc[p] # "idle" =>
         pc'[p] # "idle" /\ body'[p] = body[p] /\ stale \subseteq stale'
  BY PutsStay
<1>2. QED
  BY <1>1 DEF Timed, IncomeTimed, CreditTimed

\* A flush: the time it writes is its own, and so is the amount next to it if
\* it writes to the row it had loaded.
LEMMA StatedTimed ==
    ASSUME TypeOK, NEW r \in Requests, NEW after, after = Stated(r), TakeLock(r, after)
    PROVE  Timed(after)'
<1>1. body' = body /\ pc'[r] = "commit"
  BY DEF TakeLock, Goto, TypeOK
<1>2. IncomeTimed(after)' /\ CreditTimed(after)'
  BY <1>1 DEF IncomeTimed, CreditTimed, Stated, ConfirmedAt
<1>3. QED
  BY <1>2 DEF Timed

\* The times of a row that was loaded are those of other PUTs.
LEMMA LoadedOlder ==
    ASSUME TimedInv, NEW r \in Requests, pc[r] = "flush", loaded[r] # Missing
    PROVE  /\ loaded[r].net_monthly_income_confirmed_at # r
           /\ loaded[r].existing_credit_confirmed_at # r
<1>1. \A c \in Columns : \E p \in accepted : loaded[r][c] = Stated(p)[c]
  BY DEF TimedInv, TimesHold, Backed
<1>2. r \notin accepted /\ r # Null
  BY FinancialsAssumption DEF TimedInv, ShownInv, ColumnsInv, AcceptedDone
<1>3. \A p \in accepted : /\ Stated(p).net_monthly_income_confirmed_at \in {p, Null}
                          /\ Stated(p).existing_credit_confirmed_at \in {p, Null}
  BY DEF Stated, ConfirmedAt
<1>4. QED
  BY <1>1, <1>2, <1>3 DEF Columns

LEMMA UpdatedTimed ==
    ASSUME TimedInv, NEW r \in Requests, pc[r] = "flush", row # Missing, loaded[r] # Missing,
           NEW after, after = Updated(r), TakeLock(r, after)
    PROVE  Timed(after)'
<1>1. TypeOK /\ IncomeTimed(row) /\ CreditTimed(row)
  BY DEF TimedInv, TimesHold, Timed, ShownInv, ColumnsInv, FinInv
<1>2. /\ pc' = [pc EXCEPT ![r] = "commit"] /\ UNCHANGED <<row, body, loaded>>
      /\ stale \subseteq stale' /\ (r \notin stale' => loaded[r] = row)
  BY DEF TakeLock, Goto, NoteStale
<1>3. /\ pc'[r] # "idle"
      /\ \A p \in Requests : pc[p] # "idle" => pc'[p] # "idle"
  BY <1>1, <1>2 DEF TypeOK
<1>4. after = Updated(r)
  OBVIOUS
<1>5. r \notin stale' => Updated(r) = Stated(r)
  BY <1>1, <1>2, UpdatedIsStated
<1>6. /\ Updated(r).net_monthly_income \in {Stated(r).net_monthly_income, row.net_monthly_income}
      /\ Updated(r).net_monthly_income_confirmed_at =
           IF loaded[r].net_monthly_income_confirmed_at # Stated(r).net_monthly_income_confirmed_at
             THEN Stated(r).net_monthly_income_confirmed_at
             ELSE row.net_monthly_income_confirmed_at
      /\ Updated(r).existing_credit_monthly
           \in {Stated(r).existing_credit_monthly, row.existing_credit_monthly}
      /\ Updated(r).existing_credit_confirmed_at =
           IF loaded[r].existing_credit_confirmed_at # Stated(r).existing_credit_confirmed_at
             THEN Stated(r).existing_credit_confirmed_at
             ELSE row.existing_credit_confirmed_at
  BY DEF Updated, Changed, Columns
<1>7. IncomeTimed(after)'
  <2>1. /\ Stated(r).net_monthly_income = body[r].income
        /\ Stated(r).net_monthly_income_confirmed_at = ConfirmedAt(body[r].income, r)
    BY DEF Stated
  <2>2. CASE body[r].income = Null
    BY <1>1, <1>2, <1>3, <1>4, <1>6, <2>1, <2>2 DEF IncomeTimed, ConfirmedAt
  <2>3. CASE body[r].income # Null
    <3>1. Updated(r).net_monthly_income_confirmed_at = r
      BY <1>6, <2>1, <2>3, LoadedOlder DEF ConfirmedAt
    <3>2. QED
      BY <1>2, <1>3, <1>4, <1>5, <2>1, <3>1 DEF IncomeTimed
  <2>4. QED
    BY <2>2, <2>3
<1>8. CreditTimed(after)'
  <2>1. /\ Stated(r).existing_credit_monthly = body[r].credit
        /\ Stated(r).existing_credit_confirmed_at = ConfirmedAt(body[r].credit, r)
    BY DEF Stated
  <2>2. CASE body[r].credit = Null
    BY <1>1, <1>2, <1>3, <1>4, <1>6, <2>1, <2>2 DEF CreditTimed, ConfirmedAt
  <2>3. CASE body[r].credit # Null
    <3>1. Updated(r).existing_credit_confirmed_at = r
      BY <1>6, <2>1, <2>3, LoadedOlder DEF ConfirmedAt
    <3>2. QED
      BY <1>2, <1>3, <1>4, <1>5, <2>1, <3>1 DEF CreditTimed
  <2>4. QED
    BY <2>2, <2>3
<1>9. QED
  BY <1>7, <1>8 DEF Timed

\* What a step leaves of a request that it does not move.
LEMMA TimedElsewhere ==
    ASSUME TimedInv, [Next]_vars, NEW q \in Requests,
           pc'[q] = pc[q], shown'[q] = shown[q], loaded'[q] = loaded[q]
    PROVE  /\ pc'[q] = "flush" => Backed(loaded[q])'
           /\ pc'[q] \in {"commit", "assess", "ok"} => Timed(shown[q])'
<1>1. ColumnsInv /\ TypeOK
  BY DEF TimedInv, ShownInv, ColumnsInv, FinInv
<1>2. pc'[q] = "flush" => Backed(loaded[q])'
  BY <1>1, BackedStays DEF TimedInv, TimesHold
<1>3. pc'[q] \in {"commit", "assess", "ok"} => Timed(shown[q])'
  BY <1>1, TimedStays DEF TimedInv, TimesHold
<1>4. QED
  BY <1>2, <1>3

LEMMA TimedStep == TimedInv /\ [Next]_vars => TimedInv'
<1> SUFFICES ASSUME TimedInv, [Next]_vars PROVE TimedInv'
  OBVIOUS
<1> DEFINE Right(q) == /\ pc'[q] = "flush" => Backed(loaded[q])'
                       /\ pc'[q] \in {"commit", "assess", "ok"} => Timed(shown[q])'
           Rest == Timed(row)' /\ \A q \in Requests : Right(q)
<1>1. ShownInv' /\ ColumnsInv /\ TypeOK /\ NeverGone
  BY ShownStep DEF TimedInv, ShownInv, ColumnsInv, FinInv
<1>2. Backed(row) /\ Timed(row)
  BY <1>1 DEF ColumnsInv, ColumnsSubmitted, Backed, TimedInv, TimesHold
<1>3. row' = row => Timed(row)'
  BY <1>1, <1>2, TimedStays
<1>4. ASSUME NEW r \in Requests,
             \/ Get(r) \/ ReadApplication(r) \/ InsertRefused(r) \/ BusyTimeout(r)
             \/ \E b \in Bodies : Put(r, b)
      PROVE  Rest
  <2>1. UNCHANGED <<row, shown, loaded>>
    BY <1>4 DEF Get, ReadApplication, InsertRefused, BusyTimeout, Put
  <2>2. /\ pc'[r] \notin {"flush", "commit", "assess", "ok"}
        /\ \A q \in Requests : q # r => pc'[q] = pc[q]
    BY <1>1, <1>4 DEF Get, ReadApplication, InsertRefused, BusyTimeout, Put, Goto, TypeOK
  <2>3. QED
    BY <1>3, <2>1, <2>2, TimedElsewhere
<1>5. ASSUME NEW r \in Requests, LoadRow(r) PROVE Rest
  <2>1. /\ UNCHANGED <<row, shown>> /\ pc'[r] = "flush" /\ loaded'[r] = row
        /\ \A q \in Requests : q # r => pc'[q] = pc[q] /\ loaded'[q] = loaded[q]
    BY <1>1, <1>5 DEF LoadRow, Goto, TypeOK
  <2>2. Right(r)
    BY <1>1, <1>2, <2>1, BackedStays
  <2>3. QED
    BY <1>3, <2>1, <2>2, TimedElsewhere
<1>6. ASSUME NEW r \in Requests, GetFinancials(r) \/ FlushNothing(r) PROVE Rest
  <2>1. /\ UNCHANGED <<row, loaded>> /\ pc'[r] = "assess" /\ shown'[r] = row
        /\ \A q \in Requests : q # r => pc'[q] = pc[q] /\ shown'[q] = shown[q]
    BY <1>1, <1>6 DEF GetFinancials, FlushNothing, Goto, TypeOK
  <2>2. Right(r)
    BY <1>1, <1>2, <2>1, TimedStays
  <2>3. QED
    BY <1>3, <2>1, <2>2, TimedElsewhere
<1>7. ASSUME NEW r \in Requests, FlushInsert(r) \/ FlushUpdate(r) PROVE Rest
  <2>1. PICK after : TakeLock(r, after) /\ Timed(after)'
    <3>1. CASE FlushInsert(r)
      BY <1>1, <3>1, StatedTimed DEF FlushInsert
    <3>2. CASE FlushUpdate(r)
      <4>1. pc[r] = "flush" /\ loaded[r] # Missing /\ row # Missing /\ TakeLock(r, Updated(r))
        BY <1>1, <3>2 DEF FlushUpdate, Updated, NeverGone
      <4>2. QED
        BY <4>1, UpdatedTimed
    <3>3. QED
      BY <1>7, <3>1, <3>2
  <2>2. /\ UNCHANGED <<row, loaded>> /\ pc'[r] = "commit" /\ shown'[r] = after
        /\ \A q \in Requests : q # r => pc'[q] = pc[q] /\ shown'[q] = shown[q]
    BY <1>1, <2>1 DEF TakeLock, Goto, TypeOK
  <2>3. Right(r)
    BY <2>1, <2>2
  <2>4. QED
    BY <1>3, <2>2, <2>3, TimedElsewhere
<1>8. ASSUME NEW r \in Requests, Commit(r) \/ Respond(r) PROVE Rest
  <2>1. /\ UNCHANGED <<shown, loaded>>
        /\ pc[r] \in {"commit", "assess"} /\ pc'[r] \in {"assess", "ok"}
        /\ \A q \in Requests : q # r => pc'[q] = pc[q]
    BY <1>1, <1>8 DEF Commit, Respond, Goto, TypeOK
  <2>2. Timed(shown[r]) /\ row' \in {row, shown[r]}
    BY <1>8, <2>1 DEF TimedInv, TimesHold, ShownInv, ShownBacked, Commit, Respond
  <2>3. Right(r) /\ Timed(row)'
    BY <1>1, <1>3, <2>1, <2>2, TimedStays
  <2>4. QED
    BY <2>1, <2>3, TimedElsewhere
<1>9. ASSUME NEW r \in Requests, Fault(r) PROVE Rest
  <2>1. /\ UNCHANGED <<row, shown, loaded>> /\ pc'[r] = "failed"
        /\ \A q \in Requests : q # r => pc'[q] = pc[q]
    BY <1>1, <1>9 DEF Fault, Rollback, Goto, TypeOK
  <2>2. QED
    BY <1>3, <2>1, TimedElsewhere
<1>10. ASSUME EditFile \/ Quiet \/ UNCHANGED vars PROVE Rest
  <2>1. UNCHANGED <<row, pc, shown, loaded>>
    BY <1>10 DEF EditFile, Quiet, vars, control
  <2>2. QED
    BY <1>3, <2>1, TimedElsewhere
<1>11. Rest
  BY <1>4, <1>5, <1>6, <1>7, <1>8, <1>9, <1>10 DEF Next, Step
<1>12. QED
  BY <1>1, <1>11 DEF TimedInv, TimesHold

LEMMA TimedInvHolds == Spec => []TimedInv
  BY TimedInit, TimedStep, PTL DEF Spec

\* However overlapping PUTs mix the columns, a figure that is shown carries the
\* time of a committed PUT that confirmed it, next to that PUT's own amount
\* unless it flushed against a row it had not loaded (repository.py
\* upsert_financials, _to_confirmed_amount).
THEOREM FiguresAreConfirmed == Spec => []ShownIsConfirmed
<1>1. ASSUME TimedInv PROVE ShownIsConfirmed
  <2> SUFFICES ASSUME NEW r \in Requests, pc[r] = "ok", shown[r] # Missing
               PROVE  /\ Confirmed(Income(shown[r]), IncomeOf)
                      /\ Confirmed(Credit(shown[r]), CreditOf)
    BY DEF ShownIsConfirmed, Confirmed, Answer, Income, Credit
  <2>1. \A c \in Columns : \E p \in accepted : shown[r][c] = Stated(p)[c]
    BY <1>1 DEF TimedInv, ShownInv, ShownBacked, Backed
  <2>2. IncomeTimed(shown[r]) /\ CreditTimed(shown[r])
    BY <1>1 DEF TimedInv, TimesHold, Timed
  <2>3. /\ \E q \in accepted : shown[r].net_monthly_income = body[q].income
        /\ \E p \in accepted : shown[r].net_monthly_income_confirmed_at
                                 = ConfirmedAt(body[p].income, p)
        /\ \E q \in accepted : shown[r].existing_credit_monthly = body[q].credit
        /\ \E p \in accepted : shown[r].existing_credit_confirmed_at
                                 = ConfirmedAt(body[p].credit, p)
    BY <2>1 DEF Columns, Stated
  <2>4. Confirmed(Income(shown[r]), IncomeOf)
    <3> SUFFICES ASSUME Income(shown[r]) # Null
                 PROVE  LET p == Income(shown[r]).confirmed_at
                        IN  /\ Income(shown[r]).amount # Null
                            /\ p \in accepted /\ body[p].income # Null
                            /\ p \notin stale => Income(shown[r]).amount = body[p].income
                            /\ \E q \in accepted : Income(shown[r]).amount = body[q].income
      BY DEF Confirmed, IncomeOf
    <3>1. /\ shown[r].net_monthly_income # Null
          /\ shown[r].net_monthly_income_confirmed_at # Null
          /\ Income(shown[r]) = [amount |-> shown[r].net_monthly_income,
                                 confirmed_at |-> shown[r].net_monthly_income_confirmed_at]
      BY DEF Income, ToConfirmedAmount
    <3>2. QED
      BY <2>2, <2>3, <3>1 DEF IncomeTimed, ConfirmedAt
  <2>5. Confirmed(Credit(shown[r]), CreditOf)
    <3> SUFFICES ASSUME Credit(shown[r]) # Null
                 PROVE  LET p == Credit(shown[r]).confirmed_at
                        IN  /\ Credit(shown[r]).amount # Null
                            /\ p \in accepted /\ body[p].credit # Null
                            /\ p \notin stale => Credit(shown[r]).amount = body[p].credit
                            /\ \E q \in accepted : Credit(shown[r]).amount = body[q].credit
      BY DEF Confirmed, CreditOf
    <3>1. /\ shown[r].existing_credit_monthly # Null
          /\ shown[r].existing_credit_confirmed_at # Null
          /\ Credit(shown[r]) = [amount |-> shown[r].existing_credit_monthly,
                                 confirmed_at |-> shown[r].existing_credit_confirmed_at]
      BY DEF Credit, ToConfirmedAmount
    <3>2. QED
      BY <2>2, <2>3, <3>1 DEF CreditTimed, ConfirmedAt
  <2>6. QED
    BY <2>4, <2>5
<1>2. QED
  BY <1>1, TimedInvHolds, PTL

-----------------------------------------------------------------------------
(* The band *)

\* Rounding half up forgives less than a half: the rounded share is within a
\* limit exactly when the exact one is less than half a unit above it.
LEMMA RoundedWithin ==
    ASSUME NEW n \in Nat, NEW d \in Nat, d > 0, NEW limit \in Nat
    PROVE  /\ HalfUp(n, d) \in Nat
           /\ HalfUp(n, d) <= limit <=> 2 * (n - limit * d) < d
<1> DEFINE q == n \div d
           m == n % d
<1>1. q \in Nat /\ m \in Nat /\ m < d /\ n = d * q + m
  OBVIOUS
<1>2. HalfUp(n, d) = q + IF 2 * m >= d THEN 1 ELSE 0
  BY DEF HalfUp
<1> HIDE DEF q, m
<1>3. limit * d \in Nat /\ d * q \in Nat
  BY <1>1
<1>4. CASE q < limit
  <2>1. d * q + d <= limit * d
    <3>1. q + 1 <= limit
      BY <1>1, <1>4
    <3>2. d * (q + 1) <= d * limit
      BY <1>1, <3>1
    <3>3. QED
      BY <1>1, <3>2
  <2>2. 2 * (n - limit * d) < d
    BY <1>1, <1>3, <2>1
  <2>3. HalfUp(n, d) <= limit /\ HalfUp(n, d) \in Nat
    BY <1>1, <1>2, <1>4
  <2>4. QED
    BY <2>2, <2>3
<1>5. CASE q = limit
  <2>1. n - limit * d = m
    BY <1>1, <1>3, <1>5
  <2>2. QED
    BY <1>1, <1>2, <1>5, <2>1
<1>6. CASE limit < q
  <2>1. limit * d + d <= d * q
    <3>1. limit + 1 <= q
      BY <1>1, <1>6
    <3>2. d * (limit + 1) <= d * q
      BY <1>1, <3>1
    <3>3. QED
      BY <1>1, <3>2
  <2>2. ~(2 * (n - limit * d) < d)
    BY <1>1, <1>3, <2>1
  <2>3. ~(HalfUp(n, d) <= limit) /\ HalfUp(n, d) \in Nat
    BY <1>1, <1>2, <1>6
  <2>4. QED
    BY <2>2, <2>3
<1>7. QED
  BY <1>1, <1>4, <1>5, <1>6

\* The less comfortable of the two bands is comfortable when both are, and out
\* of the norms when either is.
LEMMA WorseOfBoth ==
    ASSUME NEW share \in Nat, NEW residual \in Int, NEW floor \in Nat
    PROVE  LET band == Worse(DstiBand(share), ResidualBand(residual, floor))
           IN  /\ band = "COMFORTABLE" <=> share <= 3300 /\ 10 * residual >= 11 * floor
               /\ band = "OUTSIDE_TYPICAL_NORMS" <=> ~(share <= 4000) \/ ~(residual >= floor)
<1>1. /\ DstiBand(share) = "COMFORTABLE" <=> share <= 3300
      /\ DstiBand(share) = "OUTSIDE_TYPICAL_NORMS" <=> ~(share <= 4000)
      /\ DstiBand(share) \in {"COMFORTABLE", "TIGHT", "OUTSIDE_TYPICAL_NORMS"}
  BY DEF DstiBand
<1>2. /\ ResidualBand(residual, floor) = "COMFORTABLE" <=> 10 * residual >= 11 * floor
      /\ ResidualBand(residual, floor) = "OUTSIDE_TYPICAL_NORMS" <=> ~(residual >= floor)
      /\ ResidualBand(residual, floor) \in {"COMFORTABLE", "TIGHT", "OUTSIDE_TYPICAL_NORMS"}
  BY DEF ResidualBand
<1>3. ASSUME NEW first \in {"COMFORTABLE", "TIGHT", "OUTSIDE_TYPICAL_NORMS"},
             NEW second \in {"COMFORTABLE", "TIGHT", "OUTSIDE_TYPICAL_NORMS"}
      PROVE  /\ Worse(first, second) = "COMFORTABLE"
                  <=> first = "COMFORTABLE" /\ second = "COMFORTABLE"
             /\ Worse(first, second) = "OUTSIDE_TYPICAL_NORMS"
                  <=> first = "OUTSIDE_TYPICAL_NORMS" \/ second = "OUTSIDE_TYPICAL_NORMS"
  BY DEF Worse, Severity
<1>4. QED
  BY <1>1, <1>2, <1>3

\* What BandJustified asks of an income and an assessment.
Justified(income, a) ==
    IF income \in {Null, 0}
      THEN a.band = "INSUFFICIENT_DATA" /\ a.dsti = Null /\ a.residual_income = Null
      ELSE /\ a.band = "COMFORTABLE" <=>
                /\ Within(a.monthly_obligations, income, 3300)
                /\ 10 * (income - a.monthly_obligations) >= 11 * a.residual_floor
           /\ a.band = "OUTSIDE_TYPICAL_NORMS" <=>
                \/ ~Within(a.monthly_obligations, income, 4000)
                \/ ~(10 * (income - a.monthly_obligations) >= 10 * a.residual_floor)
           /\ a.dsti # Null /\ a.residual_income # Null

LEMMA AssessFacts ==
    ASSUME NEW income \in Amount, NEW credit \in Amount, NEW dependants \in 0..20,
           NEW adults \in Nat, NEW payment \in Nat
    PROVE  Justified(income, Assess(income, credit, dependants, adults, payment))
<1> DEFINE a == Assess(income, credit, dependants, adults, payment)
           obligations == payment + IF credit = Null THEN 0 ELSE credit
           floor == ResidualFloor(adults, dependants)
           dsti == HalfUp(obligations * 10000, income)
           residual == income - obligations
<1>1. obligations \in Nat /\ floor \in Nat
  BY DEF Amount, ResidualFloor, AtLeast
<1>2. CASE income \in {Null, 0}
  BY <1>2 DEF Assess, Justified
<1>3. CASE income \notin {Null, 0}
  <2>1. income \in Nat /\ income > 0
    BY <1>3 DEF Amount
  <2>2. a = [band |-> Worse(DstiBand(dsti), ResidualBand(residual, floor)),
             dsti |-> dsti, monthly_obligations |-> obligations,
             residual_income |-> residual, residual_floor |-> floor]
    BY <1>3, <2>1 DEF Assess
  <2> HIDE DEF a, obligations, floor
  <2>3. residual \in Int /\ obligations * 10000 \in Nat
    BY <1>1, <2>1
  <2>4. /\ dsti \in Nat
        /\ dsti <= 3300 <=> Within(obligations, income, 3300)
        /\ dsti <= 4000 <=> Within(obligations, income, 4000)
    BY <1>1, <2>1, <2>3, RoundedWithin DEF Within
  <2> HIDE DEF dsti
  <2>5. /\ a.band = "COMFORTABLE" <=> dsti <= 3300 /\ 10 * residual >= 11 * floor
        /\ a.band = "OUTSIDE_TYPICAL_NORMS" <=> ~(dsti <= 4000) \/ ~(residual >= floor)
    BY <1>1, <2>2, <2>3, <2>4, WorseOfBoth
  <2>6. 10 * residual >= 10 * floor <=> residual >= floor
    BY <1>1, <2>3
  <2>7. a.dsti # Null /\ a.residual_income # Null
    BY <2>2, <2>3, <2>4, FinancialsAssumption
  <2>8. a.monthly_obligations = obligations /\ a.residual_floor = floor
    BY <2>2
  <2>9. residual = income - a.monthly_obligations
    BY <2>8
  <2> HIDE DEF residual
  <2>10. Justified(income, a)
    BY <1>3, <2>4, <2>5, <2>6, <2>7, <2>8, <2>9 DEF Justified
  <2>11. QED
    BY <2>10 DEF a
<1>4. QED
  BY <1>2, <1>3

\* For every profile and every loan, the band an answer gives is the one its
\* own figures justify by both norms, and there is none without an income
\* (affordability.py assess).
THEOREM BandsJustified == Spec => []BandJustified
<1>1. ASSUME TypeOK PROVE BandJustified
  <2> SUFFICES ASSUME NEW r \in Requests, Answer(r).assessment # Null
               PROVE  Justified(AmountOf(Answer(r).income), Answer(r).assessment)
    BY DEF BandJustified, Justified
  <2> DEFINE income == AmountOf(Income(shown[r]))
             credit == AmountOf(Credit(shown[r]))
             adults == AtLeast(1, read[r].borrowers)
  <2>1. shown[r] \in Row \cup {Missing} /\ read[r] \in [payment : Amount, borrowers : Nat]
    BY <1>1, FinancialsAssumption DEF TypeOK
  <2>2. income \in Amount
    BY <2>1 DEF Income, ToConfirmedAmount, AmountOf, Amount, Row
  <2>3. credit \in Amount
    BY <2>1 DEF Credit, ToConfirmedAmount, AmountOf, Amount, Row
  <2>4. Dependants(shown[r]) \in 0..20
    BY <2>1 DEF Dependants, Row
  <2>5. adults \in Nat
    BY <2>1 DEF AtLeast
  <2>6. Answer(r).income = Income(shown[r]) /\ Answer(r).assessment = Assessment(r)
    BY DEF Answer
  <2>7. read[r].payment \in Nat /\ Assessment(r) =
          Assess(income, credit, Dependants(shown[r]), adults, read[r].payment)
    BY <2>1, <2>6 DEF Assessment, Amount
  <2> HIDE DEF income, credit, adults
  <2>8. AmountOf(Answer(r).income) = income
    BY <2>6 DEF income
  <2>9. QED
    BY <2>2, <2>3, <2>4, <2>5, <2>6, <2>7, <2>8, AssessFacts
<1>2. QED
  BY <1>1, TypeCorrect, PTL
=============================================================================

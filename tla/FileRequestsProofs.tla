------------------------- MODULE FileRequestsProofs -------------------------
(***************************************************************************)
(* Theorems about FileRequests for every set of applications, requests and *)
(* rule tables: the state is well typed, every document row has its file,  *)
(* and the concurrent handlers implement the indivisible file: every step  *)
(* is a step of AtomicFile on the committed tables, or leaves them alone.  *)
(* What a submission needs and what a status may do follow from it.        *)
(***************************************************************************)
EXTENDS FileRequests, TLAPS

-----------------------------------------------------------------------------
(* What the operators on files return. *)

LEMMA RecomputeKeeps ==
    ASSUME NEW file \in File, NEW a \in Apps
    PROVE  /\ Recompute(file, a) \in File
           /\ Recompute(file, a).docs = file.docs
           /\ \A b \in Apps :
                /\ Recompute(file, a).apps[b].property = file.apps[b].property
                /\ Recompute(file, a).apps[b].status # file.apps[b].status
                     => file.apps[b].status \in UploadOpenStates
<1>1. Recomputed(file, a) \in Status
  BY DEF Recomputed, File, Application, Status
<1>2. Recomputed(file, a) # file.apps[a].status => file.apps[a].status \in UploadOpenStates
  BY DEF Recomputed
<1>3. QED
  BY <1>1, <1>2 DEF Recompute, File, Application

LEMMA StatedPropertyType ==
    ASSUME TypeOK, NEW r \in Requests, op[r].kind = "patch"
    PROVE  StatedProperty(r) \in PropertyType
<1>1. op[r] \in Patch
  BY DEF TypeOK, Op, Patch, Submit, Upload, Delete, Download, NoOp
<1>2. seen[r].property \in PropertyType \cup {NoProperty}
  BY DEF TypeOK, Application
<1>3. QED
  BY <1>1, <1>2, RequestsAssumption DEF StatedProperty, Patch

\* What a PATCH makes of an application row.
LEMMA PatchedRow ==
    ASSUME TypeOK, NEW r \in Requests, op[r].kind = "patch", NEW app \in Application
    PROVE  /\ WithProperty(r, WithBorrowers(r, app)) \in Application
           /\ WithProperty(r, WithBorrowers(r, app)).status = app.status
           /\ app.property # NoProperty =>
                WithProperty(r, WithBorrowers(r, app)).property # NoProperty
<1>1. op[r].people \subseteq Person
  BY DEF TypeOK, Op, Patch, Submit, Upload, Delete, Download, NoOp
<1>2. {[person |-> p, batch |-> r] : p \in op[r].people} \subseteq BorrowerRow
  BY <1>1 DEF BorrowerRow
<1>3. app.borrowers \ seen[r].borrowers \subseteq BorrowerRow
  BY DEF Application
<1>4. /\ WithBorrowers(r, app) \in Application
      /\ WithBorrowers(r, app).status = app.status
      /\ WithBorrowers(r, app).property = app.property
  BY <1>2, <1>3 DEF WithBorrowers, Application
<1>5. StatedProperty(r) \in PropertyType
  BY StatedPropertyType
<1>6. QED
  BY <1>4, <1>5, ChecklistAssumption DEF WithProperty, Application

-----------------------------------------------------------------------------
(* Type correctness. *)

LEMMA OpTypes ==
    ASSUME TypeOK, NEW r \in Requests
    PROVE  /\ op[r].kind = "patch" => op[r] \in Patch
           /\ op[r].kind = "submit" => op[r] \in Submit
           /\ op[r].kind = "upload" => op[r] \in Upload
           /\ op[r].kind = "delete" => op[r] \in Delete
           /\ op[r].kind = "download" => op[r] \in Download
  BY DEF TypeOK, Op, Patch, Submit, Upload, Delete, Download, NoOp

LEMMA DraftType == Draft \in Application
  BY DEF Draft, Application, Status

\* The tables a writer leaves are tables.
LEMMA WrittenTypes ==
    ASSUME TypeOK, NEW r \in Requests
    PROVE  /\ WritePatch(r) => txn' \in File
           /\ WriteSubmit(r) => txn' \in File
           /\ WriteUpload(r) => txn' \in File
           /\ WriteDelete(r) => txn' \in File
<1>1. ASSUME WritePatch(r) PROVE txn' \in File
  <2>1. op[r].app \in Apps
    BY <1>1, OpTypes DEF WritePatch, Patch
  <2>2. WithProperty(r, WithBorrowers(r, db.apps[op[r].app])) \in Application
    BY <1>1, <2>1, PatchedRow DEF WritePatch, TypeOK, File
  <2>3. QED
    BY <1>1, <2>1, <2>2 DEF WritePatch, TakeLock, TypeOK, File
<1>2. ASSUME WriteSubmit(r) PROVE txn' \in File
  <2>1. op[r].app \in Apps
    BY <1>2, OpTypes DEF WriteSubmit, Submit
  <2>2. [db.apps[op[r].app] EXCEPT !.status = "DOCUMENTS_PENDING"] \in Application
    BY <2>1 DEF TypeOK, File, Application, Status
  <2>3. QED
    BY <1>2, <2>1, <2>2 DEF WriteSubmit, TakeLock, TypeOK, File
<1>3. ASSUME WriteUpload(r) PROVE txn' \in File
  <2>1. op[r].app \in Apps /\ op[r].doc_type \in DocumentType
    BY <1>3, OpTypes DEF WriteUpload, Upload
  <2>2. [id |-> r, app |-> op[r].app, doc_type |-> op[r].doc_type] \in Document
    BY <2>1 DEF Document
  <2>3. [db EXCEPT !.docs = @ \cup
           {[id |-> r, app |-> op[r].app, doc_type |-> op[r].doc_type]}] \in File
    BY <2>2 DEF TypeOK, File
  <2>4. QED
    BY <1>3, <2>1, <2>3, RecomputeKeeps DEF WriteUpload, TakeLock
<1>4. ASSUME WriteDelete(r) PROVE txn' \in File
  <2>1. op[r].app \in Apps
    BY <1>4, OpTypes DEF WriteDelete, Delete
  <2>2. [db EXCEPT !.docs = {d \in @ : d.id # op[r].id}] \in File
    BY DEF TypeOK, File
  <2>3. QED
    BY <1>4, <2>1, <2>2, RecomputeKeeps DEF WriteDelete, TakeLock
<1>5. QED
  BY <1>1, <1>2, <1>3, <1>4

LEMMA TypeStep == TypeOK /\ [Next]_vars => TypeOK'
<1> SUFFICES ASSUME TypeOK, [Next]_vars PROVE TypeOK'
  OBVIOUS
<1> USE DEF TypeOK, InFlight, Answered
<1>1. ASSUME NEW r \in Requests, NEW o \in Asked, Start(r, o) PROVE TypeOK'
  BY <1>1, AskedAssumption DEF Start, Goto
<1>2. ASSUME NEW r \in Requests, ReadPatch(r) PROVE TypeOK'
  <2>1. op[r].app \in Apps
    BY <1>2, OpTypes DEF ReadPatch, Patch
  <2>2. Row(r) \in Application
    BY <2>1 DEF Row, File
  <2>3. QED
    BY <1>2, <2>2 DEF ReadPatch, Goto
<1>3. ASSUME NEW r \in Requests,
             ReadSubmit(r) \/ ReadUpload(r) \/ ReadDocument(r) \/ ReloadSubmit(r)
      PROVE  TypeOK'
  BY <1>3 DEF ReadSubmit, ReadUpload, ReadDocument, ReloadSubmit, Goto
<1>4. ASSUME NEW r \in Requests, LoadBorrowers(r) PROVE TypeOK'
  <2>1. op[r].app \in Apps
    BY <1>4, OpTypes DEF LoadBorrowers, Patch
  <2>2. Row(r).borrowers \subseteq BorrowerRow
    BY <2>1 DEF Row, File, Application
  <2>3. QED
    BY <1>4, <2>2 DEF LoadBorrowers, Goto, Application
<1>5. ASSUME NEW r \in Requests, ReloadPatch(r) PROVE TypeOK'
  BY <1>5, DraftType DEF ReloadPatch, Goto, Forget
<1>6. ASSUME NEW r \in Requests,
             SaveBlob(r) \/ SaveFails(r) \/ UnlinkBlob(r) \/ LoadBlob(r)
      PROVE  TypeOK'
  BY <1>6 DEF SaveBlob, SaveFails, UnlinkBlob, LoadBlob, Goto
<1>7. ASSUME NEW r \in Requests,
             WritePatch(r) \/ WriteSubmit(r) \/ WriteUpload(r) \/ WriteDelete(r)
      PROVE  TypeOK'
  <2>1. txn' \in File
    BY <1>7, WrittenTypes
  <2>2. PICK after : TakeLock(r, after)
    BY <1>7 DEF WritePatch, WriteSubmit, WriteUpload, WriteDelete
  <2>3. QED
    BY <2>1, <2>2, DraftType DEF TakeLock, Goto, Forget
<1>8. ASSUME NEW r \in Requests, BusyTimeout(r) PROVE TypeOK'
  BY <1>8, DraftType DEF BusyTimeout, Goto, Forget
<1>9. ASSUME NEW r \in Requests, Commit(r) PROVE TypeOK'
  BY <1>9 DEF Commit, Goto, Unlock
<1>10. ASSUME NEW r \in Requests, RefuseSimulation(r) PROVE TypeOK'
  BY <1>10, DraftType DEF RefuseSimulation, Rollback, Goto, Forget, Unlock
<1>11. ASSUME NEW r \in Requests, Fault(r) PROVE TypeOK'
  BY <1>11, DraftType DEF Fault, Rollback, Goto, Forget, Unlock
<1>12. CASE Crash
  BY <1>12, DraftType DEF Crash, Unlock
<1>13. CASE UNCHANGED vars
  BY <1>13 DEF vars
<1>14. QED
  BY <1>1, <1>2, <1>3, <1>4, <1>5, <1>6, <1>7, <1>8, <1>9, <1>10, <1>11, <1>12, <1>13
     DEF Next, Step, Quiet

\* The tables, the lock, the blobs and every request's state keep their types.
THEOREM TypeCorrect == Spec => []TypeOK
<1>1. Init => TypeOK
  BY DraftType DEF Init, TypeOK, File, Op
<1>2. QED
  BY <1>1, TypeStep, PTL DEF Spec

-----------------------------------------------------------------------------
(* Every document row has its blob. *)

\* A step that moves one request along and leaves tables, lock and blobs alone
\* keeps the invariant, provided it promises what "write" asks for.
LEMMA MoveKeepsBlobInv ==
    ASSUME TypeOK, BlobInv, NEW r \in Requests, NEW label,
           Goto(r, label), UNCHANGED <<db, txn, writer, blobs, op>>,
           pc[r] \in {"read", "borrowers", "reload", "write", "load"},
           label \notin {"commit", "unlink"},
           label = "write" => /\ op[r].kind # "upload"
                              /\ op[r].kind = "delete" =>
                                   op[r].id \in Requests /\ pc[op[r].id] = "ok"
    PROVE  BlobInv'
<1> USE DEF TypeOK, Goto
<1>1. /\ \A q \in Requests : q # r => pc'[q] = pc[q]
      /\ pc'[r] = label
      /\ \A q \in Requests : pc[q] = "ok" => pc'[q] = "ok"
  OBVIOUS
<1>2. LockHeld'
  BY <1>1 DEF BlobInv, LockHeld
<1>3. RowsSettled'
  BY <1>1 DEF BlobInv, RowsSettled, File, Document
<1>4. UploadsSaved'
  BY <1>1 DEF BlobInv, UploadsSaved
<1>5. DeletesSettled'
  BY <1>1 DEF BlobInv, DeletesSettled
<1>6. QED
  BY <1>2, <1>3, <1>4, <1>5 DEF BlobInv

\* So does one that gives the writer's tables up.
LEMMA RollbackKeepsBlobInv ==
    ASSUME TypeOK, BlobInv, NEW r \in Requests, NEW label \in {"refused", "failed"},
           Goto(r, label), Rollback(r), pc[r] \in InFlight
    PROVE  BlobInv'
<1> USE DEF TypeOK, Goto, Rollback, Unlock
<1>1. /\ \A q \in Requests : q # r => pc'[q] = pc[q]
      /\ pc'[r] = label
      /\ \A q \in Requests : pc[q] = "ok" => pc'[q] = "ok"
      /\ UNCHANGED <<db, blobs, op>>
  BY DEF InFlight
<1>2. \/ writer = r /\ writer' = NoRequest /\ txn' = db
      \/ writer # r /\ UNCHANGED <<txn, writer>>
  OBVIOUS
<1>3. LockHeld'
  BY <1>1, <1>2, RequestsAssumption DEF BlobInv, LockHeld
<1>4. RowsSettled'
  BY <1>1, <1>2 DEF BlobInv, RowsSettled, File, Document
<1>5. UploadsSaved'
  BY <1>1 DEF BlobInv, UploadsSaved
<1>6. DeletesSettled'
  <2>1. \A q \in Requests : pc'[q] = "commit" => q # r /\ writer = q /\ txn' = txn
    BY <1>1, <1>2 DEF BlobInv, LockHeld
  <2>2. QED
    BY <1>1, <2>1 DEF BlobInv, DeletesSettled
<1>7. QED
  BY <1>3, <1>4, <1>5, <1>6 DEF BlobInv

\* The document rows a handler's write leaves.
LEMMA WrittenDocs ==
    ASSUME TypeOK, NEW r \in Requests
    PROVE  /\ WritePatch(r) \/ WriteSubmit(r) => txn'.docs = db.docs
           /\ WriteUpload(r) =>
                txn'.docs = db.docs \cup
                  {[id |-> r, app |-> op[r].app, doc_type |-> op[r].doc_type]}
           /\ WriteDelete(r) => txn'.docs = {d \in db.docs : d.id # op[r].id}
<1>1. WritePatch(r) \/ WriteSubmit(r) => txn'.docs = db.docs
  BY DEF WritePatch, WriteSubmit, TakeLock, TypeOK, File
<1>2. ASSUME WriteUpload(r)
      PROVE  txn'.docs = db.docs \cup
               {[id |-> r, app |-> op[r].app, doc_type |-> op[r].doc_type]}
  <2> DEFINE d == [id |-> r, app |-> op[r].app, doc_type |-> op[r].doc_type]
  <2>1. op[r].app \in Apps /\ d \in Document
    BY <1>2, OpTypes DEF WriteUpload, Upload, Document
  <2>2. [db EXCEPT !.docs = @ \cup {d}] \in File
    BY <2>1 DEF TypeOK, File
  <2>3. QED
    BY <1>2, <2>1, <2>2, RecomputeKeeps DEF WriteUpload, TakeLock, TypeOK, File
<1>3. ASSUME WriteDelete(r) PROVE txn'.docs = {d \in db.docs : d.id # op[r].id}
  <2>1. op[r].app \in Apps
    BY <1>3, OpTypes DEF WriteDelete, Delete
  <2>2. [db EXCEPT !.docs = {d \in @ : d.id # op[r].id}] \in File
    BY DEF TypeOK, File
  <2>3. QED
    BY <1>3, <2>1, <2>2, RecomputeKeeps DEF WriteDelete, TakeLock, TypeOK, File
<1>4. QED
  BY <1>1, <1>2, <1>3

LEMMA WriteKeepsBlobInv ==
    ASSUME TypeOK, BlobInv, NEW r \in Requests,
           WritePatch(r) \/ WriteSubmit(r) \/ WriteUpload(r) \/ WriteDelete(r)
    PROVE  BlobInv'
<1> USE DEF TypeOK
<1>1. PICK after : TakeLock(r, after)
  BY DEF WritePatch, WriteSubmit, WriteUpload, WriteDelete
<1>2. /\ pc[r] = "write" /\ writer = NoRequest /\ writer' = r
      /\ pc'[r] = "commit"
      /\ \A q \in Requests : q # r => pc'[q] = pc[q] /\ pc[q] # "commit"
      /\ \A q \in Requests : pc[q] = "ok" => pc'[q] = "ok"
      /\ UNCHANGED <<db, blobs, op>>
  BY <1>1, RequestsAssumption DEF TakeLock, Goto, BlobInv, LockHeld
<1>3. \A d \in txn'.docs \ db.docs : d.id = r /\ op[r].kind = "upload"
  BY WrittenDocs DEF WriteUpload
<1>4. LockHeld'
  BY <1>2, RequestsAssumption DEF LockHeld
<1>5. RowsSettled'
  <2>1. op[r].kind = "upload" => r \in blobs
    BY <1>2 DEF BlobInv, UploadsSaved
  <2>2. QED
    BY <1>2, <1>3, <2>1 DEF BlobInv, RowsSettled, File, Document
<1>6. UploadsSaved'
  BY <1>2 DEF BlobInv, UploadsSaved
<1>7. DeletesSettled'
  <2>1. op[r].kind = "delete" => \A d \in txn'.docs : d.id # op[r].id
    BY WrittenDocs DEF WritePatch, WriteSubmit, WriteUpload, WriteDelete
  <2>2. QED
    BY <1>2, <2>1 DEF BlobInv, DeletesSettled
<1>8. QED
  BY <1>4, <1>5, <1>6, <1>7 DEF BlobInv

LEMMA BlobInvStep == TypeOK /\ BlobInv /\ [Next]_vars => BlobInv'
<1> SUFFICES ASSUME TypeOK, BlobInv, [Next]_vars PROVE BlobInv'
  OBVIOUS
<1>1. ASSUME NEW r \in Requests, NEW o \in Asked, Start(r, o) PROVE BlobInv'
  <2>1. /\ pc[r] = "idle" /\ pc'[r] = "read"
        /\ \A q \in Requests : q # r => pc'[q] = pc[q] /\ op'[q] = op[q]
        /\ \A q \in Requests : pc[q] = "ok" => pc'[q] = "ok"
        /\ UNCHANGED <<db, txn, writer, blobs>>
    BY <1>1 DEF Start, Goto, TypeOK
  <2>2. LockHeld'
    BY <2>1 DEF BlobInv, LockHeld
  <2>3. RowsSettled'
    BY <2>1 DEF BlobInv, LockHeld, RowsSettled, TypeOK, File, Document
  <2>4. UploadsSaved' /\ DeletesSettled'
    BY <2>1 DEF BlobInv, UploadsSaved, DeletesSettled
  <2>5. QED
    BY <2>2, <2>3, <2>4 DEF BlobInv
<1>2. ASSUME NEW r \in Requests, ReadPatch(r) PROVE BlobInv'
  BY <1>2, MoveKeepsBlobInv DEF ReadPatch
<1>3. ASSUME NEW r \in Requests, ReadSubmit(r) PROVE BlobInv'
  BY <1>3, MoveKeepsBlobInv DEF ReadSubmit
<1>4. ASSUME NEW r \in Requests, ReadUpload(r) PROVE BlobInv'
  BY <1>4, MoveKeepsBlobInv DEF ReadUpload
<1>5. ASSUME NEW r \in Requests, ReadDocument(r) PROVE BlobInv'
  <2>1. (\E d \in db.docs : d.id = op[r].id) => pc[op[r].id] = "ok" /\ op[r].id \in Requests
    BY DEF BlobInv, RowsSettled, TypeOK, File, Document
  <2>2. QED
    BY <1>5, <2>1, MoveKeepsBlobInv DEF ReadDocument
<1>6. ASSUME NEW r \in Requests, LoadBorrowers(r) PROVE BlobInv'
  BY <1>6, MoveKeepsBlobInv DEF LoadBorrowers
<1>7. ASSUME NEW r \in Requests, ReloadPatch(r) PROVE BlobInv'
  BY <1>7, MoveKeepsBlobInv DEF ReloadPatch
<1>8. ASSUME NEW r \in Requests, ReloadSubmit(r) PROVE BlobInv'
  BY <1>8, MoveKeepsBlobInv DEF ReloadSubmit
<1>9. ASSUME NEW r \in Requests, BusyTimeout(r) PROVE BlobInv'
  BY <1>9, MoveKeepsBlobInv DEF BusyTimeout
<1>10. ASSUME NEW r \in Requests, LoadBlob(r) PROVE BlobInv'
  BY <1>10, MoveKeepsBlobInv DEF LoadBlob
<1>11. ASSUME NEW r \in Requests, SaveBlob(r) \/ SaveFails(r) PROVE BlobInv'
  <2>1. /\ pc[r] = "save" /\ op[r].kind = "upload"
        /\ \/ pc'[r] = "write" /\ blobs' = blobs \cup {r}
           \/ pc'[r] = "failed" /\ blobs' \in {blobs, blobs \cup {r}}
        /\ \A q \in Requests : q # r => pc'[q] = pc[q]
        /\ \A q \in Requests : pc[q] = "ok" => pc'[q] = "ok"
        /\ UNCHANGED <<db, txn, writer, op>>
    BY <1>11 DEF SaveBlob, SaveFails, Goto, TypeOK
  <2>2. LockHeld'
    BY <2>1 DEF BlobInv, LockHeld
  <2>3. RowsSettled'
    BY <2>1 DEF BlobInv, RowsSettled, TypeOK, File, Document
  <2>4. UploadsSaved' /\ DeletesSettled'
    BY <2>1 DEF BlobInv, UploadsSaved, DeletesSettled
  <2>5. QED
    BY <2>2, <2>3, <2>4 DEF BlobInv
<1>12. ASSUME NEW r \in Requests,
              WritePatch(r) \/ WriteSubmit(r) \/ WriteUpload(r) \/ WriteDelete(r)
       PROVE  BlobInv'
  BY <1>12, WriteKeepsBlobInv
<1>13. ASSUME NEW r \in Requests, Commit(r) PROVE BlobInv'
  <2>1. /\ pc[r] = "commit" /\ pc'[r] = IF op[r].kind = "delete" THEN "unlink" ELSE "ok"
        /\ db' = txn /\ writer' = NoRequest
        /\ \A q \in Requests : q # r => pc'[q] = pc[q]
        /\ \A q \in Requests : pc[q] = "ok" => pc'[q] = "ok"
        /\ UNCHANGED <<txn, blobs, op>>
    BY <1>13 DEF Commit, Goto, Unlock, TypeOK
  <2>2. writer = r /\ \A q \in Requests : q # r => pc[q] # "commit"
    BY <2>1 DEF BlobInv, LockHeld
  <2>3. LockHeld'
    BY <2>1, <2>2, RequestsAssumption DEF LockHeld
  <2>4. RowsSettled'
    <3>1. \A d \in txn.docs \ db.docs : d.id = r /\ r \in blobs /\ op[r].kind = "upload"
      BY <2>2 DEF BlobInv, RowsSettled
    <3>2. QED
      BY <2>1, <2>2, <3>1 DEF BlobInv, RowsSettled, TypeOK, File, Document
  <2>5. UploadsSaved'
    BY <2>1 DEF BlobInv, UploadsSaved
  <2>6. DeletesSettled'
    <3>1. \A q \in Requests : pc[q] = "unlink" =>
             \A d \in txn.docs : d.id # op[q].id
      BY <2>1, <2>2 DEF BlobInv, DeletesSettled, RowsSettled, TypeOK
    <3>2. QED
      BY <2>1, <2>2, <3>1 DEF BlobInv, DeletesSettled
  <2>7. QED
    BY <2>3, <2>4, <2>5, <2>6 DEF BlobInv
<1>14. ASSUME NEW r \in Requests, RefuseSimulation(r) PROVE BlobInv'
  BY <1>14, RollbackKeepsBlobInv DEF RefuseSimulation, InFlight
<1>15. ASSUME NEW r \in Requests, UnlinkBlob(r) PROVE BlobInv'
  <2>1. /\ pc[r] = "unlink" /\ pc'[r] = "ok" /\ blobs' = blobs \ {op[r].id}
        /\ \A q \in Requests : q # r => pc'[q] = pc[q]
        /\ \A q \in Requests : pc[q] = "ok" => pc'[q] = "ok"
        /\ UNCHANGED <<db, txn, writer, op>>
    BY <1>15 DEF UnlinkBlob, Goto, TypeOK
  <2>2. /\ op[r].id \in Requests /\ pc[op[r].id] = "ok"
        /\ \A d \in db.docs : d.id # op[r].id
    BY <2>1 DEF BlobInv, DeletesSettled
  <2>3. \A d \in txn.docs : d.id # op[r].id
    BY <2>2 DEF BlobInv, RowsSettled, LockHeld
  <2>4. LockHeld'
    BY <2>1 DEF BlobInv, LockHeld
  <2>5. RowsSettled'
    BY <2>1, <2>2, <2>3 DEF BlobInv, RowsSettled, TypeOK, File, Document
  <2>6. UploadsSaved' /\ DeletesSettled'
    BY <2>1, <2>2 DEF BlobInv, UploadsSaved, DeletesSettled
  <2>7. QED
    BY <2>4, <2>5, <2>6 DEF BlobInv
<1>16. ASSUME NEW r \in Requests, Fault(r) PROVE BlobInv'
  BY <1>16, RollbackKeepsBlobInv DEF Fault
<1>17. CASE Crash
  <2>1. /\ \A q \in Requests : pc[q] = "ok" => pc'[q] = "ok"
        /\ \A q \in Requests : pc'[q] \notin {"write", "commit", "unlink"}
        /\ txn' = db /\ writer' = NoRequest
        /\ UNCHANGED <<db, blobs, op>>
    BY <1>17 DEF Crash, Unlock, Active, InFlight, TypeOK
  <2>2. LockHeld' /\ UploadsSaved' /\ DeletesSettled'
    BY <2>1, RequestsAssumption DEF LockHeld, UploadsSaved, DeletesSettled
  <2>3. RowsSettled'
    BY <2>1 DEF BlobInv, RowsSettled, TypeOK, File, Document
  <2>4. QED
    BY <2>2, <2>3 DEF BlobInv
<1>18. CASE UNCHANGED vars
  BY <1>18 DEF vars, BlobInv, LockHeld, RowsSettled, UploadsSaved, DeletesSettled
<1>19. QED
  BY <1>1, <1>2, <1>3, <1>4, <1>5, <1>6, <1>7, <1>8, <1>9, <1>10, <1>11, <1>12, <1>13,
     <1>14, <1>15, <1>16, <1>17, <1>18 DEF Next, Step, Quiet

LEMMA BlobInvInit == Init => BlobInv
  BY RequestsAssumption
     DEF Init, BlobInv, LockHeld, RowsSettled, UploadsSaved, DeletesSettled

\* Every document row, committed or being written, has its file on disk.
THEOREM RowsHaveBlobs == Spec => []RowHasBlob
<1>1. BlobInv => RowHasBlob
  BY DEF BlobInv, RowsSettled, RowHasBlob
<1>2. QED
  BY <1>1, BlobInvInit, BlobInvStep, TypeCorrect, PTL DEF Spec

-----------------------------------------------------------------------------
(* Every file without a row is accounted for. *)

\* A file belongs to an upload that got past its save; what the writer inserts is
\* its own row, and what it takes away is the row its delete names.
FilesNamed ==
    \A k \in blobs : op[k].kind = "upload" /\ pc[k] \in {"write", "commit", "ok", "failed"}

StagedRows ==
    \A r \in Requests : pc[r] = "commit" =>
       /\ op[r].kind = "upload" => \E d \in txn.docs : d.id = r
       /\ \A d \in db.docs \ txn.docs : op[r].kind = "delete" /\ op[r].id = d.id

OrphanInv == FilesNamed /\ StagedRows /\ OrphansExplained

\* A step of request r that neither commits nor unlinks keeps the invariant: it
\* leaves an upload's file to be inserted or gives it up, and a delete that was
\* about to unlink stays so or fails.
LEMMA MoveKeepsOrphanInv ==
    ASSUME TypeOK, BlobInv, OrphanInv, NEW r \in Requests, NEW label,
           Goto(r, label), UNCHANGED <<db, blobs>>,
           \A q \in Requests : q # r => op'[q] = op[q],
           op'[r] = op[r] \/ (pc[r] = "idle" /\ label = "read"),
           pc[r] \in {"idle"} \cup InFlight,
           pc[r] = "unlink" => label = "failed",
           pc[r] \in {"write", "commit"} /\ op[r].kind = "upload"
             => label \in {"commit", "failed"},
           label = "commit" => /\ writer = NoRequest
                               /\ op[r].kind = "upload" => \E d \in txn'.docs : d.id = r
                               /\ \A d \in db.docs \ txn'.docs :
                                     op[r].kind = "delete" /\ op[r].id = d.id,
           label # "commit" => txn' = txn \/ writer = r
    PROVE  OrphanInv'
<1> USE DEF TypeOK, Goto
<1>1. /\ \A q \in Requests : q # r => pc'[q] = pc[q]
      /\ pc'[r] = label
  OBVIOUS
<1>2. FilesNamed'
  BY <1>1 DEF OrphanInv, FilesNamed, InFlight
<1>3. StagedRows'
  <2>1. ASSUME NEW q \in Requests, q # r, pc[q] = "commit" PROVE txn' = txn
    BY <2>1, RequestsAssumption DEF BlobInv, LockHeld
  <2>2. pc'[r] = "commit" => op'[r] = op[r]
    BY <1>1
  <2>3. QED
    BY <1>1, <2>1, <2>2 DEF OrphanInv, StagedRows
<1>4. OrphansExplained'
  <2> SUFFICES ASSUME NEW k \in blobs
               PROVE  \/ k \in {d.id : d \in db.docs}
                      \/ pc'[k] \in {"write", "commit", "failed"}
                      \/ \E q \in Requests : /\ op'[q].kind = "delete" /\ op'[q].id = k
                                             /\ pc'[q] \in {"unlink", "failed"}
    BY DEF OrphansExplained
  <2>1. op[k].kind = "upload" /\ pc[k] # "idle"
    BY DEF OrphanInv, FilesNamed
  <2>2. CASE pc[k] \in {"write", "commit", "failed"}
    BY <1>1, <2>1, <2>2 DEF InFlight
  <2>3. ASSUME NEW q \in Requests, op[q].kind = "delete", op[q].id = k,
               pc[q] \in {"unlink", "failed"}
        PROVE  op'[q] = op[q] /\ pc'[q] \in {"unlink", "failed"}
    BY <1>1, <2>3 DEF InFlight
  <2>4. QED
    BY <2>2, <2>3 DEF OrphanInv, OrphansExplained
<1>5. QED
  BY <1>2, <1>3, <1>4 DEF OrphanInv

LEMMA OrphanInvStep == TypeOK /\ BlobInv /\ OrphanInv /\ [Next]_vars => OrphanInv'
<1> SUFFICES ASSUME TypeOK, BlobInv, OrphanInv, [Next]_vars PROVE OrphanInv'
  OBVIOUS
<1>1. ASSUME NEW r \in Requests, NEW o \in Asked, Start(r, o) PROVE OrphanInv'
  BY <1>1, MoveKeepsOrphanInv DEF Start, TypeOK
<1>2. ASSUME NEW r \in Requests,
             \/ ReadPatch(r) \/ ReadSubmit(r) \/ ReadUpload(r) \/ ReadDocument(r)
             \/ LoadBorrowers(r) \/ ReloadPatch(r) \/ ReloadSubmit(r)
             \/ BusyTimeout(r) \/ LoadBlob(r)
      PROVE  OrphanInv'
  <2>1. PICK label : /\ Goto(r, label)
                     /\ label \notin {"commit", "unlink"}
                     /\ pc[r] = "write" => label = "failed"
    BY <1>2 DEF ReadPatch, ReadSubmit, ReadUpload, ReadDocument, LoadBorrowers,
                ReloadPatch, ReloadSubmit, BusyTimeout, LoadBlob
  <2>2. /\ pc[r] \in InFlight \ {"commit", "unlink"}
        /\ UNCHANGED <<db, txn, blobs, op>>
    BY <1>2 DEF ReadPatch, ReadSubmit, ReadUpload, ReadDocument, LoadBorrowers,
                ReloadPatch, ReloadSubmit, BusyTimeout, LoadBlob, InFlight
  <2>3. QED
    BY <2>1, <2>2, MoveKeepsOrphanInv
<1>3. ASSUME NEW r \in Requests, SaveBlob(r) \/ SaveFails(r) PROVE OrphanInv'
  <2>1. /\ pc[r] = "save" /\ op[r].kind = "upload"
        /\ pc'[r] \in {"write", "failed"}
        /\ blobs' \in {blobs, blobs \cup {r}}
        /\ \A q \in Requests : q # r => pc'[q] = pc[q]
        /\ UNCHANGED <<db, txn, op>>
    BY <1>3 DEF SaveBlob, SaveFails, Goto, TypeOK
  <2>2. FilesNamed' /\ StagedRows'
    BY <2>1 DEF OrphanInv, FilesNamed, StagedRows, TypeOK
  <2>3. OrphansExplained'
    BY <2>1 DEF OrphanInv, FilesNamed, OrphansExplained, TypeOK
  <2>4. QED
    BY <2>2, <2>3 DEF OrphanInv
<1>4. ASSUME NEW r \in Requests,
             WritePatch(r) \/ WriteSubmit(r) \/ WriteUpload(r) \/ WriteDelete(r)
      PROVE  OrphanInv'
  <2>1. PICK after : TakeLock(r, after)
    BY <1>4 DEF WritePatch, WriteSubmit, WriteUpload, WriteDelete
  <2>2. ASSUME op[r].kind = "upload" PROVE \E d \in txn'.docs : d.id = r
    <3> DEFINE d == [id |-> r, app |-> op[r].app, doc_type |-> op[r].doc_type]
    <3>1. WriteUpload(r)
      BY <1>4, <2>2 DEF WritePatch, WriteSubmit, WriteDelete
    <3>2. d \in txn'.docs /\ d.id = r
      BY <3>1, WrittenDocs
    <3>3. QED
      BY <3>2
  <2>3. \A d \in db.docs \ txn'.docs : op[r].kind = "delete" /\ op[r].id = d.id
    BY <1>4, WrittenDocs DEF WriteDelete
  <2>4. /\ pc[r] = "write" /\ writer = NoRequest /\ Goto(r, "commit")
        /\ UNCHANGED <<db, blobs, op>>
    BY <2>1 DEF TakeLock
  <2>5. QED
    BY <2>2, <2>3, <2>4, MoveKeepsOrphanInv DEF InFlight
<1>5. ASSUME NEW r \in Requests, Commit(r) PROVE OrphanInv'
  <2>1. /\ pc[r] = "commit" /\ pc'[r] = IF op[r].kind = "delete" THEN "unlink" ELSE "ok"
        /\ db' = txn
        /\ \A q \in Requests : q # r => pc'[q] = pc[q] /\ pc[q] # "commit"
        /\ UNCHANGED <<txn, blobs, op>>
    BY <1>5 DEF Commit, Goto, TypeOK, BlobInv, LockHeld
  <2>2. FilesNamed' /\ StagedRows'
    BY <2>1 DEF OrphanInv, FilesNamed, StagedRows, TypeOK
  <2>3. ASSUME NEW k \in blobs
        PROVE  \/ k \in {d.id : d \in db'.docs}
               \/ pc'[k] \in {"write", "commit", "failed"}
               \/ \E q \in Requests : /\ op[q].kind = "delete" /\ op[q].id = k
                                      /\ pc'[q] \in {"unlink", "failed"}
    <3>1. CASE k = r
      BY <2>1, <3>1 DEF OrphanInv, FilesNamed, StagedRows
    <3>2. CASE pc[k] \in {"write", "commit", "failed"}
      BY <2>1, <3>1, <3>2 DEF TypeOK
    <3>3. ASSUME NEW d \in db.docs, d.id = k
          PROVE  k \in {e.id : e \in db'.docs} \/ (op[r].kind = "delete" /\ op[r].id = k)
      BY <2>1, <3>3 DEF OrphanInv, StagedRows
    <3>4. ASSUME NEW q \in Requests, op[q].kind = "delete", op[q].id = k,
                 pc[q] \in {"unlink", "failed"}
          PROVE  pc'[q] \in {"unlink", "failed"}
      BY <2>1, <3>4
    <3>5. QED
      BY <2>1, <3>2, <3>3, <3>4 DEF OrphanInv, OrphansExplained
  <2>4. QED
    BY <2>1, <2>2, <2>3 DEF OrphanInv, OrphansExplained
<1>6. ASSUME NEW r \in Requests, RefuseSimulation(r) \/ Fault(r) PROVE OrphanInv'
  <2>1. PICK label \in {"refused", "failed"} :
          /\ Goto(r, label) /\ Rollback(r) /\ pc[r] \in InFlight
          /\ label = "refused" => op[r].kind = "patch" /\ pc[r] # "unlink"
    BY <1>6 DEF RefuseSimulation, Fault, InFlight
  <2>2. /\ UNCHANGED <<db, blobs, op>>
        /\ txn' = txn \/ writer = r
    BY <2>1 DEF Rollback
  <2>3. QED
    BY <2>1, <2>2, MoveKeepsOrphanInv
<1>7. ASSUME NEW r \in Requests, UnlinkBlob(r) PROVE OrphanInv'
  <2>1. /\ pc[r] = "unlink" /\ pc'[r] = "ok" /\ blobs' = blobs \ {op[r].id}
        /\ op[r].kind = "delete"
        /\ \A q \in Requests : q # r => pc'[q] = pc[q]
        /\ UNCHANGED <<db, txn, op>>
    BY <1>7 DEF UnlinkBlob, Goto, TypeOK, BlobInv, DeletesSettled
  <2>2. FilesNamed' /\ StagedRows'
    BY <2>1 DEF OrphanInv, FilesNamed, StagedRows, TypeOK
  <2>3. OrphansExplained'
    BY <2>1 DEF OrphanInv, FilesNamed, OrphansExplained, TypeOK
  <2>4. QED
    BY <2>2, <2>3 DEF OrphanInv
<1>8. CASE Crash
  <2>1. /\ \A q \in Requests : pc'[q] = IF pc[q] \in InFlight THEN "failed" ELSE pc[q]
        /\ UNCHANGED <<db, blobs, op>>
    BY <1>8 DEF Crash, Active
  <2>2. FilesNamed' /\ StagedRows'
    BY <2>1 DEF OrphanInv, FilesNamed, StagedRows, TypeOK, InFlight
  <2>3. OrphansExplained'
    BY <2>1 DEF OrphanInv, OrphansExplained, TypeOK, InFlight
  <2>4. QED
    BY <2>2, <2>3 DEF OrphanInv
<1>9. CASE UNCHANGED vars
  BY <1>9 DEF vars, OrphanInv, FilesNamed, StagedRows, OrphansExplained
<1>10. QED
  BY <1>1, <1>2, <1>3, <1>4, <1>5, <1>6, <1>7, <1>8, <1>9 DEF Next, Step, Quiet

\* A file without a row is one an upload has not inserted yet or failed to
\* insert, or one a delete has not unlinked yet or failed to: nothing else leaks.
THEOREM OrphansAccounted == Spec => []OrphansExplained
<1>1. Init => OrphanInv
  BY DEF Init, OrphanInv, FilesNamed, StagedRows, OrphansExplained
<1>2. OrphanInv => OrphansExplained
  BY DEF OrphanInv
<1>3. QED
  BY <1>1, <1>2, OrphanInvStep, BlobInvInit, BlobInvStep, TypeCorrect, PTL DEF Spec

-----------------------------------------------------------------------------
(* The answer STORAGE_CORRUPT. *)

\* A download names a document that had a row, so its upload is over; once the
\* blob is found missing the row is gone, and nobody inserts it again.
DownloadsSettled ==
    \A r \in Requests :
       /\ pc[r] = "load" => op[r].id \in Requests /\ pc[op[r].id] = "ok"
       /\ pc[r] = "corrupt" => /\ op[r].id \in Requests /\ pc[op[r].id] = "ok"
                               /\ \A d \in db.docs : d.id # op[r].id

\* What a step may do to a download and to what its document's upload has done.
LEMMA DownloadMoves ==
    ASSUME TypeOK, BlobInv, [Next]_vars, NEW r \in Requests
    PROVE  /\ pc[r] = "ok" => pc'[r] = "ok"
           /\ pc'[r] \in {"load", "corrupt"} =>
                \/ pc[r] = pc'[r] /\ op'[r] = op[r]
                \/ ReadDocument(r) \/ LoadBlob(r)
           /\ db' = db \/ (pc[writer] = "commit" /\ db' = txn /\ writer \in Requests)
<1> USE DEF TypeOK, Goto
<1>1. ASSUME NEW q \in Requests, NEW o \in Asked, Start(q, o)
      PROVE  /\ db' = db
             /\ pc[r] = "ok" => pc'[r] = "ok"
             /\ pc'[r] \in {"load", "corrupt"} => pc[r] = pc'[r] /\ op'[r] = op[r]
  BY <1>1 DEF Start
<1>2. ASSUME NEW q \in Requests, Step(q), ~ReadDocument(q), ~LoadBlob(q)
      PROVE  /\ pc[q] # "ok" /\ pc'[q] \notin {"load", "corrupt"} /\ op' = op
             /\ \A s \in Requests : s # q => pc'[s] = pc[s]
             /\ db' = db \/ Commit(q)
  BY <1>2 DEF Step, ReadPatch, ReadSubmit, ReadUpload, LoadBorrowers,
              ReloadPatch, ReloadSubmit, SaveBlob, WritePatch, WriteSubmit, WriteUpload,
              WriteDelete, TakeLock, BusyTimeout, RefuseSimulation, Rollback, UnlinkBlob, Commit
<1>3. ASSUME NEW q \in Requests, ReadDocument(q) \/ LoadBlob(q)
      PROVE  /\ pc[q] # "ok" /\ op' = op /\ db' = db
             /\ \A s \in Requests : s # q => pc'[s] = pc[s]
  BY <1>3 DEF ReadDocument, LoadBlob
<1>4. ASSUME NEW q \in Requests, Commit(q)
      PROVE  pc[writer] = "commit" /\ db' = txn /\ writer \in Requests
  BY <1>4 DEF Commit, BlobInv, LockHeld
<1>5. ASSUME NEW q \in Requests, Fault(q) \/ SaveFails(q)
      PROVE  /\ pc[q] # "ok" /\ pc'[q] = "failed" /\ op' = op /\ db' = db
             /\ \A s \in Requests : s # q => pc'[s] = pc[s]
  BY <1>5 DEF Fault, SaveFails, Rollback, InFlight
<1>6. CASE Crash
  BY <1>6 DEF Crash, Active, InFlight
<1>7. CASE Quiet \/ UNCHANGED vars
  BY <1>7 DEF Quiet, vars
<1>8. ASSUME NEW q \in Requests, Step(q)
      PROVE  /\ pc[r] = "ok" => pc'[r] = "ok"
             /\ pc'[r] \in {"load", "corrupt"} =>
                  \/ pc[r] = pc'[r] /\ op'[r] = op[r]
                  \/ ReadDocument(r) \/ LoadBlob(r)
             /\ db' = db \/ (pc[writer] = "commit" /\ db' = txn /\ writer \in Requests)
  <2>1. CASE ReadDocument(q) \/ LoadBlob(q)
    BY <1>3, <2>1
  <2>2. CASE ~ReadDocument(q) /\ ~LoadBlob(q)
    BY <1>2, <1>4, <1>8, <2>2
  <2>3. QED
    BY <2>1, <2>2
<1>9. ASSUME NEW q \in Requests, Fault(q) \/ SaveFails(q)
      PROVE  /\ pc[r] = "ok" => pc'[r] = "ok"
             /\ pc'[r] \in {"load", "corrupt"} => pc[r] = pc'[r] /\ op'[r] = op[r]
             /\ db' = db
  BY <1>5, <1>9
<1>10. CASE \E q \in Requests : \E o \in Asked : Start(q, o)
  BY <1>1, <1>10
<1>11. CASE \E q \in Requests : Step(q)
  BY <1>8, <1>11, Zenon
<1>12. CASE \E q \in Requests : Fault(q) \/ SaveFails(q)
  BY <1>9, <1>12
<1>13. QED
  BY <1>6, <1>7, <1>10, <1>11, <1>12, Zenon DEF Next

LEMMA DownloadsSettledStep ==
    TypeOK /\ BlobInv /\ DownloadsSettled /\ [Next]_vars => DownloadsSettled'
<1> SUFFICES ASSUME TypeOK, BlobInv, DownloadsSettled, [Next]_vars, NEW r \in Requests
             PROVE  /\ pc'[r] = "load" => op'[r].id \in Requests /\ pc'[op'[r].id] = "ok"
                    /\ pc'[r] = "corrupt" => /\ op'[r].id \in Requests /\ pc'[op'[r].id] = "ok"
                                             /\ \A d \in db'.docs : d.id # op'[r].id
  BY DEF DownloadsSettled
<1>1. /\ \A q \in Requests : pc[q] = "ok" => pc'[q] = "ok"
      /\ db' = db \/ (pc[writer] = "commit" /\ db' = txn /\ writer \in Requests)
      /\ pc'[r] \in {"load", "corrupt"} =>
           \/ pc[r] = pc'[r] /\ op'[r] = op[r]
           \/ ReadDocument(r) \/ LoadBlob(r)
  BY DownloadMoves
<1>2. CASE pc'[r] = pc[r] /\ op'[r] = op[r]
  <2>1. ASSUME pc[r] = "corrupt", NEW d \in db'.docs PROVE d.id # op[r].id
    BY <1>1, <2>1 DEF DownloadsSettled, BlobInv, RowsSettled
  <2>2. QED
    BY <1>1, <1>2, <2>1 DEF DownloadsSettled
<1>3. CASE ReadDocument(r)
  <2>1. /\ op' = op
        /\ pc'[r] = "load" => \E d \in db.docs : d.id = op[r].id
        /\ pc'[r] # "corrupt"
    BY <1>3 DEF ReadDocument, Goto, TypeOK
  <2>2. \A d \in db.docs : d.id \in Requests /\ pc[d.id] = "ok"
    BY DEF BlobInv, RowsSettled, TypeOK, File, Document
  <2>3. QED
    BY <1>1, <2>1, <2>2
<1>4. CASE LoadBlob(r)
  <2>1. /\ pc[r] = "load" /\ op' = op /\ db' = db
        /\ pc'[r] = "corrupt" => op[r].id \notin blobs
        /\ pc'[r] # "load"
    BY <1>4 DEF LoadBlob, Goto, TypeOK
  <2>2. \A d \in db.docs : d.id \in blobs
    BY DEF BlobInv, RowsSettled
  <2>3. QED
    BY <1>1, <2>1, <2>2 DEF DownloadsSettled
<1>5. QED
  BY <1>1, <1>2, <1>3, <1>4

\* STORAGE_CORRUPT is the answer to a download whose document was deleted between
\* its two reads, and to nothing else (documents/service.py download).
THEOREM CorruptOnlyDeleted == Spec => []CorruptMeansDeleted
<1>1. Init => DownloadsSettled
  BY DEF Init, DownloadsSettled
<1>2. DownloadsSettled => CorruptMeansDeleted
  BY DEF DownloadsSettled, CorruptMeansDeleted
<1>3. QED
  BY <1>1, <1>2, DownloadsSettledStep, BlobInvInit, BlobInvStep, TypeCorrect, PTL DEF Spec

-----------------------------------------------------------------------------
(* The refinement.  Only the holder of the write lock commits, so what it    *)
(* has staged is still one change of the committed file when it is           *)
(* published; and no such change takes back what another handler checked     *)
(* before it asked for the lock.                                             *)

\* The instance reads the tables by the same rules.
LEMMA SameRules ==
    /\ \A f, a : Atomic!Recompute(f, a) = Recompute(f, a)
    /\ Atomic!Document = Document
    /\ Atomic!UploadOpenStates = UploadOpenStates
    /\ Atomic!Draft = Draft
<1>1. \A f, a : Atomic!Satisfied(f, a) = Satisfied(f, a)
  BY Zenon DEF Atomic!Satisfied, Satisfied, Atomic!AllSatisfied, AllSatisfied,
     Atomic!ChecklistTypes, ChecklistTypes, Atomic!Required, Required,
     Atomic!People, People, Atomic!Uploaded, Uploaded
<1>2. Atomic!UploadOpenStates = UploadOpenStates
  BY DEF Atomic!UploadOpenStates, UploadOpenStates
<1>3. \A f, a : Atomic!Recompute(f, a) = Recompute(f, a)
  BY <1>1, <1>2, Zenon DEF Atomic!Recompute, Recompute, Atomic!Recomputed, Recomputed
<1>4. QED
  BY <1>2, <1>3 DEF Atomic!Document, Document, Atomic!Draft, Draft

\* What no change of a file takes back.
LEMMA ChangeKeeps ==
    ASSUME NEW old \in File, NEW new \in File, Atomic!Change(old, new), NEW a \in Apps
    PROVE  /\ old.apps[a].status \in UploadOpenStates => new.apps[a].status \in UploadOpenStates
           /\ old.apps[a].property # NoProperty => new.apps[a].property # NoProperty
           /\ (old.apps[a].status # "DRAFT" => old.apps[a].property # NoProperty)
                => (new.apps[a].status # "DRAFT" => new.apps[a].property # NoProperty)
<1>1. PICK b \in Apps : \/ Atomic!Edit(old, new, b) \/ Atomic!Submit(old, new, b)
                        \/ Atomic!Upload(old, new, b) \/ Atomic!Delete(old, new, b)
  BY DEF Atomic!Change
<1>2. CASE Atomic!Edit(old, new, b)
  BY <1>2 DEF Atomic!Edit
<1>3. CASE Atomic!Submit(old, new, b)
  BY <1>3 DEF Atomic!Submit, File, Application, UploadOpenStates
<1>4. ASSUME NEW mid \in File, mid.apps = old.apps, new = Recompute(mid, b)
      PROVE  /\ new.apps[a].property = old.apps[a].property
             /\ new.apps[a].status \in UploadOpenStates
                  \/ new.apps[a].status = old.apps[a].status
             /\ new.apps[a].status # old.apps[a].status
                  => old.apps[a].status \in UploadOpenStates
  BY <1>4 DEF Recompute, Recomputed, File, Application, UploadOpenStates
<1>5. CASE Atomic!Upload(old, new, b)
  <2>1. PICK d \in Document : new = Recompute([old EXCEPT !.docs = @ \cup {d}], b)
    BY <1>5, SameRules DEF Atomic!Upload
  <2>2. [old EXCEPT !.docs = @ \cup {d}] \in File
    BY DEF File
  <2>3. [old EXCEPT !.docs = @ \cup {d}].apps = old.apps
    BY DEF File
  <2>4. QED
    BY <1>4, <2>1, <2>2, <2>3 DEF UploadOpenStates
<1>6. CASE Atomic!Delete(old, new, b)
  <2>1. PICK id \in Requests : new = Recompute([old EXCEPT !.docs = {d \in @ : d.id # id}], b)
    BY <1>6, SameRules DEF Atomic!Delete
  <2>2. [old EXCEPT !.docs = {d \in @ : d.id # id}] \in File
    BY DEF File
  <2>3. [old EXCEPT !.docs = {d \in @ : d.id # id}].apps = old.apps
    BY DEF File
  <2>4. QED
    BY <1>4, <2>1, <2>2, <2>3 DEF UploadOpenStates
<1>7. QED
  BY <1>1, <1>2, <1>3, <1>5, <1>6

\* What a handler stages under the lock is one change of the committed file.
LEMMA WriteStages ==
    ASSUME TypeOK, BlobInv, FileInv, NEW r \in Requests,
           WritePatch(r) \/ WriteSubmit(r) \/ WriteUpload(r) \/ WriteDelete(r)
    PROVE  Atomic!Change(db, txn')
<1> USE DEF TypeOK
<1>0. pc[r] = "write"
  BY DEF WritePatch, WriteSubmit, WriteUpload, WriteDelete, TakeLock
<1>1. CASE WritePatch(r)
  <2> DEFINE a == op[r].app
  <2>1. a \in Apps
    BY <1>1, OpTypes DEF WritePatch, Patch
  <2>2. txn' = [db EXCEPT !.apps[a] = WithProperty(r, WithBorrowers(r, @))]
    BY <1>1 DEF WritePatch, TakeLock
  <2>3. /\ WithProperty(r, WithBorrowers(r, db.apps[a])).status = db.apps[a].status
        /\ db.apps[a].property # NoProperty =>
             WithProperty(r, WithBorrowers(r, db.apps[a])).property # NoProperty
    BY <1>1, <2>1, PatchedRow DEF WritePatch, File
  <2>4. Atomic!Edit(db, txn', a)
    BY <2>1, <2>2, <2>3 DEF Atomic!Edit, File
  <2>5. QED
    BY <2>1, <2>4 DEF Atomic!Change
<1>2. CASE WriteSubmit(r)
  <2>1. op[r].app \in Apps
    BY <1>2, OpTypes DEF WriteSubmit, Submit
  <2>2. Atomic!Submit(db, txn', op[r].app)
    BY <1>0, <1>2 DEF WriteSubmit, TakeLock, Atomic!Submit, FileInv, ChecksHold, Row
  <2>3. QED
    BY <2>1, <2>2 DEF Atomic!Change
<1>3. CASE WriteUpload(r)
  <2> DEFINE d == [id |-> r, app |-> op[r].app, doc_type |-> op[r].doc_type]
  <2>1. op[r].app \in Apps /\ d \in Document
    BY <1>3, OpTypes DEF WriteUpload, Upload, Document
  <2>2. db.apps[op[r].app].status \in UploadOpenStates
    BY <1>0, <1>3 DEF WriteUpload, FileInv, ChecksHold, Row
  <2>3. \A e \in db.docs : e.id # d.id
    BY <1>0 DEF BlobInv, RowsSettled
  <2>4. txn' = Recompute([db EXCEPT !.docs = @ \cup {d}], op[r].app)
    BY <1>3 DEF WriteUpload, TakeLock
  <2>5. Atomic!Upload(db, txn', op[r].app)
    BY <2>1, <2>2, <2>3, <2>4, SameRules DEF Atomic!Upload
  <2>6. QED
    BY <2>1, <2>5 DEF Atomic!Change
<1>4. CASE WriteDelete(r)
  <2>1. op[r].app \in Apps
    BY <1>4, OpTypes DEF WriteDelete, Delete
  <2>2. op[r].id \in Requests
    BY <1>4, OpTypes DEF WriteDelete, Delete
  <2>3. \A d \in db.docs : d.id = op[r].id => d.app = op[r].app
    BY <1>0, <1>4 DEF WriteDelete, FileInv, ChecksHold, DocsNamed
  <2>4. txn' = Recompute([db EXCEPT !.docs = {d \in @ : d.id # op[r].id}], op[r].app)
    BY <1>4 DEF WriteDelete, TakeLock
  <2>5. Atomic!Delete(db, txn', op[r].app)
    BY <2>2, <2>3, <2>4, SameRules DEF Atomic!Delete
  <2>6. QED
    BY <2>1, <2>5 DEF Atomic!Change
<1>5. QED
  BY <1>1, <1>2, <1>3, <1>4

\* A step that commits nothing keeps the invariant, provided it promises what
\* it claims to have checked and stages a change or nothing.
LEMMA MoveKeepsFileInv ==
    ASSUME TypeOK, FileInv, NEW r \in Requests, NEW label,
           Goto(r, label), UNCHANGED <<db, op>>,
           label \in {"save", "write"} /\ op[r].kind = "upload"
             => Row(r).status \in UploadOpenStates,
           label \in {"reload", "write"} /\ op[r].kind = "submit"
             => Row(r).property # NoProperty,
           label = "write" /\ op[r].kind = "delete" => op[op[r].id].app = op[r].app,
           txn' \in {txn, db}
    PROVE  FileInv'
<1> USE DEF TypeOK, Goto
<1>1. Staged' /\ DocsNamed' /\ SubmittedIsFilled'
  BY DEF FileInv, Staged, DocsNamed, SubmittedIsFilled
<1>2. /\ \A q \in Requests : q # r => pc'[q] = pc[q]
      /\ pc'[r] = label
      /\ \A q \in Requests : Row(q)' = Row(q)
  BY DEF Row
<1>3. ChecksHold'
  BY <1>2 DEF FileInv, ChecksHold
<1>4. QED
  BY <1>1, <1>3 DEF FileInv

LEMMA FileInvStep == TypeOK /\ BlobInv /\ FileInv /\ [Next]_vars => FileInv'
<1> SUFFICES ASSUME TypeOK, BlobInv, FileInv, [Next]_vars PROVE FileInv'
  OBVIOUS
<1>1. ASSUME NEW r \in Requests, NEW o \in Asked, Start(r, o) PROVE FileInv'
  <2>1. /\ pc[r] = "idle" /\ pc'[r] = "read"
        /\ \A q \in Requests : q # r => pc'[q] = pc[q] /\ op'[q] = op[q]
        /\ UNCHANGED <<db, txn>>
    BY <1>1 DEF Start, Goto, TypeOK
  <2>2. \A d \in db.docs \cup txn.docs : d.id \in Requests /\ d.id # r
    BY <2>1 DEF BlobInv, LockHeld, RowsSettled, TypeOK, File, Document
  <2>3. Staged' /\ DocsNamed' /\ SubmittedIsFilled'
    BY <2>1, <2>2 DEF FileInv, Staged, DocsNamed, SubmittedIsFilled
  <2>4. ChecksHold'
    BY <2>1 DEF FileInv, BlobInv, ChecksHold, DeletesSettled, Row
  <2>5. QED
    BY <2>3, <2>4 DEF FileInv
<1>2. ASSUME NEW r \in Requests,
             ReadPatch(r) \/ ReadSubmit(r) \/ ReadUpload(r) \/ LoadBorrowers(r)
               \/ ReloadPatch(r) \/ ReloadSubmit(r) \/ SaveBlob(r) \/ SaveFails(r)
               \/ BusyTimeout(r) \/ UnlinkBlob(r) \/ LoadBlob(r)
      PROVE  FileInv'
  <2>1. CASE ReadPatch(r)
    BY <2>1, MoveKeepsFileInv DEF ReadPatch
  <2>2. CASE ReadSubmit(r)
    BY <2>2, MoveKeepsFileInv DEF ReadSubmit, Submittable
  <2>3. CASE ReadUpload(r)
    BY <2>3, MoveKeepsFileInv DEF ReadUpload
  <2>4. CASE LoadBorrowers(r)
    BY <2>4, MoveKeepsFileInv DEF LoadBorrowers
  <2>5. CASE ReloadPatch(r)
    BY <2>5, MoveKeepsFileInv DEF ReloadPatch
  <2>6. CASE ReloadSubmit(r)
    <3>1. Row(r).property # NoProperty
      BY <2>6 DEF ReloadSubmit, FileInv, ChecksHold
    <3>2. QED
      BY <2>6, <3>1, MoveKeepsFileInv DEF ReloadSubmit
  <2>7. CASE SaveBlob(r)
    <3>1. Row(r).status \in UploadOpenStates
      BY <2>7 DEF SaveBlob, FileInv, ChecksHold
    <3>2. QED
      BY <2>7, <3>1, MoveKeepsFileInv DEF SaveBlob
  <2>8. CASE BusyTimeout(r)
    BY <2>8, MoveKeepsFileInv DEF BusyTimeout
  <2>9. CASE UnlinkBlob(r)
    BY <2>9, MoveKeepsFileInv DEF UnlinkBlob
  <2>10. CASE LoadBlob(r)
    BY <2>10, MoveKeepsFileInv DEF LoadBlob
  <2>11. CASE SaveFails(r)
    BY <2>11, MoveKeepsFileInv DEF SaveFails
  <2>12. QED
    BY <1>2, <2>1, <2>2, <2>3, <2>4, <2>5, <2>6, <2>7, <2>8, <2>9, <2>10, <2>11
<1>3. ASSUME NEW r \in Requests, ReadDocument(r) PROVE FileInv'
  <2>1. ASSUME NEW d \in db.docs, d.id = op[r].id, d.app = op[r].app
        PROVE  op[op[r].id].app = op[r].app
    BY <2>1 DEF FileInv, DocsNamed
  <2>2. QED
    BY <1>3, <2>1, MoveKeepsFileInv DEF ReadDocument
<1>4. ASSUME NEW r \in Requests,
             WritePatch(r) \/ WriteSubmit(r) \/ WriteUpload(r) \/ WriteDelete(r)
      PROVE  FileInv'
  <2>1. PICK after : TakeLock(r, after)
    BY <1>4 DEF WritePatch, WriteSubmit, WriteUpload, WriteDelete
  <2>2. /\ \A q \in Requests : q # r => pc'[q] = pc[q]
        /\ pc'[r] = "commit"
        /\ UNCHANGED <<db, op>>
    BY <2>1 DEF TakeLock, Goto, TypeOK
  <2>3. Staged'
    BY <1>4, <2>2, WriteStages DEF Staged
  <2>4. \A d \in txn'.docs : d \in db.docs \/ (d.id = r /\ d.app = op[r].app)
    <3>1. CASE WritePatch(r) \/ WriteSubmit(r)
      BY <3>1, WrittenDocs
    <3>2. CASE WriteUpload(r)
      BY <3>2, WrittenDocs
    <3>3. CASE WriteDelete(r)
      BY <3>3, WrittenDocs
    <3>4. QED
      BY <1>4, <3>1, <3>2, <3>3
  <2>5. DocsNamed' /\ SubmittedIsFilled'
    BY <2>2, <2>4 DEF FileInv, DocsNamed, SubmittedIsFilled
  <2>6. ChecksHold'
    BY <2>2 DEF FileInv, ChecksHold, Row
  <2>7. QED
    BY <2>3, <2>5, <2>6 DEF FileInv
<1>5. ASSUME NEW r \in Requests, Commit(r) PROVE FileInv'
  <2>1. /\ db' = txn /\ UNCHANGED <<txn, op>>
        /\ \A q \in Requests : pc'[q] \in {"save", "reload", "write"} => pc'[q] = pc[q]
    BY <1>5 DEF Commit, Goto, TypeOK
  <2>2. Staged' /\ DocsNamed'
    BY <2>1 DEF FileInv, Staged, DocsNamed
  <2>3. \A a \in Apps :
           /\ db.apps[a].status \in UploadOpenStates => txn.apps[a].status \in UploadOpenStates
           /\ db.apps[a].property # NoProperty => txn.apps[a].property # NoProperty
           /\ (db.apps[a].status # "DRAFT" => db.apps[a].property # NoProperty)
                => (txn.apps[a].status # "DRAFT" => txn.apps[a].property # NoProperty)
    <3>1. CASE txn = db
      BY <3>1
    <3>2. CASE Atomic!Change(db, txn)
      BY <3>2, ChangeKeeps DEF TypeOK
    <3>3. QED
      BY <3>1, <3>2 DEF FileInv, Staged
  <2>4. SubmittedIsFilled'
    BY <2>1, <2>3 DEF FileInv, SubmittedIsFilled
  <2>5. \A r1 \in Requests : op[r1].kind \in {"upload", "submit"} => op[r1].app \in Apps
    BY OpTypes DEF Upload, Submit
  <2>6. ChecksHold'
    BY <2>1, <2>3, <2>5 DEF FileInv, ChecksHold, Row
  <2>7. QED
    BY <2>2, <2>4, <2>6 DEF FileInv
<1>6. ASSUME NEW r \in Requests, RefuseSimulation(r) \/ Fault(r) PROVE FileInv'
  <2>1. PICK label \in {"refused", "failed"} : Goto(r, label) /\ Rollback(r)
    BY <1>6 DEF RefuseSimulation, Fault
  <2>2. txn' \in {txn, db} /\ UNCHANGED <<db, op>>
    BY <2>1 DEF Rollback
  <2>3. QED
    BY <2>1, <2>2, MoveKeepsFileInv
<1>7. CASE Crash
  <2>1. /\ \A q \in Requests : pc'[q] \notin {"save", "reload", "write"}
        /\ txn' = db /\ UNCHANGED <<db, op>>
    BY <1>7 DEF Crash, Active, InFlight, TypeOK
  <2>2. QED
    BY <2>1 DEF FileInv, Staged, DocsNamed, ChecksHold, SubmittedIsFilled
<1>8. CASE UNCHANGED vars
  BY <1>8 DEF vars, FileInv, Staged, DocsNamed, ChecksHold, SubmittedIsFilled, Row
<1>9. QED
  BY <1>1, <1>2, <1>3, <1>4, <1>5, <1>6, <1>7, <1>8 DEF Next, Step, Quiet

LEMMA Invariants == Spec => [](TypeOK /\ BlobInv /\ FileInv)
<1>1. Init => FileInv
  BY DEF Init, NoOp, Draft, FileInv, Staged, DocsNamed, ChecksHold, SubmittedIsFilled
<1>2. QED
  BY <1>1, BlobInvInit, BlobInvStep, FileInvStep, TypeCorrect, PTL DEF Spec

\* Whatever has left the draft state has a property section, however requests
\* interleave, fail and crash.
THEOREM SubmissionsFilled == Spec => []SubmittedIsFilled
<1>1. FileInv => SubmittedIsFilled
  BY DEF FileInv
<1>2. QED
  BY <1>1, Invariants, PTL

\* What a step does to the committed tables is one indivisible change.
LEMMA StepChanges ==
    TypeOK /\ BlobInv /\ FileInv /\ [Next]_vars => db' = db \/ Atomic!Change(db, db')
<1> SUFFICES ASSUME TypeOK, BlobInv, FileInv, [Next]_vars
             PROVE  db' = db \/ Atomic!Change(db, db')
  OBVIOUS
<1>1. ASSUME NEW r \in Requests, Commit(r) PROVE db' = db \/ Atomic!Change(db, db')
  <2>1. db' = txn /\ (txn = db \/ Atomic!Change(db, txn))
    BY <1>1 DEF Commit, FileInv, Staged
  <2>2. QED
    BY <2>1, Zenon
<1>2. ASSUME NEW r \in Requests, Step(r), ~Commit(r) PROVE db' = db
  BY <1>2 DEF Step, ReadPatch, ReadSubmit, ReadUpload, ReadDocument, LoadBorrowers,
              ReloadPatch, ReloadSubmit, SaveBlob, WritePatch, WriteSubmit, WriteUpload,
              WriteDelete, TakeLock, BusyTimeout, RefuseSimulation, Rollback, UnlinkBlob,
              LoadBlob
<1>3. ASSUME NEW r \in Requests, Fault(r) \/ SaveFails(r) \/ \E o \in Asked : Start(r, o)
      PROVE  db' = db
  BY <1>3 DEF Fault, Rollback, SaveFails, Start
<1>4. Crash \/ Quiet \/ UNCHANGED vars => db' = db
  BY DEF Crash, Quiet, vars
<1>5. QED
  BY <1>1, <1>2, <1>3, <1>4 DEF Next

\* Every step of the handlers changes the committed tables by one indivisible
\* step of AtomicFile or leaves them alone.
THEOREM HandlersImplementAtomicFile == Spec => ImplementsAtomicFile
<1>1. Init => Atomic!Init
  BY SameRules DEF Init, Atomic!Init
<1>2. ASSUME TypeOK, BlobInv, FileInv, [Next]_vars PROVE [Atomic!Next]_db
  BY <1>2, StepChanges, Zenon DEF Atomic!Next
<1>3. QED
  BY <1>1, <1>2, Invariants, PTL DEF Spec, ImplementsAtomicFile, Atomic!Spec

-----------------------------------------------------------------------------
(* What an indivisible change does to a status. *)

\* A file is a draft, or between the two document states.
StatusReached == \A a \in Apps : db.apps[a].status \in {"DRAFT"} \cup UploadOpenStates

\* A status a recomputation chose agrees with documents and answers.
LEMMA RecomputeAgrees ==
    ASSUME NEW mid \in File, NEW b \in Apps
    PROVE  /\ StatusAgrees(Recompute(mid, b), b)
           /\ \A a \in Apps : Uploaded(Recompute(mid, b), a) = Uploaded(mid, a)
           /\ \A a \in Apps \ {b} :
                Recompute(mid, b).apps[a] = mid.apps[a]
           /\ Recompute(mid, b).apps[b].status # mid.apps[b].status
                => mid.apps[b].status \in UploadOpenStates
           /\ Recompute(mid, b).apps[b].status \in UploadOpenStates \cup {mid.apps[b].status}
<1> DEFINE new == Recompute(mid, b)
<1>1. /\ new.docs = mid.docs
      /\ new.apps[b].borrowers = mid.apps[b].borrowers
      /\ new.apps[b].property = mid.apps[b].property
      /\ new.apps[b].status = Recomputed(mid, b)
      /\ \A a \in Apps \ {b} : new.apps[a] = mid.apps[a]
  BY DEF Recompute, File, Application
<1>2. \A a : Uploaded(new, a) = Uploaded(mid, a)
  BY <1>1 DEF Uploaded
<1>3. Satisfied(new, b) = Satisfied(mid, b)
  BY <1>1, <1>2 DEF Satisfied, People
<1>4. StatusAgrees(new, b)
  BY <1>1, <1>3 DEF StatusAgrees, Recomputed
<1>5. QED
  BY <1>1, <1>2, <1>4 DEF Recomputed, UploadOpenStates

\* Which statuses and documents one change touches.
LEMMA ChangeMoves ==
    ASSUME NEW old \in File, NEW new \in File, Atomic!Change(old, new), NEW a \in Apps
    PROVE  /\ new.apps[a].status # old.apps[a].status =>
                \/ new.apps[a].status = "DOCUMENTS_PENDING"
                \/ /\ old.apps[a].status \in UploadOpenStates
                   /\ new.apps[a].status \in UploadOpenStates
           /\ Uploaded(new, a) # Uploaded(old, a) => StatusAgrees(new, a)
<1>1. PICK b \in Apps : \/ Atomic!Edit(old, new, b) \/ Atomic!Submit(old, new, b)
                        \/ Atomic!Upload(old, new, b) \/ Atomic!Delete(old, new, b)
  BY DEF Atomic!Change
<1>2. CASE Atomic!Edit(old, new, b)
  BY <1>2 DEF Atomic!Edit, Uploaded
<1>3. CASE Atomic!Submit(old, new, b)
  BY <1>3 DEF Atomic!Submit, Uploaded, File, Application
<1>4. ASSUME NEW mid \in File, mid.apps = old.apps, new = Recompute(mid, b),
             a # b => Uploaded(mid, a) = Uploaded(old, a)
      PROVE  /\ new.apps[a].status # old.apps[a].status =>
                  /\ old.apps[a].status \in UploadOpenStates
                  /\ new.apps[a].status \in UploadOpenStates
             /\ Uploaded(new, a) # Uploaded(old, a) => StatusAgrees(new, a)
  BY <1>4, RecomputeAgrees
<1>5. CASE Atomic!Upload(old, new, b)
  <2>1. PICK d \in Document : /\ d.app = b
                              /\ new = Recompute([old EXCEPT !.docs = @ \cup {d}], b)
    BY <1>5, SameRules DEF Atomic!Upload
  <2> DEFINE mid == [old EXCEPT !.docs = @ \cup {d}]
  <2>2. mid \in File /\ mid.apps = old.apps /\ mid.docs = old.docs \cup {d}
    BY DEF File
  <2>3. a # b => Uploaded(mid, a) = Uploaded(old, a)
    BY <2>1, <2>2 DEF Uploaded
  <2>4. QED
    BY <1>4, <2>1, <2>2, <2>3
<1>6. CASE Atomic!Delete(old, new, b)
  <2>1. PICK id \in Requests :
          /\ \A d \in old.docs : d.id = id => d.app = b
          /\ new = Recompute([old EXCEPT !.docs = {d \in @ : d.id # id}], b)
    BY <1>6, SameRules DEF Atomic!Delete
  <2> DEFINE mid == [old EXCEPT !.docs = {d \in @ : d.id # id}]
  <2>2. mid \in File /\ mid.apps = old.apps /\ mid.docs = {d \in old.docs : d.id # id}
    BY DEF File
  <2>3. a # b => Uploaded(mid, a) = Uploaded(old, a)
    BY <2>1, <2>2 DEF Uploaded
  <2>4. QED
    BY <1>4, <2>1, <2>2, <2>3
<1>7. QED
  BY <1>1, <1>2, <1>3, <1>5, <1>6

LEMMA StatusReachedHolds == Spec => []StatusReached
<1>1. Init => StatusReached
  BY DEF Init, Draft, StatusReached
<1>2. ASSUME TypeOK, TypeOK', BlobInv, FileInv, StatusReached, [Next]_vars
      PROVE  StatusReached'
  <2>1. ASSUME NEW a \in Apps PROVE db'.apps[a].status \in {"DRAFT"} \cup UploadOpenStates
    BY <1>2, <2>1, StepChanges, ChangeMoves DEF StatusReached, TypeOK, UploadOpenStates
  <2>2. QED
    BY <2>1 DEF StatusReached
<1>3. QED
  BY <1>1, <1>2, Invariants, TypeCorrect, PTL DEF Spec

\* For any number of applications, requests and faults a status only moves along
\* the edges of state_machine.py, the submission through SUBMITTED in one go.
THEOREM StatusesFollowMachine == Spec => StatusFollowsMachine
<1>1. /\ "SUBMITTED" \in ALLOWED_TRANSITIONS["DRAFT"]
      /\ "DOCUMENTS_PENDING" \in ALLOWED_TRANSITIONS["SUBMITTED"]
      /\ "DOCUMENTS_COMPLETE" \in ALLOWED_TRANSITIONS["DOCUMENTS_PENDING"]
      /\ "DOCUMENTS_PENDING" \in ALLOWED_TRANSITIONS["DOCUMENTS_COMPLETE"]
  BY DEF ALLOWED_TRANSITIONS, Status, Terminal
<1>2. ASSUME TypeOK, TypeOK', BlobInv, FileInv, StatusReached, [Next]_vars
      PROVE  [\A a \in Apps :
                LET from == db.apps[a].status
                    to == db'.apps[a].status
                IN  from # to =>
                      \/ to \in ALLOWED_TRANSITIONS[from]
                      \/ /\ "SUBMITTED" \in ALLOWED_TRANSITIONS[from]
                         /\ to \in ALLOWED_TRANSITIONS["SUBMITTED"]]_vars
  <2>1. ASSUME NEW a \in Apps, db.apps[a].status # db'.apps[a].status
        PROVE  \/ db'.apps[a].status \in ALLOWED_TRANSITIONS[db.apps[a].status]
               \/ /\ "SUBMITTED" \in ALLOWED_TRANSITIONS[db.apps[a].status]
                  /\ db'.apps[a].status \in ALLOWED_TRANSITIONS["SUBMITTED"]
    <3>1. Atomic!Change(db, db')
      BY <1>2, <2>1, StepChanges
    <3>2. \/ db'.apps[a].status = "DOCUMENTS_PENDING"
          \/ /\ db.apps[a].status \in UploadOpenStates
             /\ db'.apps[a].status \in UploadOpenStates
      BY <1>2, <2>1, <3>1, ChangeMoves DEF TypeOK
    <3>3. db.apps[a].status \in {"DRAFT"} \cup UploadOpenStates
      BY <1>2 DEF StatusReached
    <3>4. QED
      BY <1>1, <2>1, <3>2, <3>3 DEF UploadOpenStates
  <2>2. QED
    BY <2>1
<1>3. QED
  BY <1>2, Invariants, StatusReachedHolds, TypeCorrect, PTL DEF Spec, StatusFollowsMachine

\* A committed upload or delete leaves the status that documents and answers
\* call for, however many handlers run beside it.
THEOREM DocumentChangesHaveStatus == Spec => DocumentChangesAgree
<1>1. ASSUME TypeOK, TypeOK', BlobInv, FileInv, [Next]_vars
      PROVE  [\A a \in Apps : Uploaded(db', a) # Uploaded(db, a) => StatusAgrees(db', a)]_vars
  <2>1. ASSUME NEW a \in Apps, Uploaded(db', a) # Uploaded(db, a) PROVE StatusAgrees(db', a)
    <3>1. Atomic!Change(db, db')
      BY <1>1, <2>1, StepChanges
    <3>2. QED
      BY <1>1, <2>1, <3>1, ChangeMoves DEF TypeOK
  <2>2. QED
    BY <2>1
<1>2. QED
  BY <1>1, Invariants, TypeCorrect, PTL DEF Spec, DocumentChangesAgree

-----------------------------------------------------------------------------
(* Borrowers.  BorrowersWhole is what the repository says and the code does  *)
(* not keep; two PATCHes that overlap are all it takes, and the only way.    *)

\* Request r has loaded the borrower rows it is going to delete, and has not
\* committed what it puts in their place.
Replacing(r, a) ==
    /\ op[r].kind = "patch" /\ op[r].app = a /\ "borrowers" \in op[r].keys
    /\ pc[r] \in {"write", "commit"}

Apart == \A a \in Apps : \A r, q \in Requests : Replacing(r, a) /\ Replacing(q, a) => r = q

OneBatch(borrowers) == \A b, c \in borrowers : b.batch = c.batch

\* What is committed and what is staged is one collection; what is staged is new
\* only by the writer's own replacement; and what a waiting PATCH has loaded is
\* still what is there, unless it adds nothing.
WholeInv ==
    /\ \A a \in Apps : OneBatch(db.apps[a].borrowers) /\ OneBatch(txn.apps[a].borrowers)
    /\ \A a \in Apps : txn.apps[a].borrowers # db.apps[a].borrowers =>
         writer \in Requests /\ Replacing(writer, a)
    /\ \A r \in Requests : op[r].kind = "patch" /\ "borrowers" \in op[r].keys =>
         /\ pc[r] = "reload" => op[r].people = {}
         /\ pc[r] = "write" => op[r].people = {} \/ seen[r].borrowers = Row(r).borrowers

LEMMA RecomputeBorrowers ==
    ASSUME NEW f \in File, NEW b \in Apps
    PROVE  \A a \in Apps : Recompute(f, b).apps[a].borrowers = f.apps[a].borrowers
  BY DEF Recompute, File, Application

\* What a write leaves of the borrowers of application a.
LEMMA WrittenBorrowers ==
    ASSUME TypeOK, NEW r \in Requests, NEW a \in Apps,
           WritePatch(r) \/ WriteSubmit(r) \/ WriteUpload(r) \/ WriteDelete(r)
    PROVE  \/ txn'.apps[a].borrowers = db.apps[a].borrowers
           \/ /\ op[r].kind = "patch" /\ op[r].app = a /\ "borrowers" \in op[r].keys
              /\ txn'.apps[a].borrowers = (db.apps[a].borrowers \ seen[r].borrowers)
                   \cup {[person |-> p, batch |-> r] : p \in op[r].people}
<1> USE DEF TypeOK
<1>1. CASE WritePatch(r)
  <2>1. /\ op[r].app \in Apps
        /\ txn' = [db EXCEPT !.apps[op[r].app] = WithProperty(r, WithBorrowers(r, @))]
    BY <1>1, OpTypes DEF WritePatch, TakeLock, Patch
  <2>2. \A app \in Application :
          WithProperty(r, WithBorrowers(r, app)).borrowers = WithBorrowers(r, app).borrowers
    BY DEF WithProperty, WithBorrowers, Application
  <2>3. \A app \in Application :
          WithBorrowers(r, app).borrowers =
            IF "borrowers" \notin op[r].keys THEN app.borrowers
            ELSE (app.borrowers \ seen[r].borrowers)
                   \cup {[person |-> p, batch |-> r] : p \in op[r].people}
    BY DEF WithBorrowers, Application
  <2>4. CASE op[r].app = a
    <3>1. txn'.apps[a].borrowers = WithBorrowers(r, db.apps[a]).borrowers
      BY <2>1, <2>2, <2>4 DEF File
    <3>2. QED
      BY <1>1, <2>3, <2>4, <3>1 DEF WritePatch, File
  <2>5. CASE op[r].app # a
    BY <2>1, <2>5 DEF File
  <2>6. QED
    BY <2>4, <2>5
<1>2. CASE WriteSubmit(r)
  BY <1>2 DEF WriteSubmit, TakeLock, File, Application
<1>3. CASE WriteUpload(r)
  <2> DEFINE d == [id |-> r, app |-> op[r].app, doc_type |-> op[r].doc_type]
             mid == [db EXCEPT !.docs = @ \cup {d}]
  <2>1. op[r].app \in Apps /\ d \in Document
    BY <1>3, OpTypes DEF WriteUpload, Upload, Document
  <2>2. mid \in File /\ mid.apps = db.apps
    BY <2>1 DEF File
  <2>3. txn' = Recompute(mid, op[r].app)
    BY <1>3 DEF WriteUpload, TakeLock
  <2> HIDE DEF mid
  <2>4. QED
    BY <2>1, <2>2, <2>3, RecomputeBorrowers
<1>4. CASE WriteDelete(r)
  <2> DEFINE mid == [db EXCEPT !.docs = {d \in @ : d.id # op[r].id}]
  <2>1. op[r].app \in Apps /\ mid \in File /\ mid.apps = db.apps
    BY <1>4, OpTypes DEF WriteDelete, Delete, File
  <2>2. txn' = Recompute(mid, op[r].app)
    BY <1>4 DEF WriteDelete, TakeLock
  <2> HIDE DEF mid
  <2>3. QED
    BY <2>1, <2>2, RecomputeBorrowers
<1>5. QED
  BY <1>1, <1>2, <1>3, <1>4

LEMMA WholeInvStep ==
    TypeOK /\ BlobInv /\ Apart /\ WholeInv /\ [Next]_vars => WholeInv'
<1> SUFFICES ASSUME TypeOK, BlobInv, Apart, WholeInv, [Next]_vars PROVE WholeInv'
  OBVIOUS
<1>0. \A q \in Requests : writer = q <=> pc[q] = "commit"
  BY DEF BlobInv, LockHeld
<1>1. ASSUME NEW r \in Requests, NEW o \in Asked, Start(r, o) PROVE WholeInv'
  <2>1. /\ UNCHANGED <<db, txn, writer, seen>>
        /\ pc[r] = "idle" /\ pc'[r] = "read"
        /\ \A q \in Requests \ {r} : pc'[q] = pc[q] /\ op'[q] = op[q]
    BY <1>1 DEF Start, Goto, TypeOK
  <2>2. QED
    BY <1>0, <2>1 DEF WholeInv, Replacing, Row
<1>2. ASSUME NEW r \in Requests,
             \/ ReadPatch(r) \/ ReadSubmit(r) \/ ReadUpload(r) \/ ReadDocument(r)
             \/ LoadBorrowers(r) \/ ReloadPatch(r) \/ ReloadSubmit(r) \/ SaveBlob(r)
             \/ BusyTimeout(r) \/ UnlinkBlob(r) \/ LoadBlob(r) \/ SaveFails(r)
      PROVE  WholeInv'
  <2>1. /\ UNCHANGED <<db, txn, op, writer>> /\ pc[r] # "commit"
        /\ \A q \in Requests \ {r} : pc'[q] = pc[q] /\ seen'[q] = seen[q]
    BY <1>2 DEF ReadPatch, ReadSubmit, ReadUpload, ReadDocument, LoadBorrowers, ReloadPatch,
                ReloadSubmit, SaveBlob, BusyTimeout, UnlinkBlob, LoadBlob, SaveFails, Goto,
                Forget, TypeOK
  <2>2. pc'[r] = "reload" /\ op[r].kind = "patch" /\ "borrowers" \in op[r].keys
          => op[r].people = {}
    BY <1>2 DEF ReadPatch, ReadSubmit, ReadUpload, ReadDocument, LoadBorrowers, ReloadPatch,
                ReloadSubmit, SaveBlob, BusyTimeout, UnlinkBlob, LoadBlob, SaveFails, Goto,
                TypeOK
  <2>3. pc'[r] = "write" /\ op[r].kind = "patch"
          => pc[r] = "reload" \/ seen'[r].borrowers = Row(r).borrowers
    BY <1>2 DEF ReadPatch, ReadSubmit, ReadUpload, ReadDocument, LoadBorrowers, ReloadPatch,
                ReloadSubmit, SaveBlob, BusyTimeout, UnlinkBlob, LoadBlob, SaveFails, Goto,
                TypeOK, Application
  <2>4. QED
    BY <1>0, <2>1, <2>2, <2>3 DEF WholeInv, Replacing, Row
<1>3. ASSUME NEW r \in Requests,
             WritePatch(r) \/ WriteSubmit(r) \/ WriteUpload(r) \/ WriteDelete(r)
      PROVE  WholeInv'
  <2>1. /\ pc[r] = "write" /\ pc'[r] = "commit" /\ writer' = r /\ UNCHANGED <<db, op>>
        /\ \A q \in Requests \ {r} : pc'[q] = pc[q] /\ seen'[q] = seen[q]
    BY <1>3 DEF WritePatch, WriteSubmit, WriteUpload, WriteDelete, TakeLock, Goto, Forget, TypeOK
  <2>2. ASSUME NEW a \in Apps
        PROVE  /\ OneBatch(txn'.apps[a].borrowers)
               /\ txn'.apps[a].borrowers # db.apps[a].borrowers => Replacing(r, a)'
    <3>1. CASE txn'.apps[a].borrowers = db.apps[a].borrowers
      BY <3>1 DEF WholeInv
    <3>2. CASE /\ op[r].kind = "patch" /\ op[r].app = a /\ "borrowers" \in op[r].keys
               /\ txn'.apps[a].borrowers = (db.apps[a].borrowers \ seen[r].borrowers)
                    \cup {[person |-> p, batch |-> r] : p \in op[r].people}
      <4>1. op[r].people = {} \/ seen[r].borrowers = db.apps[a].borrowers
        BY <2>1, <3>2 DEF WholeInv, Row
      <4>2. OneBatch(db.apps[a].borrowers)
        BY DEF WholeInv
      <4>3. OneBatch(txn'.apps[a].borrowers)
        BY <3>2, <4>1, <4>2 DEF OneBatch
      <4>4. QED
        BY <2>1, <3>2, <4>3 DEF Replacing
    <3>3. QED
      BY <1>3, <3>1, <3>2, WrittenBorrowers
  <2>3. QED
    BY <2>1, <2>2 DEF WholeInv, Row
<1>4. ASSUME NEW r \in Requests, Commit(r) PROVE WholeInv'
  <2>1. /\ pc[r] = "commit" /\ db' = txn /\ UNCHANGED <<txn, op, seen>>
        /\ pc'[r] \in {"unlink", "ok"}
        /\ \A q \in Requests \ {r} : pc'[q] = pc[q]
    BY <1>4 DEF Commit, Goto, TypeOK
  <2>2. ASSUME NEW q \in Requests, op[q].kind = "patch", "borrowers" \in op[q].keys,
               pc[q] = "write"
        PROVE  txn.apps[op[q].app].borrowers = Row(q).borrowers
    <3>1. op[q].app \in Apps
      BY <2>2, OpTypes DEF Patch
    <3>2. Replacing(q, op[q].app) /\ q # r
      BY <2>1, <2>2 DEF Replacing
    <3>3. ~Replacing(r, op[q].app)
      BY <3>1, <3>2 DEF Apart
    <3>4. writer = r
      BY <1>0, <2>1
    <3>5. QED
      BY <3>1, <3>3, <3>4 DEF WholeInv, Row
  <2>3. QED
    BY <2>1, <2>2 DEF WholeInv, Row
<1>5. ASSUME NEW r \in Requests, RefuseSimulation(r) \/ Fault(r) PROVE WholeInv'
  <2>1. PICK label \in {"refused", "failed"} : Goto(r, label) /\ Rollback(r)
    BY <1>5 DEF RefuseSimulation, Fault
  <2>2. /\ UNCHANGED <<db, op>>
        /\ pc'[r] \in {"refused", "failed"}
        /\ \A q \in Requests \ {r} : pc'[q] = pc[q] /\ seen'[q] = seen[q]
        /\ txn' = db \/ (txn' = txn /\ writer' = writer /\ writer # r)
    BY <2>1 DEF Goto, Rollback, Unlock, Forget, TypeOK
  <2>3. QED
    BY <1>0, <2>2 DEF WholeInv, Replacing, Row
<1>6. CASE Crash
  <2>1. /\ \A q \in Requests : pc'[q] \notin {"reload", "write"}
        /\ txn' = db /\ UNCHANGED <<db, op>>
    BY <1>6 DEF Crash, Active, InFlight, TypeOK
  <2>2. QED
    BY <2>1 DEF WholeInv
<1>7. CASE UNCHANGED vars
  BY <1>7 DEF vars, WholeInv, Replacing, Row
<1>8. QED
  BY <1>1, <1>2, <1>3, <1>4, <1>5, <1>6, <1>7 DEF Next, Step, Quiet

\* A PATCH replaces a borrower collection as a whole (API-037) as long as, for
\* each application, no second PATCH loads rows to delete while the first has
\* loaded its own and not committed: the overlap that replace_borrowers leaves
\* open is the only way to the mixed collection file_borrowers_mixed shows.
THEOREM BorrowersWholeApart == Spec /\ []Apart => []BorrowersWhole
<1>1. Init => WholeInv
  BY DEF Init, NoOp, Draft, WholeInv, OneBatch
<1>2. WholeInv => BorrowersWhole
  BY DEF WholeInv, OneBatch, BorrowersWhole
<1>3. QED
  BY <1>1, <1>2, WholeInvStep, Invariants, PTL DEF Spec
=============================================================================

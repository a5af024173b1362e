---------------------------- MODULE FileRequests ----------------------------
(***************************************************************************)
(* The request handlers that change a mortgage file: PATCH and submit of   *)
(* applications/service.py, upload, delete and download of                 *)
(* documents/service.py, run concurrently over one SQLite database and one *)
(* blob directory.                                                         *)
(*                                                                         *)
(* Every await is a point where other requests run.  Before a handler's    *)
(* first write its SELECTs run in autocommit, each on the latest committed *)
(* state; its first INSERT, UPDATE or DELETE takes SQLite's one write lock *)
(* (or gives up after the busy timeout), and from there to the commit it   *)
(* alone writes, reading its own writes.  The steps of a handler below are *)
(* its reads before the lock, the write, the commit, and what follows it.  *)
(*                                                                         *)
(*   db      the committed tables                                          *)
(*   writer  the request that holds the write lock, or NoRequest           *)
(*   txn     the tables as the writer sees them; db when there is none     *)
(*   blobs   the keys of the files on disk                                 *)
(*   pc, op  where each request is, and what it asks for                   *)
(*   seen    the application row a PATCH has loaded and not yet used       *)
(*   faults  crashes and errors so far, at most MaxFaults                  *)
(***************************************************************************)
EXTENDS FileTables, Naturals

CONSTANTS
    NoRequest,   \* nobody holds the write lock
    Asked,       \* bound: what clients ask for
    MaxActive,   \* bound: requests in flight at the same time
    MaxFaults    \* bound: crashes and internal errors in a behaviour

ASSUME RequestsAssumption ==
    /\ NoRequest \notin Requests
    /\ "EXISTING" \in PropertyType
    /\ MaxActive \in Nat
    /\ MaxFaults \in Nat

VARIABLES db, writer, txn, blobs, pc, op, seen, faults
vars == <<db, writer, txn, blobs, pc, op, seen, faults>>

\* What a request may ask for. Only the keys a PATCH carries are touched; the
\* people and the property of a payload without that key mean nothing.
Patch == [kind : {"patch"}, app : Apps,
          keys : SUBSET {"borrowers", "property", "simulation_id"},
          people : SUBSET Person, property : PropertyType]
Submit == [kind : {"submit"}, app : Apps]
Upload == [kind : {"upload"}, app : Apps, doc_type : DocumentType]
Delete == [kind : {"delete"}, app : Apps, id : Requests]
Download == [kind : {"download"}, app : Apps, id : Requests]
NoOp == [kind |-> "none"]

Op == Patch \cup Submit \cup Upload \cup Delete \cup Download \cup {NoOp}

ASSUME AskedAssumption == Asked \subseteq Op \ {NoOp}

InFlight == {"read", "borrowers", "reload", "write", "save", "commit", "unlink", "load"}
Answered == {"ok", "refused", "failed", "corrupt"}

TypeOK ==
    /\ db \in File
    /\ txn \in File
    /\ writer \in Requests \cup {NoRequest}
    /\ blobs \subseteq Requests
    /\ pc \in [Requests -> {"idle"} \cup InFlight \cup Answered]
    /\ op \in [Requests -> Op]
    /\ seen \in [Requests -> Application]
    /\ faults \in Nat

Init ==
    /\ db = [apps |-> [a \in Apps |-> Draft], docs |-> {}]
    /\ txn = db
    /\ writer = NoRequest
    /\ blobs = {}
    /\ pc = [r \in Requests |-> "idle"]
    /\ op = [r \in Requests |-> NoOp]
    /\ seen = [r \in Requests |-> Draft]
    /\ faults = 0

Active == {r \in Requests : pc[r] \in InFlight}

Goto(r, label) == pc' = [pc EXCEPT ![r] = label]

\* Request r has finished with the row it had loaded.
Forget(r) == seen' = [seen EXCEPT ![r] = Draft]

Row(r) == db.apps[op[r].app]

-----------------------------------------------------------------------------
(* The start of a request, and the first read of every handler. *)

\* Document ids are random: a client can only name one it has been shown.
Known(o) == o.kind \in {"delete", "download"} => \E d \in db.docs : d.id = o.id

Start(r, o) ==
    /\ pc[r] = "idle"
    /\ Cardinality(Active) < MaxActive
    /\ Known(o)
    /\ op' = [op EXCEPT ![r] = o]
    /\ Goto(r, "read")
    /\ UNCHANGED <<db, writer, txn, blobs, seen, faults>>

\* get_owned and the checks on what it returned, up to the next await.
ReadPatch(r) ==
    /\ pc[r] = "read" /\ op[r].kind = "patch"
    /\ IF Row(r).status \in LockedForEditing
         THEN Goto(r, "refused") /\ UNCHANGED seen
         ELSE /\ Goto(r, IF "borrowers" \in op[r].keys THEN "borrowers" ELSE "reload")
              /\ seen' = [seen EXCEPT ![r] = Row(r)]
    /\ UNCHANGED <<db, writer, txn, blobs, op, faults>>

\* A submission of anything but a draft, or of an incomplete one, is refused.
ReadSubmit(r) ==
    /\ pc[r] = "read" /\ op[r].kind = "submit"
    /\ Goto(r, IF Submittable(Row(r)) /\ Row(r).status = "DRAFT"
                 THEN "reload" ELSE "refused")
    /\ UNCHANGED <<db, writer, txn, blobs, op, seen, faults>>

\* Planted mistake: an upload does not look at the status.
ReadUploadAnyStatus(r) ==
    /\ pc[r] = "read" /\ op[r].kind = "upload"
    /\ Goto(r, IF op[r].doc_type \in ChecklistTypes(People(Row(r)), Row(r).property)
                 THEN "save" ELSE "refused")
    /\ UNCHANGED <<db, writer, txn, blobs, op, seen, faults>>

\* The status and checklist checks of an upload.
ReadUpload(r) ==
    /\ pc[r] = "read" /\ op[r].kind = "upload"
    /\ Goto(r, IF /\ Row(r).status \in UploadOpenStates
                  /\ op[r].doc_type \in ChecklistTypes(People(Row(r)), Row(r).property)
                 THEN "save" ELSE "refused")
    /\ UNCHANGED <<db, writer, txn, blobs, op, seen, faults>>

\* _get_owned_document for a delete and for a download.
ReadDocument(r) ==
    /\ pc[r] = "read" /\ op[r].kind \in {"delete", "download"}
    /\ Goto(r, IF \E d \in db.docs : d.id = op[r].id /\ d.app = op[r].app
                 THEN (IF op[r].kind = "delete" THEN "write" ELSE "load")
                 ELSE "refused")
    /\ UNCHANGED <<db, writer, txn, blobs, op, seen, faults>>

-----------------------------------------------------------------------------
(* The reads of PATCH and submit that decide what their flush writes. *)

\* replace_borrowers loads the rows it is going to delete. Clearing an empty
\* collection and adding nothing flushes nothing, so no lock is taken for it.
LoadBorrowers(r) ==
    /\ pc[r] = "borrowers" /\ op[r].kind = "patch"
    /\ seen' = [seen EXCEPT ![r].borrowers = Row(r).borrowers]
    /\ Goto(r, IF Row(r).borrowers = {} /\ op[r].people = {} THEN "reload" ELSE "write")
    /\ UNCHANGED <<db, writer, txn, blobs, op, faults>>

\* The property section a PATCH is going to state: its own, or that of the
\* simulation it attaches, which keeps the property type read by get_owned.
StatedProperty(r) ==
    IF "property" \in op[r].keys THEN op[r].property
    ELSE IF seen[r].property = NoProperty THEN "EXISTING" ELSE seen[r].property

StatesProperty(r) == op[r].keys \cap {"property", "simulation_id"} # {}

\* repository.update loads the row outside any transaction and flushes what
\* differs from it; nothing to write means no lock and no change. Attaching a
\* simulation writes its link first, unless it is linked already, and then the
\* property is written under the lock that write took.
ReloadPatch(r) ==
    /\ pc[r] = "reload" /\ op[r].kind = "patch"
    /\ \/ /\ "simulation_id" \in op[r].keys
             \/ (StatesProperty(r) /\ StatedProperty(r) # Row(r).property)
          /\ Goto(r, "write")
          /\ UNCHANGED seen
       \/ /\ StatesProperty(r) => StatedProperty(r) = Row(r).property
          /\ Goto(r, "ok")
          /\ Forget(r)
    /\ UNCHANGED <<db, writer, txn, blobs, op, faults>>

\* Planted mistake: a submit that lost the race waits for its turn again.
ReloadSubmitRetried(r) ==
    /\ pc[r] = "reload" /\ op[r].kind = "submit"
    /\ Goto(r, IF Row(r).status = "DOCUMENTS_PENDING" THEN "reload" ELSE "write")
    /\ UNCHANGED <<db, writer, txn, blobs, op, seen, faults>>

\* The status flush of a submit, likewise.
ReloadSubmit(r) ==
    /\ pc[r] = "reload" /\ op[r].kind = "submit"
    /\ Goto(r, IF Row(r).status = "DOCUMENTS_PENDING" THEN "ok" ELSE "write")
    /\ UNCHANGED <<db, writer, txn, blobs, op, seen, faults>>

\* Planted mistake: the error of a failed write is swallowed.
SaveBlobSwallowed(r) ==
    /\ pc[r] = "save" /\ op[r].kind = "upload"
    /\ \E written \in BOOLEAN : blobs' = IF written THEN blobs \cup {r} ELSE blobs
    /\ Goto(r, "write")
    /\ UNCHANGED <<db, writer, txn, op, seen, faults>>

\* storage.save: the blob is on disk before the row exists. Nothing runs between
\* the checks and the save, but the process may stop there.
SaveBlob(r) ==
    /\ pc[r] = "save" /\ op[r].kind = "upload"
    /\ blobs' = blobs \cup {r}
    /\ Goto(r, "write")
    /\ UNCHANGED <<db, writer, txn, op, seen, faults>>

-----------------------------------------------------------------------------
(* The first flush takes the write lock; the handler's further reads and     *)
(* writes happen under it, so nobody sees a state between them.              *)

\* Request r takes the free lock and leaves its uncommitted tables as "after".
TakeLock(r, after) ==
    /\ pc[r] = "write"
    /\ writer = NoRequest
    /\ writer' = r
    /\ txn' = after
    /\ Goto(r, "commit")
    /\ Forget(r)
    /\ UNCHANGED <<db, blobs, op, faults>>

\* The loaded borrower rows are deleted, not whatever is there by now.
WithBorrowers(r, app) ==
    IF "borrowers" \notin op[r].keys THEN app
    ELSE [app EXCEPT !.borrowers =
            (@ \ seen[r].borrowers) \cup {[person |-> p, batch |-> r] : p \in op[r].people}]

\* Under the lock nobody else writes, so stating the value that is there already
\* changes as little as the flush that leaves it out.
WithProperty(r, app) ==
    IF StatesProperty(r) THEN [app EXCEPT !.property = StatedProperty(r)] ELSE app

WritePatch(r) ==
    /\ op[r].kind = "patch"
    /\ TakeLock(r, [db EXCEPT !.apps[op[r].app] = WithProperty(r, WithBorrowers(r, @))])

WriteSubmit(r) ==
    /\ op[r].kind = "submit"
    /\ TakeLock(r, [db EXCEPT !.apps[op[r].app].status = "DOCUMENTS_PENDING"])

\* INSERT of the row, then _recompute on documents and answers as they are now.
WriteUpload(r) ==
    /\ op[r].kind = "upload"
    /\ TakeLock(r, Recompute([db EXCEPT !.docs = @ \cup
           {[id |-> r, app |-> op[r].app, doc_type |-> op[r].doc_type]}], op[r].app))

\* Planted mistake: a delete leaves the status alone.
WriteDeleteNoRecompute(r) ==
    /\ op[r].kind = "delete"
    /\ TakeLock(r, [db EXCEPT !.docs = {d \in @ : d.id # op[r].id}])

\* Planted mistake: a delete unlinks the blob before it commits.
WriteDeleteUnlinks(r) ==
    /\ op[r].kind = "delete"
    /\ pc[r] = "write" /\ writer = NoRequest
    /\ writer' = r
    /\ txn' = Recompute([db EXCEPT !.docs = {d \in @ : d.id # op[r].id}], op[r].app)
    /\ blobs' = blobs \ {op[r].id}
    /\ Goto(r, "commit")
    /\ UNCHANGED <<db, op, seen, faults>>

\* DELETE by id, which may find the row gone, then _recompute.
WriteDelete(r) ==
    /\ op[r].kind = "delete"
    /\ TakeLock(r, Recompute([db EXCEPT !.docs = {d \in @ : d.id # op[r].id}], op[r].app))

\* SQLite gives up waiting for a lock another request holds.
BusyTimeout(r) ==
    /\ pc[r] = "write"
    /\ writer \notin {NoRequest, r}
    /\ Goto(r, "failed")
    /\ Forget(r)
    /\ UNCHANGED <<db, writer, txn, blobs, op, faults>>

\* The lock is gone, whatever it guarded.
Unlock == writer' = NoRequest

\* Planted mistake: a delete leaves the blob to somebody else.
CommitNoUnlink(r) ==
    /\ pc[r] = "commit"
    /\ db' = txn
    /\ Unlock
    /\ Goto(r, "ok")
    /\ UNCHANGED <<txn, blobs, op, seen, faults>>

\* The commit publishes the writer's tables and frees the lock.
Commit(r) ==
    /\ pc[r] = "commit"
    /\ db' = txn
    /\ Unlock
    /\ Goto(r, IF op[r].kind = "delete" THEN "unlink" ELSE "ok")
    /\ UNCHANGED <<txn, blobs, op, seen, faults>>

\* The session of request r closes without a commit.
Rollback(r) ==
    /\ IF writer = r THEN txn' = db /\ Unlock ELSE UNCHANGED <<txn, writer>>
    /\ Forget(r)
    /\ UNCHANGED <<db, blobs, op>>

\* attach_simulation refuses a simulation that is not this borrower's. If the
\* PATCH carried borrowers too, they have been flushed by then.
RefuseSimulation(r) ==
    /\ op[r].kind = "patch" /\ "simulation_id" \in op[r].keys
    /\ \/ pc[r] = "reload"
       \/ pc[r] = "commit" /\ "borrowers" \in op[r].keys
    /\ Rollback(r)
    /\ Goto(r, "refused")
    /\ UNCHANGED faults

\* The blob goes after the commit, and may already be gone.
UnlinkBlob(r) ==
    /\ pc[r] = "unlink"
    /\ blobs' = blobs \ {op[r].id}
    /\ Goto(r, "ok")
    /\ UNCHANGED <<db, writer, txn, op, seen, faults>>

LoadBlob(r) ==
    /\ pc[r] = "load"
    /\ Goto(r, IF op[r].id \in blobs THEN "ok" ELSE "corrupt")
    /\ UNCHANGED <<db, writer, txn, blobs, op, seen, faults>>

-----------------------------------------------------------------------------
(* Errors no handler catches, and the death of the process. *)

\* Request r dies of an error (disk full, I/O): its session rolls back.
Fault(r) ==
    /\ faults < MaxFaults
    /\ faults' = faults + 1
    /\ pc[r] \in InFlight
    /\ Goto(r, "failed")
    /\ Rollback(r)

\* The disk fails an upload, with or without a part of the file left behind.
SaveFails(r) ==
    /\ faults < MaxFaults
    /\ faults' = faults + 1
    /\ pc[r] = "save" /\ op[r].kind = "upload"
    /\ blobs' \in {blobs, blobs \cup {r}}
    /\ Goto(r, "failed")
    /\ UNCHANGED <<db, writer, txn, op, seen>>

\* The process stops and starts again: committed tables and blobs survive.
Crash ==
    /\ faults < MaxFaults
    /\ faults' = faults + 1
    /\ Active # {}
    /\ pc' = [r \in Requests |-> IF r \in Active THEN "failed" ELSE pc[r]]
    /\ seen' = [r \in Requests |-> Draft]
    /\ txn' = db
    /\ Unlock
    /\ UNCHANGED <<db, blobs, op>>

Step(r) ==
    \/ ReadPatch(r) \/ ReadSubmit(r) \/ ReadUpload(r) \/ ReadDocument(r)
    \/ LoadBorrowers(r) \/ ReloadPatch(r) \/ ReloadSubmit(r) \/ SaveBlob(r)
    \/ WritePatch(r) \/ WriteSubmit(r) \/ WriteUpload(r) \/ WriteDelete(r)
    \/ BusyTimeout(r) \/ Commit(r) \/ RefuseSimulation(r)
    \/ UnlinkBlob(r) \/ LoadBlob(r)

\* Nothing is in flight; more requests may or may not come.
Quiet == Active = {} /\ UNCHANGED vars

Next ==
    \/ \E r \in Requests :
         \/ \E o \in Asked : Start(r, o)
         \/ Step(r)
         \/ Fault(r) \/ SaveFails(r)
    \/ Crash
    \/ Quiet

Spec == Init /\ [][Next]_vars

\* The event loop runs every coroutine that can go on, and a request that waits
\* for the lock either gets it or times out. No request has to be made, and
\* nothing has to fail.
FairSpec == Spec /\ \A r \in Requests : WF_vars(Step(r))

-----------------------------------------------------------------------------
(* Properties *)

\* Every document row, committed or about to be, has its file on disk: upload
\* saves before it inserts, delete unlinks after it commits, and neither a crash
\* nor a second delete of the same document can separate the two
\* (documents/service.py upload and delete, CQ-091).
RowHasBlob == \A d \in db.docs \cup txn.docs : d.id \in blobs

\* Why: the lock is held exactly between a flush and its commit; a row is only
\* inserted by the one request it is named after, whose blob is already there;
\* and a delete that is about to unlink names an upload that is long finished.
LockHeld ==
    /\ \A r \in Requests : writer = r <=> pc[r] = "commit"
    /\ writer = NoRequest => txn = db

RowsSettled ==
    /\ \A d \in db.docs : pc[d.id] = "ok" /\ d.id \in blobs
    /\ \A d \in txn.docs \ db.docs :
         d.id = writer /\ d.id \in blobs /\ op[d.id].kind = "upload"

UploadsSaved ==
    \A r \in Requests : pc[r] = "write" /\ op[r].kind = "upload" => r \in blobs

DeletesSettled ==
    \A r \in Requests :
       /\ pc[r] = "unlink" => op[r].kind = "delete"
       /\ pc[r] \in {"write", "commit", "unlink"} /\ op[r].kind = "delete"
            => op[r].id \in Requests /\ pc[op[r].id] = "ok"
       /\ pc[r] = "commit" /\ op[r].kind = "delete" => \A d \in txn.docs : d.id # op[r].id
       /\ pc[r] = "unlink" => \A d \in db.docs : d.id # op[r].id

BlobInv == LockHeld /\ RowsSettled /\ UploadsSaved /\ DeletesSettled

\* A file without a row is one an upload has not inserted yet or failed to
\* insert, or one a delete has not unlinked yet or failed to (VAL-021).
OrphansExplained ==
    \A k \in blobs : k \in {d.id : d \in db.docs}
        \/ pc[k] \in {"write", "commit", "failed"}
        \/ \E r \in Requests : /\ op[r].kind = "delete" /\ op[r].id = k
                              /\ pc[r] \in {"unlink", "failed"}

\* A download is answered STORAGE_CORRUPT only when it has lost a race with a
\* delete of its document: the row it read is gone for good, and no row that
\* still stands points at a missing file (documents/service.py download).  So it
\* is the wrong error: "a real inconsistency rather than a missing file"
\* (core/storage.py:88) is what it never reports (README, Findings).
CorruptMeansDeleted ==
    \A r \in Requests : pc[r] = "corrupt" => \A d \in db.docs : d.id # op[r].id

\* Whatever left the draft state has a property section, although submit checks
\* a row it read before the lock. With no section the checklist would be empty
\* and any document would complete the file (service.py checklist).
SubmittedIsFilled ==
    \A a \in Apps : db.apps[a].status # "DRAFT" => db.apps[a].property # NoProperty

\* A status only moves along the edges of state_machine.py, the submission
\* through SUBMITTED in one go, although a late submit and a recomputation both
\* write a status they chose from a row read earlier or by someone else
\* (service.py submit and recompute_status, APP-001 to APP-004).
StatusFollowsMachine ==
    [][\A a \in Apps :
         LET from == db.apps[a].status
             to == db'.apps[a].status
         IN  from # to =>
               \/ to \in ALLOWED_TRANSITIONS[from]
               \/ /\ "SUBMITTED" \in ALLOWED_TRANSITIONS[from]
                  /\ to \in ALLOWED_TRANSITIONS["SUBMITTED"]]_vars

\* A document's row changes together with the status its application has by
\* that change: once the upload or delete is committed, status, documents and
\* answers agree (documents/service.py upload docstring, API-049).
DocumentChangesAgree ==
    [][\A a \in Apps : Uploaded(db', a) # Uploaded(db, a) => StatusAgrees(db', a)]_vars

\* The handlers implement the indivisible file.
Atomic == INSTANCE AtomicFile WITH file <- db
ImplementsAtomicFile == Atomic!Spec

\* Why: what a writer has staged is one indivisible change of the committed file,
\* nobody else commits while it is staged, and what each handler checked before
\* the lock is something no committed change takes back.
Staged == txn = db \/ Atomic!Change(db, txn)

DocsNamed == \A d \in db.docs \cup txn.docs : d.app = op[d.id].app

ChecksHold ==
    \A r \in Requests :
       /\ pc[r] \in {"save", "write"} /\ op[r].kind = "upload"
            => Row(r).status \in UploadOpenStates
       /\ pc[r] \in {"reload", "write"} /\ op[r].kind = "submit"
            => Row(r).property # NoProperty
       /\ pc[r] = "write" /\ op[r].kind = "delete"
            => op[op[r].id].app = op[r].app

FileInv == Staged /\ DocsNamed /\ ChecksHold /\ SubmittedIsFilled

\* Every request that is made is answered, lock contention included.
AllAnswered == \A r \in Requests : pc[r] \in InFlight ~> pc[r] \in Answered

\* VAL-020 and CQ-087: after any committed change the status is the one the
\* documents and answers call for.
StatusAlwaysAgrees == \A a \in Apps : StatusAgrees(db, a)

\* API-037: a borrower collection is replaced as a whole.
BorrowersWhole ==
    \A a \in Apps : \A b, c \in db.apps[a].borrowers : b.batch = c.batch
=============================================================================

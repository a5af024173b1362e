------------------------------ MODULE FilePage ------------------------------
(***************************************************************************)
(* The page of one mortgage file (application-wizard.component.ts) over    *)
(* the server, and the two views the server assembles from several reads:  *)
(* the checklist and the list of applications (documents/service.py).      *)
(*                                                                         *)
(* A change of the file is the step that commits it; what its handler does *)
(* before that is the subject of FileRequests.  A view is assembled from   *)
(* several SELECTs, each of the tables as they are committed by then:      *)
(* reading an application is two of them, its row and then its borrowers.  *)
(* Calls run side by side and their answers reach the page in any order;   *)
(* an answer may be an error, or be lost.                                  *)
(*                                                                         *)
(* Every committed change gets the next version; shown and newest say      *)
(* which version the page displays and which is the newest it was sent.    *)
(***************************************************************************)
EXTENDS FileTables, Naturals

CONSTANTS
    App,         \* the application the page is about
    Edits,       \* the answers a borrower saves
    Answers,     \* those the page opens with
    Given,       \* the documents a submitted file opens with
    NoView,      \* no checklist has arrived
    MaxLost      \* answers lost, or replaced by an error after the change

First == CHOOSE r \in Requests : TRUE

ASSUME FilePageAssumption ==
    /\ App \in Apps
    /\ IsFiniteSet(Requests) /\ Requests # {}
    /\ Edits \cup {Answers} \subseteq [people : SUBSET Person, property : PropertyType]
    /\ Given \subseteq [id : {First}, app : {App}, doc_type : DocumentType]
    /\ MaxLost \in Nat

VARIABLES
    file,          \* the committed tables
    version,       \* how many changes have been committed
    classified,    \* the documents the classifier is done with
    op, pc,        \* the calls of the page
    got,           \* what the server has read for a call, and its answer
    status, view,  \* the signals application().status and checklist()
    busy,          \* savingAnswers, submitting, savingFinancials
    shown, newest, lost

server == <<file, version, classified>>
page == <<status, view, busy, shown, newest, lost>>
vars == <<server, op, pc, got, page>>

\* Calls that change the file, and whose success the page follows up.
Changing == {"upload", "delete", "answers", "submit"}

\* Planted mistake: removing a document leaves the checklist as it is.
RefreshedNotDelete == {"upload", "answers", "submit"}

\* The calls after which the page asks for the checklist again.
Refreshed == Changing

\* The saves a borrower presses a button for, each with a signal of its own.
Guarded == {"answers", "submit", "financials"}

NoOp == [kind |-> "none"]
NoGot == [at |-> 0]

\* The checklist rows: what is asked for, what is covered, by which documents.
Rows(app, docs) ==
    LET asked == ChecklistTypes(People(app), app.property)
        mine == {d \in docs : d.app = App}
    IN  [required |-> asked,
         satisfied |-> {t \in asked : \E d \in mine : d.doc_type = t},
         docs |-> {d \in mine : d.doc_type \in asked}]

\* Planted mistake: a document counts although nothing asks for it any more.
CountsKept(app, types) ==
    LET asked == ChecklistTypes(People(app), app.property)
    IN  [required |-> Cardinality(asked), satisfied |-> Cardinality(types)]

\* _checklist_counts: of one row of the list.
Counts(app, types) ==
    LET asked == ChecklistTypes(People(app), app.property)
    IN  [required |-> Cardinality(asked), satisfied |-> Cardinality(asked \cap types)]

Idle == {r \in Requests : pc[r] = "idle"}
Fresh == CHOOSE r \in Requests : pc[r] = "idle"
Out == {r \in Requests : pc[r] \notin {"idle", "done"}}

\* A file with its answers given, submitted or not.
Opened(s, docs) ==
    LET app == [status |-> s, property |-> Answers.property,
                borrowers |-> {[person |-> p, batch |-> First] : p \in Answers.people}]
    IN  Recompute([apps |-> [a \in Apps |-> IF a = App THEN app ELSE Draft],
                   docs |-> docs], App)

\* The page of a submitted file has asked for its checklist (hydrate).
Init ==
    /\ \/ /\ file = Opened("DRAFT", {})
          /\ op = [r \in Requests |-> NoOp]
          /\ pc = [r \in Requests |-> IF r = First THEN "done" ELSE "idle"]
       \/ /\ file = Opened("DOCUMENTS_PENDING", Given)
          /\ op = [r \in Requests |-> IF r = First THEN [kind |-> "checklist"] ELSE NoOp]
          /\ pc = [r \in Requests |-> IF r = First THEN "sent" ELSE "idle"]
    /\ status = file.apps[App].status
    /\ version = 0 /\ classified = {}
    /\ got = [r \in Requests |-> NoGot]
    /\ view = NoView /\ busy = {} /\ lost = 0
    /\ shown = [status |-> 0, view |-> 0]
    /\ newest = [status |-> 0, view |-> 0]

-----------------------------------------------------------------------------
(* What the borrower does.  A call is made while there is an id left for it  *)
(* and for the checklist that every call under way may ask for.              *)

Owed == {r \in Out : op[r].kind \in Changing}

Send(o) ==
    /\ Cardinality(Idle) > Cardinality(Owed) + 1
    /\ op' = [op EXCEPT ![Fresh] = o]
    /\ pc' = [pc EXCEPT ![Fresh] = "sent"]
    /\ UNCHANGED <<server, got, status, view, shown, newest, lost>>

Displayed == view # NoView

SelectFile ==
    /\ Displayed
    /\ \E t \in view.rows.required : Send([kind |-> "upload", doc_type |-> t])
    /\ UNCHANGED busy

RemoveDocument ==
    /\ Displayed
    /\ \E d \in view.rows.docs : Send([kind |-> "delete", id |-> d.id])
    /\ UNCHANGED busy

MaySave(kind) == kind \notin busy

SaveAnswers ==
    /\ status # "DRAFT" /\ MaySave("answers")
    /\ \E e \in Edits :
         Send([kind |-> "answers", people |-> e.people, property |-> e.property])
    /\ busy' = busy \cup {"answers"}

Submit ==
    /\ status = "DRAFT" /\ MaySave("submit")
    /\ Send([kind |-> "submit"])
    /\ busy' = busy \cup {"submit"}

SaveFinancials ==
    /\ status # "DRAFT" /\ MaySave("financials")
    /\ Send([kind |-> "financials"])
    /\ busy' = busy \cup {"financials"}

\* The list of applications, opened beside this page.
OpenList ==
    /\ \A r \in Out : op[r].kind # "list"
    /\ Send([kind |-> "list"])
    /\ UNCHANGED busy

-----------------------------------------------------------------------------
(* What the server does. *)

\* Call r changes the file and is answered with the status it left.
Change(r, new) ==
    /\ file' = new
    /\ version' = version + 1
    /\ got' = [got EXCEPT ![r] = [at |-> version + 1, status |-> new.apps[App].status]]
    /\ pc' = [pc EXCEPT ![r] = "answered"]
    /\ UNCHANGED <<classified, op, page>>

ServeUpload(r) ==
    /\ op[r].kind = "upload" /\ pc[r] = "sent"
    /\ file.apps[App].status \in UploadOpenStates
    /\ Change(r, Recompute([file EXCEPT !.docs = @ \cup
           {[id |-> r, app |-> App, doc_type |-> op[r].doc_type]}], App))

\* delete: get_owned and the document's row, then the change.  A document that
\* another call deletes in between is deleted without effect, and the answer is
\* the same.
FindDocument(r) ==
    /\ op[r].kind = "delete" /\ pc[r] = "sent"
    /\ \E d \in file.docs : d.id = op[r].id
    /\ pc' = [pc EXCEPT ![r] = "found"]
    /\ UNCHANGED <<server, op, got, page>>

Without(id) == Recompute([file EXCEPT !.docs = {d \in @ : d.id # id}], App)

ServeDelete(r) ==
    /\ op[r].kind = "delete" /\ pc[r] = "found"
    /\ Change(r, Without(op[r].id))

\* The blob cannot be unlinked: an error, after the commit.
FailUnlink(r) ==
    /\ op[r].kind = "delete" /\ pc[r] = "found" /\ lost < MaxLost
    /\ file' = Without(op[r].id)
    /\ version' = version + 1
    /\ lost' = lost + 1
    /\ pc' = [pc EXCEPT ![r] = "refused"]
    /\ UNCHANGED <<classified, op, got, status, view, busy, shown, newest>>

\* No view tells one inserted row from another: their batch stays what it was.
ServeAnswers(r) ==
    /\ op[r].kind = "answers" /\ pc[r] = "sent"
    /\ file.apps[App].status \notin LockedForEditing
    /\ Change(r, [file EXCEPT
           !.apps[App].borrowers = {[person |-> p, batch |-> First] : p \in op[r].people},
           !.apps[App].property = op[r].property])

ServeSubmit(r) ==
    /\ op[r].kind = "submit" /\ pc[r] = "sent"
    /\ file.apps[App].status = "DRAFT" /\ Submittable(file.apps[App])
    /\ Change(r, [file EXCEPT !.apps[App].status = "DOCUMENTS_PENDING"])

\* The financial profile is no part of the file.
ServeFinancials(r) ==
    /\ op[r].kind = "financials" /\ pc[r] = "sent"
    /\ pc' = [pc EXCEPT ![r] = "answered"]
    /\ UNCHANGED <<server, op, got, page>>

\* A change may be refused: by a check, by the lock, by an error before the commit.
Refuse(r) ==
    /\ pc[r] \in {"sent", "found"} /\ op[r].kind \in Changing \cup Guarded
    /\ pc' = [pc EXCEPT ![r] = "refused"]
    /\ UNCHANGED <<server, op, got, page>>

Read(r, kind, from, to, what) ==
    /\ op[r].kind = kind /\ pc[r] = from
    /\ got' = [got EXCEPT ![r] = what]
    /\ pc' = [pc EXCEPT ![r] = to]
    /\ UNCHANGED <<server, op, page>>

\* checklist: get_owned, which selects the application's row and then its
\* borrowers, then the documents, from which the rows are derived, then the
\* classifications of the documents that are left.
ReadApplication(r) ==
    Read(r, "checklist", "sent", "owned", [at |-> version, first |-> file])

\* Borrowers as committed now, in an application whose row was read before.
Borrowing(app) == [app EXCEPT !.borrowers = file.apps[App].borrowers]

ReadBorrowers(r) ==
    Read(r, "checklist", "owned", "derive",
         [at |-> got[r].at, first |-> got[r].first,
          app |-> Borrowing(got[r].first.apps[App])])

ReadDocuments(r) ==
    Read(r, "checklist", "derive", "classify",
         [at |-> got[r].at, rows |-> Rows(got[r].app, file.docs)])

ReadClassifications(r) ==
    Read(r, "checklist", "classify", "answered",
         [at |-> got[r].at, rows |-> got[r].rows,
          advice |-> {d.id : d \in got[r].rows.docs \cap file.docs} \cap classified])

\* list_applications: the ids, which applications never lose, then the types
\* uploaded to them, then the applications' rows, then their borrowers.
ReadTypes(r) ==
    Read(r, "list", "sent", "count",
         [at |-> version, first |-> file, types |-> Uploaded(file, App)])

ReadApplications(r) ==
    Read(r, "list", "count", "rows",
         [at |-> got[r].at, first |-> got[r].first, types |-> got[r].types,
          app |-> file.apps[App]])

ReadTheirBorrowers(r) ==
    Read(r, "list", "rows", "answered",
         [at |-> got[r].at, status |-> got[r].app.status,
          counts |-> Counts(Borrowing(got[r].app), got[r].types)])

\* The background task annotates a document.
Classify ==
    /\ \E d \in file.docs : classified' = classified \cup {d.id}
    /\ UNCHANGED <<file, version, op, pc, got, page>>

-----------------------------------------------------------------------------
(* What the page does with an answer. *)

Later(m, n) == IF m < n THEN n ELSE m

\* Signal s displays what was answered at version "at".
Display(s, at) ==
    /\ shown' = [shown EXCEPT ![s] = at]
    /\ newest' = [newest EXCEPT ![s] = Later(@, at)]

\* Call r is over; the page asks for the checklist if the call says so.
Finish(r, refresh) ==
    /\ got' = [got EXCEPT ![r] = NoGot]
    /\ IF refresh
         THEN /\ pc' = [pc EXCEPT ![r] = "done", ![Fresh] = "sent"]
              /\ op' = [op EXCEPT ![r] = NoOp, ![Fresh] = [kind |-> "checklist"]]
         ELSE /\ pc' = [pc EXCEPT ![r] = "done"]
              /\ op' = [op EXCEPT ![r] = NoOp]

\* A save's signal is reset by its answer and by its error.
Release(r) == busy' = busy \ {op[r].kind}

DeliverChange(r) ==
    /\ pc[r] = "answered" /\ op[r].kind \in Changing
    /\ status' = got[r].status
    /\ Display("status", got[r].at)
    /\ Release(r)
    /\ Finish(r, op[r].kind \in Refreshed)
    /\ UNCHANGED <<server, view, lost>>

DeliverChecklist(r) ==
    /\ pc[r] = "answered" /\ op[r].kind = "checklist"
    /\ view' = [rows |-> got[r].rows, advice |-> got[r].advice]
    /\ Display("view", got[r].at)
    /\ Finish(r, FALSE)
    /\ UNCHANGED <<server, status, busy, lost>>

DeliverOther(r) ==
    /\ pc[r] = "answered" /\ op[r].kind \in {"financials", "list"}
    /\ Release(r)
    /\ Finish(r, FALSE)
    /\ UNCHANGED <<server, status, view, shown, newest, lost>>

\* Planted mistake: an error leaves the save's signal on.
DeliverErrorStuck(r) ==
    /\ pc[r] = "refused"
    /\ Finish(r, FALSE)
    /\ UNCHANGED <<server, status, view, busy, shown, newest, lost>>

\* Planted mistake: an error replaces the status.
DeliverErrorShown(r) ==
    /\ pc[r] = "refused"
    /\ Finish(r, FALSE)
    /\ Release(r)
    /\ status' = "ERROR"
    /\ UNCHANGED <<server, view, shown, newest, lost>>

\* An error resets the signal of the save and changes nothing that is displayed.
DeliverError(r) ==
    /\ pc[r] = "refused"
    /\ Finish(r, FALSE)
    /\ Release(r)
    /\ UNCHANGED <<server, status, view, shown, newest, lost>>

\* A call or its answer is lost: to the page an error, whatever the server did.
Lose(r) ==
    /\ r \in Out /\ pc[r] # "refused" /\ lost < MaxLost
    /\ lost' = lost + 1
    /\ pc' = [pc EXCEPT ![r] = "refused"]
    /\ got' = [got EXCEPT ![r] = NoGot]
    /\ UNCHANGED <<server, op, status, view, busy, shown, newest>>

-----------------------------------------------------------------------------
Borrower == SelectFile \/ RemoveDocument \/ SaveAnswers \/ Submit \/ SaveFinancials \/ OpenList

Serve(r) ==
    \/ ServeUpload(r) \/ FindDocument(r) \/ ServeDelete(r) \/ FailUnlink(r)
    \/ ServeAnswers(r) \/ ServeSubmit(r) \/ ServeFinancials(r) \/ Refuse(r)
    \/ ReadApplication(r) \/ ReadBorrowers(r) \/ ReadDocuments(r) \/ ReadClassifications(r)
    \/ ReadTypes(r) \/ ReadApplications(r) \/ ReadTheirBorrowers(r)

Deliver(r) == DeliverChange(r) \/ DeliverChecklist(r) \/ DeliverOther(r) \/ DeliverError(r)

\* Nothing is under way; the borrower may or may not go on.
Quiet == Out = {}

Next ==
    \/ Borrower \/ Classify
    \/ \E r \in Requests : Serve(r) \/ Deliver(r) \/ Lose(r)
    \/ Quiet /\ UNCHANGED vars

Spec == Init /\ [][Next]_vars

\* The server answers every call (FileRequests!AllAnswered), and the browser
\* hands every answer, or an error in its place, to the page.
FairSpec == Spec /\ \A r \in Requests : WF_vars(Serve(r) \/ Deliver(r))

-----------------------------------------------------------------------------
(* Properties *)

View == [rows : [required : SUBSET DocumentType, satisfied : SUBSET DocumentType,
                 docs : SUBSET Document],
         advice : SUBSET Requests]

ASSUME NoViewAssumption == NoView \notin View

TypeOK ==
    /\ file \in File
    /\ version \in Nat
    /\ classified \subseteq Requests
    /\ pc \in [Requests -> {"idle", "sent", "found", "owned", "derive", "classify",
                            "count", "rows", "answered", "refused", "done"}]
    /\ status \in Status
    /\ view \in View \cup {NoView}
    /\ busy \subseteq Guarded
    /\ lost \in 0..MaxLost

\* What a row of the list counts, of the rows of a checklist.
Tally(rows) == [required |-> Cardinality(rows.required),
                satisfied |-> Cardinality(rows.satisfied)]

\* A view is true of some moment between its first read and its last, as long as
\* at most one change was committed in between, and that change did not give the
\* file other borrowers together with another property type: then the view is
\* what the file said before the change, or after it.  A change of both can fall
\* between the application's row and its borrowers; the checklist then asks for
\* no document that neither file asks for, but may be true of neither
\* (documents/service.py checklist, list_applications; applications/repository.py
\* get, list_for_user).
ViewTrueOnce ==
    [][\A r \in Requests :
         LET near == version <= got[r].at + 1
             then == got[r].first.apps[App]
             now == file.apps[App]
             before == Rows(then, got[r].first.docs)
             after == Rows(now, file.docs)
             oneSided == People(then) = People(now) \/ then.property = now.property
         IN  /\ ReadDocuments(r) /\ near =>
                  got'[r].rows.required \subseteq before.required \cup after.required
             /\ ReadDocuments(r) /\ near /\ oneSided =>
                  got'[r].rows \in {before, after}
             /\ ReadTheirBorrowers(r) /\ near /\ oneSided =>
                  got'[r].counts \in {Tally(before), Tally(after)}]_vars

\* When nothing is under way, no answer was lost and no change that was made was
\* answered with an error, the page displays the file as it is, status and checklist, and no
\* advice the classifier has not given, whatever was pressed and however the
\* calls overlapped, unless an older answer arrived last in its signal's place
\* (application-wizard.component.ts refreshChecklist, onFileSelected).
QuietPageCurrent ==
    Quiet /\ lost = 0 /\ shown = newest =>
        /\ status = file.apps[App].status
        /\ view # NoView => /\ view.rows = Rows(file.apps[App], file.docs)
                            /\ view.advice \subseteq classified
        /\ status # "DRAFT" => view # NoView

\* Whichever save is under way, there is a later moment when its button works
\* again, error or loss included.
SavesEnd == \A k \in Guarded : []<>(k \notin busy)
=============================================================================

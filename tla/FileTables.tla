----------------------------- MODULE FileTables -----------------------------
(***************************************************************************)
(* The tables a mortgage file is stored in, and the rules about a status.  *)
(*                                                                         *)
(* A File is the content of the tables applications, borrowers and         *)
(* documents.  Uploads and borrower replacements are each made by one      *)
(* request, which gives their rows fresh ids, so a document row and the    *)
(* rows of one replaced borrower collection are named by that request.     *)
(***************************************************************************)
EXTENDS Checklist

CONSTANTS
    Apps,      \* application ids
    Requests   \* HTTP requests, each made once

Status == {"DRAFT", "SUBMITTED", "DOCUMENTS_PENDING", "DOCUMENTS_COMPLETE",
           "UNDER_REVIEW", "OFFER_ISSUED", "WITHDRAWN"}

Terminal == {"OFFER_ISSUED", "WITHDRAWN"}

\* state_machine.py: the edges, WITHDRAWN added to every non-terminal state.
ALLOWED_TRANSITIONS ==
    LET named == [DRAFT |-> {"SUBMITTED"},
                  SUBMITTED |-> {"DOCUMENTS_PENDING"},
                  DOCUMENTS_PENDING |-> {"DOCUMENTS_COMPLETE"},
                  DOCUMENTS_COMPLETE |-> {"DOCUMENTS_PENDING", "UNDER_REVIEW"},
                  UNDER_REVIEW |-> {"OFFER_ISSUED"},
                  OFFER_ISSUED |-> {},
                  WITHDRAWN |-> {}]
    IN  [s \in Status |-> named[s] \cup (IF s \in Terminal THEN {} ELSE {"WITHDRAWN"})]

\* applications/service.py: states a PATCH is refused in.
LockedForEditing == {"UNDER_REVIEW", "OFFER_ISSUED", "WITHDRAWN"}

\* documents/service.py: states an upload is accepted in.
UploadOpenStates == {"DOCUMENTS_PENDING", "DOCUMENTS_COMPLETE"}

\* One borrower row: what was answered, and the request that inserted it.
BorrowerRow == [person : Person, batch : Requests]

\* One application row together with its borrowers.
Application == [status : Status,
                borrowers : SUBSET BorrowerRow,
                property : PropertyType \cup {NoProperty}]

\* One document row. The id stands for the row's id and its storage key, both
\* generated by the uploading request.
Document == [id : Requests, app : Apps, doc_type : DocumentType]

File == [apps : [Apps -> Application], docs : SUBSET Document]

People(app) == {b.person : b \in app.borrowers}

\* The document types uploaded to application a.
Uploaded(file, a) == {d.doc_type : d \in {e \in file.docs : e.app = a}}

\* Whether the checklist of application a is satisfied by what is uploaded.
Satisfied(file, a) ==
    AllSatisfied(People(file.apps[a]), file.apps[a].property, Uploaded(file, a))

\* Planted mistake: a status no state machine knows.
RecomputedUnknown(file, a) ==
    IF file.apps[a].status \notin UploadOpenStates THEN file.apps[a].status
    ELSE IF Satisfied(file, a) THEN "COMPLETE" ELSE "DOCUMENTS_PENDING"

\* ApplicationService.recompute_status: the status application a moves to, from
\* the documents and the answers in the same file. Outside the two document
\* states nothing moves.
Recomputed(file, a) ==
    IF file.apps[a].status \notin UploadOpenStates THEN file.apps[a].status
    ELSE IF Satisfied(file, a) THEN "DOCUMENTS_COMPLETE" ELSE "DOCUMENTS_PENDING"

Recompute(file, a) == [file EXCEPT !.apps[a].status = Recomputed(file, a)]

\* Planted mistake: the property section is not validated.
SubmittableUnfilled(app) ==
    /\ app.borrowers # {}
    /\ \A b \in app.borrowers : b.person.of_age

\* ApplicationService._validate_for_submission.
Submittable(app) ==
    /\ app.borrowers # {}
    /\ app.property # NoProperty
    /\ \A b \in app.borrowers : b.person.of_age

\* The status of application a says what its documents say.
StatusAgrees(file, a) ==
    file.apps[a].status \in UploadOpenStates
        => (file.apps[a].status = "DOCUMENTS_COMPLETE" <=> Satisfied(file, a))

\* A draft as ApplicationService.create leaves it. A seed from a simulation
\* never carries a property type, so the property section is incomplete.
Draft == [status |-> "DRAFT", borrowers |-> {}, property |-> NoProperty]
=============================================================================

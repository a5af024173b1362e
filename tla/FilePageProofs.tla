--------------------------- MODULE FilePageProofs ---------------------------
(***************************************************************************)
(* Theorems about FilePage for every set of calls, answers and rule tables *)
(* and any number of lost answers: the state is well typed, a view read in *)
(* several steps is true of one moment, and a page at rest displays the    *)
(* file as it is.                                                          *)
(***************************************************************************)
EXTENDS FilePage, FiniteSetTheorems, TLAPS

-----------------------------------------------------------------------------
(* The state, call by call. *)

Call == [kind : {"none", "checklist", "submit", "financials", "list"}]
          \cup [kind : {"upload"}, doc_type : DocumentType]
          \cup [kind : {"delete"}, id : Requests]
          \cup [kind : {"answers"}, people : SUBSET Person, property : PropertyType]

CheckRows == [required : SUBSET DocumentType, satisfied : SUBSET DocumentType,
              docs : SUBSET Document]

\* The property section, once filled in, is never emptied.
Filled(f) == f.apps[App].property \in PropertyType

\* What the server keeps for call r, at every stage of it.
GotTyped(r) ==
    /\ got[r].at \in 0..version
    /\ pc[r] = "found" => op[r].kind = "delete"
    /\ pc[r] \in {"owned", "derive", "classify"} => op[r].kind = "checklist"
    /\ pc[r] \in {"count", "rows"} =>
         op[r].kind = "list" /\ got[r].types = Uploaded(got[r].first, App)
    /\ pc[r] \in {"owned", "derive", "count", "rows"} =>
         got[r].first \in File /\ Filled(got[r].first)
    /\ pc[r] \in {"derive", "rows"} => got[r].app \in Application
    /\ pc[r] = "classify" => got[r].rows \in CheckRows
    /\ pc[r] = "answered" =>
         /\ op[r].kind = "checklist" => got[r].rows \in CheckRows /\ got[r].advice \subseteq classified
         /\ op[r].kind \in Changing => got[r].status \in Status

\* Every call has an id for the checklist it may have to ask for.
Enough == Cardinality(Owed) <= Cardinality(Idle)

\* A document was there at the start, or was uploaded by a call of this page
\* that the server has answered.
DocsSettled ==
    \A d \in file.docs :
       /\ d.app = App /\ pc[d.id] # "idle"
       /\ pc[d.id] = "sent" => op[d.id].kind # "upload"

\* What the page was sent is no newer than what was committed.
Past == /\ shown \in [status : Nat, view : Nat] /\ newest \in [status : 0..version, view : 0..version]
        /\ shown.status <= newest.status /\ shown.view <= newest.view

CallInv ==
    /\ TypeOK
    /\ op \in [Requests -> Call]
    /\ DOMAIN got = Requests /\ \A r \in Requests : GotTyped(r)
    /\ Enough /\ DocsSettled /\ Filled(file)

-----------------------------------------------------------------------------
(* A view. *)

SameAnswers(old, new) ==
    /\ old.apps[App].borrowers = new.apps[App].borrowers
    /\ old.apps[App].property = new.apps[App].property

\* One change touches the documents or the answers, not both: what a view read
\* differs from the file by one of them while one change separates them.
Near(r) ==
    /\ pc[r] \in {"owned", "derive", "count", "rows"} =>
         /\ got[r].at = version => got[r].first = file
         /\ got[r].at + 1 = version => got[r].first.docs = file.docs \/ SameAnswers(got[r].first, file)
    /\ pc[r] = "derive" =>
         /\ got[r].app.property = got[r].first.apps[App].property
         /\ got[r].at \in {version, version - 1} =>
              got[r].app.borrowers \in {got[r].first.apps[App].borrowers, file.apps[App].borrowers}
    /\ pc[r] = "rows" /\ got[r].at \in {version, version - 1} =>
              got[r].app.property \in {got[r].first.apps[App].property, file.apps[App].property}

-----------------------------------------------------------------------------
(* The page. *)

\* An answer of the newest version says what the file says.
AnswerTrue(r) ==
    got[r].at = version =>
      /\ pc[r] = "answered" /\ op[r].kind \in Changing => got[r].status = file.apps[App].status
      /\ pc[r] \in {"classify", "answered"} /\ op[r].kind = "checklist" =>
           got[r].rows = Rows(file.apps[App], file.docs)

\* So does what the page displays of it.
DisplayTrue ==
    /\ shown.status = version => status = file.apps[App].status
    /\ view # NoView => view.advice \subseteq classified
    /\ view # NoView /\ shown.view = version => view.rows = Rows(file.apps[App], file.docs)

\* Calls whose answer tells the newest status, and calls whose answer or whose
\* following checklist tells the newest rows.
Telling == {r \in Requests : pc[r] = "answered" /\ op[r].kind \in Changing /\ got[r].at = version}
Asking == {r \in Requests : op[r].kind = "checklist" /\ pc[r] \in {"sent", "owned", "derive", "classify", "answered"}}
Showing == {r \in Asking : pc[r] = "sent" \/ got[r].at = version}

\* As long as no answer is lost the newest version has been displayed or is on
\* its way.
OnItsWay ==
    lost = 0 =>
      /\ newest.status = version \/ Telling # {}
      /\ newest.view = version \/ Telling # {} \/ Showing # {}
      /\ status # "DRAFT" => view # NoView \/ Asking # {}

PageInv == Past /\ DisplayTrue /\ OnItsWay /\ \A r \in Requests : AnswerTrue(r)

-----------------------------------------------------------------------------
(* What the operators on files return. *)

LEMMA FirstExists == First \in Requests
  BY FilePageAssumption, Zenon DEF First

LEMMA RecomputeKeeps ==
    ASSUME NEW f \in File
    PROVE  /\ Recompute(f, App) \in File
           /\ Recompute(f, App).docs = f.docs
           /\ SameAnswers(f, Recompute(f, App))
<1>1. Recomputed(f, App) \in Status
  BY FilePageAssumption DEF Recomputed, File, Application, Status
<1>2. QED
  BY <1>1, FilePageAssumption DEF Recompute, File, Application, SameAnswers

LEMMA RowsTyped ==
    ASSUME NEW app \in Application, NEW docs \in SUBSET Document
    PROVE  Rows(app, docs) \in CheckRows
<1>1. /\ app.property \in PropertyType \cup {NoProperty}
      /\ \A p \in People(app) : p.employment \in EmploymentType
  BY DEF Application, BorrowerRow, Person, People
<1>2. ChecklistTypes(People(app), app.property) \subseteq DocumentType
  <2>1. PropertyRules[app.property] \subseteq DocumentType \/ app.property = NoProperty
    BY <1>1, ChecklistAssumption
  <2>2. UNION {EmploymentRules[p.employment] : p \in People(app)} \subseteq DocumentType
    BY <1>1, ChecklistAssumption
  <2>3. QED
    BY <2>1, <2>2, ChecklistAssumption DEF ChecklistTypes, Required
<1>3. QED
  BY <1>2 DEF Rows, CheckRows

-----------------------------------------------------------------------------
(* The ids that are left. *)

LEMMA Counted ==
    ASSUME TypeOK
    PROVE  /\ IsFiniteSet(Idle) /\ IsFiniteSet(Owed)
           /\ Cardinality(Idle) \in Nat /\ Cardinality(Owed) \in Nat
<1>1. Idle \subseteq Requests /\ Owed \subseteq Requests
  BY DEF Idle, Owed, Out
<1>2. IsFiniteSet(Idle) /\ IsFiniteSet(Owed)
  BY <1>1, FilePageAssumption, FS_Subset
<1>3. QED
  BY <1>2, FS_CardinalityType

LEMMA FreshIsIdle ==
    ASSUME TypeOK, Cardinality(Idle) > 0
    PROVE  Fresh \in Idle
<1>1. Idle # {}
  BY FS_EmptySet
<1>2. \E r \in Requests : pc[r] = "idle"
  BY <1>1 DEF Idle
<1>3. QED
  BY <1>2, Zenon DEF Fresh, Idle

\* Sending one call, or owing one less, leaves enough ids.
LEMMA StillEnough ==
    ASSUME TypeOK, Enough, TypeOK',
           \/ Idle' = Idle /\ Owed' \subseteq Owed
           \/ /\ Cardinality(Idle) > Cardinality(Owed) + 1
              /\ Idle' = Idle \ {Fresh} /\ Owed' \subseteq Owed \cup {Fresh}
           \/ \E r \in Owed : Idle' = Idle \ {Fresh} /\ Owed' \subseteq Owed \ {r}
    PROVE  Enough'
<1> USE Counted, FS_Subset, FS_CardinalityType
<1>0. Cardinality(Idle') \in Nat /\ Cardinality(Owed') \in Nat
  BY FilePageAssumption DEF Idle, Owed, Out
<1>1. CASE Idle' = Idle /\ Owed' \subseteq Owed
  <2>1. Cardinality(Owed') <= Cardinality(Owed)
    BY <1>1
  <2>2. QED
    BY <1>1, <2>1 DEF Enough
<1>2. CASE /\ Cardinality(Idle) > Cardinality(Owed) + 1
           /\ Idle' = Idle \ {Fresh} /\ Owed' \subseteq Owed \cup {Fresh}
  <2>1. Cardinality(Idle') = Cardinality(Idle) - 1
    BY <1>2, FreshIsIdle, FS_RemoveElement
  <2>2. Cardinality(Owed') <= Cardinality(Owed \cup {Fresh})
    BY <1>2, FS_AddElement
  <2>3. Cardinality(Owed \cup {Fresh}) <= Cardinality(Owed) + 1
    BY FS_AddElement
  <2>4. QED
    BY <1>0, <1>2, <2>1, <2>2, <2>3, FS_AddElement DEF Enough
<1>3. ASSUME NEW r \in Owed, Idle' = Idle \ {Fresh}, Owed' \subseteq Owed \ {r}
      PROVE  Enough'
  <2>1. Cardinality(Owed \ {r}) = Cardinality(Owed) - 1
    BY FS_RemoveElement
  <2>2. Cardinality(Owed') <= Cardinality(Owed \ {r})
    BY <1>3, FS_RemoveElement
  <2>3. Cardinality(Owed) > 0
    BY <1>3, FS_EmptySet
  <2>4. Cardinality(Idle') = Cardinality(Idle) - 1
    BY <1>3, <2>3, FreshIsIdle, FS_RemoveElement DEF Enough
  <2>5. QED
    BY <1>0, <2>1, <2>2, <2>4, FS_RemoveElement DEF Enough
<1>4. QED
  BY <1>1, <1>2, <1>3

-----------------------------------------------------------------------------
(* Every step, by what it does to the calls. *)

\* The borrower makes call o.
Sends(o) == Send(o) /\ busy' \subseteq Guarded /\ o \in Call
            /\ o.kind \notin {"none", "checklist"}

\* Call r commits a change of the file, of its documents or of its answers, and
\* is answered with the status it left, or with an error.
Commits(r, new) ==
    /\ op[r].kind \in Changing /\ pc[r] \in {"sent", "found"}
    /\ file' = new /\ version' = version + 1
    /\ \/ /\ pc' = [pc EXCEPT ![r] = "answered"]
          /\ got' = [got EXCEPT ![r] = [at |-> version + 1, status |-> new.apps[App].status]]
          /\ lost' = lost
       \/ /\ pc' = [pc EXCEPT ![r] = "refused"]
          /\ got' = got
          /\ lost < MaxLost /\ lost' = lost + 1
    /\ UNCHANGED <<classified, op, status, view, busy, shown, newest>>
    /\ new \in File /\ Filled(new)
    /\ new.docs = file.docs \/ SameAnswers(file, new)
    /\ \A d \in new.docs : d \in file.docs \/ (d.id = r /\ d.app = App)

Serves(r) == ServeUpload(r) \/ ServeDelete(r) \/ FailUnlink(r) \/ ServeAnswers(r) \/ ServeSubmit(r)

\* Call r goes on; nothing is committed or displayed.
Proceeds(r, label) ==
    /\ r \in Out /\ label \notin {"idle", "done", "sent"}
    /\ pc' = [pc EXCEPT ![r] = label]
    /\ DOMAIN got' = Requests /\ \A q \in Requests \ {r} : got'[q] = got[q]
    /\ UNCHANGED <<server, op, status, view, busy, shown, newest>>
    /\ lost' \in 0..MaxLost

\* Call r ends and the next one asks for the checklist, if its kind is a change.
Ends(r, refresh) ==
    /\ r \in Out /\ Finish(r, refresh) /\ (refresh => r \in Owed)
    /\ UNCHANGED <<server, lost>>

LEMMA BorrowerSends ==
    ASSUME CallInv, Borrower
    PROVE  \E o \in Call : Sends(o)
<1> USE DEF CallInv, TypeOK, Sends, Call, Guarded
<1>1. CASE SelectFile
  <2>1. PICK t \in view.rows.required : Send([kind |-> "upload", doc_type |-> t])
    BY <1>1 DEF SelectFile
  <2>2. t \in DocumentType
    BY <1>1 DEF SelectFile, Displayed, View
  <2>3. QED
    BY <1>1, <2>1, <2>2 DEF SelectFile
<1>2. CASE RemoveDocument
  <2>1. PICK d \in view.rows.docs : Send([kind |-> "delete", id |-> d.id])
    BY <1>2 DEF RemoveDocument
  <2>2. d.id \in Requests
    BY <1>2 DEF RemoveDocument, Displayed, View, Document
  <2>3. QED
    BY <1>2, <2>1, <2>2 DEF RemoveDocument
<1>3. CASE SaveAnswers
  <2>1. PICK e \in Edits :
          Send([kind |-> "answers", people |-> e.people, property |-> e.property])
    BY <1>3 DEF SaveAnswers
  <2>2. e.people \subseteq Person /\ e.property \in PropertyType
    BY FilePageAssumption
  <2>3. QED
    BY <1>3, <2>1, <2>2 DEF SaveAnswers
<1>4. CASE Submit
  BY <1>4 DEF Submit
<1>5. CASE SaveFinancials
  BY <1>5 DEF SaveFinancials
<1>6. CASE OpenList
  BY <1>6 DEF OpenList
<1>7. QED
  BY <1>1, <1>2, <1>3, <1>4, <1>5, <1>6 DEF Borrower

LEMMA ServerCommits ==
    ASSUME CallInv, NEW r \in Requests, Serves(r)
    PROVE  \E new : Commits(r, new)
<1> USE FilePageAssumption DEF CallInv, TypeOK
<1>0. op[r] \in Call
  OBVIOUS
<1>1. ASSUME NEW new, Change(r, new), op[r].kind \in Changing, pc[r] \in {"sent", "found"},
             new \in File, Filled(new), new.docs = file.docs \/ SameAnswers(file, new),
             \A d \in new.docs : d \in file.docs \/ (d.id = r /\ d.app = App)
      PROVE  Commits(r, new)
  BY <1>1 DEF Change, Commits, page
<1>2. CASE ServeUpload(r)
  <2> DEFINE d == [id |-> r, app |-> App, doc_type |-> op[r].doc_type]
             mid == [file EXCEPT !.docs = @ \cup {d}]
  <2>1. d \in Document
    BY <1>0, <1>2 DEF ServeUpload, Call, Document
  <2>2. mid \in File /\ mid.docs = file.docs \cup {d} /\ SameAnswers(file, mid)
    BY <2>1 DEF File, SameAnswers
  <2>3. /\ Change(r, Recompute(mid, App)) /\ op[r].kind \in Changing /\ pc[r] \in {"sent", "found"}
        /\ d.id = r /\ d.app = App
    BY <1>2 DEF ServeUpload, Changing
  <2> HIDE DEF mid, d
  <2>4. Recompute(mid, App) \in File /\ Recompute(mid, App).docs = file.docs \cup {d}
    BY <2>2, RecomputeKeeps
  <2>5. SameAnswers(file, Recompute(mid, App))
    BY <2>2, RecomputeKeeps DEF SameAnswers
  <2>6. Filled(Recompute(mid, App))
    BY <2>5 DEF SameAnswers, Filled
  <2>7. QED
    BY <1>1, <2>3, <2>4, <2>5, <2>6
<1>3. CASE ServeDelete(r) \/ FailUnlink(r)
  <2> DEFINE mid == [file EXCEPT !.docs = {d \in @ : d.id # op[r].id}]
             new == Without(op[r].id)
  <2>1. mid \in File /\ mid.docs \subseteq file.docs /\ SameAnswers(file, mid)
    BY DEF File, SameAnswers
  <2>2. new = Recompute(mid, App)
    BY DEF Without
  <2> HIDE DEF mid, new
  <2>3. /\ new \in File /\ new.docs \subseteq file.docs /\ SameAnswers(file, new)
    BY <2>1, <2>2, RecomputeKeeps DEF SameAnswers
  <2>4. Filled(new) /\ \A d \in new.docs : d \in file.docs
    BY <2>3 DEF SameAnswers, Filled
  <2>5. CASE ServeDelete(r)
    <3>1. Change(r, new) /\ op[r].kind \in Changing /\ pc[r] = "found"
      BY <2>5 DEF ServeDelete, Changing, new
    <3>2. QED
      BY <1>1, <2>3, <2>4, <3>1
  <2>6. CASE FailUnlink(r)
    <3>1. /\ op[r].kind \in Changing /\ pc[r] = "found" /\ file' = new
          /\ version' = version + 1 /\ lost < MaxLost /\ lost' = lost + 1
          /\ pc' = [pc EXCEPT ![r] = "refused"]
          /\ UNCHANGED <<classified, op, got, status, view, busy, shown, newest>>
      BY <2>6 DEF FailUnlink, Changing, new
    <3>2. QED
      BY <2>3, <2>4, <3>1 DEF Commits
  <2>7. QED
    BY <1>3, <2>5, <2>6
<1>4. CASE ServeAnswers(r)
  <2> DEFINE rows == {[person |-> p, batch |-> First] : p \in op[r].people}
             new == [file EXCEPT !.apps[App].borrowers = rows,
                                 !.apps[App].property = op[r].property]
  <2>1. op[r].people \subseteq Person /\ op[r].property \in PropertyType
    BY <1>0, <1>4 DEF ServeAnswers, Call
  <2>2. rows \subseteq BorrowerRow
    BY <2>1, FirstExists DEF BorrowerRow
  <2>3. Change(r, new) /\ op[r].kind \in Changing /\ pc[r] \in {"sent", "found"}
    BY <1>4 DEF ServeAnswers, Changing
  <2> HIDE DEF rows
  <2>4. new \in File /\ new.docs = file.docs /\ Filled(new)
    <3> DEFINE app == [file.apps[App] EXCEPT !.borrowers = rows, !.property = op[r].property]
    <3>0. file.apps[App] \in Application
      BY DEF File
    <3>1. app \in Application
      BY <2>1, <2>2, <3>0 DEF Application
    <3>2. new = [file EXCEPT !.apps[App] =
                   [@ EXCEPT !.borrowers = rows, !.property = op[r].property]]
      BY DEF File, Application
    <3>3. new.apps[App].property = op[r].property
      BY DEF File, Application
    <3>4. QED
      BY <2>1, <3>1, <3>2, <3>3 DEF File, Filled
  <2> HIDE DEF new
  <2>5. QED
    BY <1>1, <2>3, <2>4
<1>5. CASE ServeSubmit(r)
  <2> DEFINE new == [file EXCEPT !.apps[App].status = "DOCUMENTS_PENDING"]
  <2>1. new \in File /\ new.docs = file.docs /\ Filled(new)
    BY DEF File, Application, Status, Filled
  <2>2. Change(r, new) /\ op[r].kind \in Changing /\ pc[r] \in {"sent", "found"}
    BY <1>5 DEF ServeSubmit, Changing
  <2> HIDE DEF new
  <2>3. QED
    BY <1>1, <2>1, <2>2
<1>6. QED
  BY <1>2, <1>3, <1>4, <1>5 DEF Serves

-----------------------------------------------------------------------------
(* The calls stay as they are described. *)

LEMMA SendKeepsCalls ==
    ASSUME CallInv, NEW o \in Call, Sends(o)
    PROVE  CallInv'
<1> USE DEF CallInv, Sends, Send, server
<1>1. /\ Fresh \in Requests /\ pc[Fresh] = "idle"
  BY FreshIsIdle, Counted DEF Idle
<1>2. /\ \A q \in Requests \ {Fresh} : pc'[q] = pc[q] /\ op'[q] = op[q]
      /\ pc'[Fresh] = "sent" /\ op'[Fresh] = o
  BY <1>1 DEF TypeOK
<1>3. TypeOK'
  BY DEF TypeOK
<1>4. op' \in [Requests -> Call] /\ DOMAIN got' = Requests
  OBVIOUS
<1>5. \A r \in Requests : GotTyped(r)'
  BY <1>2 DEF GotTyped
<1>6. DocsSettled'
  BY <1>1, <1>2 DEF DocsSettled, TypeOK, File, Document
<1>7. Idle' = Idle \ {Fresh} /\ Owed' \subseteq Owed \cup {Fresh}
  BY <1>1, <1>2 DEF Idle, Owed, Out
<1>8. Enough'
  BY <1>3, <1>7, StillEnough
<1>9. QED
  BY <1>3, <1>4, <1>5, <1>6, <1>8

LEMMA CommitKeepsCalls ==
    ASSUME CallInv, NEW r \in Requests, NEW new, Commits(r, new)
    PROVE  CallInv'
<1> USE FilePageAssumption DEF CallInv, Commits
<1>1. /\ \A q \in Requests \ {r} : pc'[q] = pc[q] /\ got'[q] = got[q]
      /\ \/ /\ pc'[r] = "answered" /\ got'[r].at = version + 1
            /\ got'[r].status = new.apps[App].status
         \/ pc'[r] = "refused" /\ got'[r] = got[r]
      /\ op' = op /\ classified' = classified /\ version' = version + 1 /\ version \in Nat
      /\ new.apps[App].status \in Status
  BY DEF TypeOK, File, Application
<1>2. TypeOK'
  BY DEF TypeOK
<1>3. \A q \in Requests : GotTyped(q)'
  BY <1>1 DEF GotTyped, Changing
<1>4. DocsSettled'
  BY <1>1 DEF DocsSettled, TypeOK, File, Document
<1>5. Idle' = Idle /\ Owed' \subseteq Owed
  BY <1>1 DEF Idle, Owed, Out
<1>6. Enough'
  BY <1>2, <1>5, StillEnough
<1>7. op' \in [Requests -> Call] /\ DOMAIN got' = Requests /\ Filled(file)'
  BY DEF Filled
<1>8. QED
  BY <1>2, <1>3, <1>4, <1>6, <1>7

LEMMA ProceedKeepsCalls ==
    ASSUME CallInv, NEW r \in Requests, NEW label, Proceeds(r, label), GotTyped(r)', pc' \in
           [Requests -> {"idle", "sent", "found", "owned", "derive", "classify",
                         "count", "rows", "answered", "refused", "done"}]
    PROVE  CallInv'
<1> USE DEF CallInv, Proceeds, server
<1>1. /\ \A q \in Requests \ {r} : pc'[q] = pc[q] /\ got'[q] = got[q]
      /\ pc'[r] = label
  BY DEF TypeOK
<1>2. TypeOK'
  BY DEF TypeOK
<1>3. \A q \in Requests : GotTyped(q)'
  BY <1>1 DEF GotTyped
<1>4. DocsSettled'
  BY <1>1 DEF DocsSettled, TypeOK, File, Document
<1>5. Idle' = Idle /\ Owed' \subseteq Owed
  BY <1>1 DEF Idle, Owed, Out
<1>6. Enough'
  BY <1>2, <1>5, StillEnough
<1>7. QED
  BY <1>2, <1>3, <1>4, <1>6

\* Where the calls stand when call r is over.
LEMMA EndedCalls ==
    ASSUME CallInv, NEW r \in Requests, NEW refresh \in BOOLEAN, Ends(r, refresh)
    PROVE  /\ pc[r] \notin {"idle", "done"} /\ pc'[r] = "done" /\ op'[r] = NoOp
           /\ got' = [got EXCEPT ![r] = NoGot]
           /\ refresh => /\ Fresh \in Requests \ {r} /\ pc[Fresh] = "idle"
                         /\ pc'[Fresh] = "sent" /\ op'[Fresh] = [kind |-> "checklist"]
           /\ \A q \in Requests \ {r} :
                (refresh /\ q = Fresh) \/ (pc'[q] = pc[q] /\ op'[q] = op[q])
<1> USE DEF CallInv, Ends, Finish, TypeOK, Out
<1>1. ASSUME refresh PROVE Fresh \in Requests /\ pc[Fresh] = "idle"
  <2>1. Cardinality(Owed) > 0
    BY <1>1, Counted, FS_EmptySet
  <2>2. QED
    BY <2>1, Counted, FreshIsIdle DEF Idle, Enough
<1>2. QED
  BY <1>1

LEMMA EndKeepsCalls ==
    ASSUME CallInv, NEW r \in Requests, NEW refresh \in BOOLEAN, Ends(r, refresh),
           status' \in Status, view' \in View \cup {NoView}, busy' \subseteq Guarded
    PROVE  CallInv'
<1>0. /\ pc[r] \notin {"idle", "done"} /\ pc'[r] = "done" /\ op'[r] = NoOp
      /\ got' = [got EXCEPT ![r] = NoGot]
      /\ refresh => /\ Fresh \in Requests \ {r} /\ pc[Fresh] = "idle"
                    /\ pc'[Fresh] = "sent" /\ op'[Fresh] = [kind |-> "checklist"]
      /\ \A q \in Requests \ {r} :
           (refresh /\ q = Fresh) \/ (pc'[q] = pc[q] /\ op'[q] = op[q])
  BY EndedCalls
<1> USE DEF CallInv, Ends, server
<1>1. TypeOK'
  BY DEF TypeOK, Finish
<1>2. op' \in [Requests -> Call] /\ DOMAIN got' = Requests
  BY <1>0 DEF Finish, Call, NoOp
<1>3. \A q \in Requests : GotTyped(q)'
  <2>1. \A q \in Requests : q # r => got'[q] = got[q]
    BY <1>0
  <2>2. got'[r] = NoGot
    BY <1>0
  <2>3. QED
    BY <1>0, <2>1, <2>2 DEF GotTyped, TypeOK, NoGot
<1>4. DocsSettled'
  BY <1>0 DEF DocsSettled, TypeOK, File, Document
<1>5. Enough'
  <2>1. CASE refresh
    <3>1. Idle' = Idle \ {Fresh}
      BY <1>0, <2>1 DEF Idle
    <3>2. \A q \in Owed' : q # r /\ q # Fresh
      BY <1>0, <2>1 DEF Owed, Out, Changing
    <3>3. Owed' \subseteq Owed \ {r}
      BY <1>0, <3>2 DEF Owed, Out
    <3>4. QED
      BY <1>1, <2>1, <3>1, <3>3, StillEnough
  <2>2. CASE ~refresh
    <3>1. Idle' = Idle /\ Owed' \subseteq Owed
      BY <1>0, <2>2 DEF Idle, Owed, Out
    <3>2. QED
      BY <1>1, <3>1, StillEnough
  <2>3. QED
    BY <2>1, <2>2
<1>6. QED
  BY <1>1, <1>2, <1>3, <1>4, <1>5

\* What a call does on the server without committing, and losing it.
Reads(r) ==
    \/ ReadApplication(r) \/ ReadBorrowers(r) \/ ReadDocuments(r) \/ ReadClassifications(r)
    \/ ReadTypes(r) \/ ReadApplications(r) \/ ReadTheirBorrowers(r)

Goes(r) == FindDocument(r) \/ ServeFinancials(r) \/ Refuse(r) \/ Lose(r) \/ Reads(r)

Stage == {"found", "owned", "derive", "classify", "count", "rows", "answered", "refused"}

\* What each read leaves behind.
ReadLeaves(r) ==
    /\ op'[r] = op[r] /\ lost' = lost
    /\ \/ /\ op[r].kind = "checklist" /\ pc[r] = "sent" /\ pc'[r] = "owned"
          /\ got'[r].at = version /\ got'[r].first = file
       \/ /\ op[r].kind = "checklist" /\ pc[r] = "owned" /\ pc'[r] = "derive"
          /\ got'[r].at = got[r].at /\ got'[r].first = got[r].first
          /\ got'[r].app = Borrowing(got[r].first.apps[App])
       \/ /\ op[r].kind = "checklist" /\ pc[r] = "derive" /\ pc'[r] = "classify"
          /\ got'[r].at = got[r].at /\ got'[r].rows = Rows(got[r].app, file.docs)
       \/ /\ op[r].kind = "checklist" /\ pc[r] = "classify" /\ pc'[r] = "answered"
          /\ got'[r].at = got[r].at /\ got'[r].rows = got[r].rows
          /\ got'[r].advice \subseteq classified
       \/ /\ op[r].kind = "list" /\ pc[r] = "sent" /\ pc'[r] = "count"
          /\ got'[r].at = version /\ got'[r].first = file
          /\ got'[r].types = Uploaded(file, App)
       \/ /\ op[r].kind = "list" /\ pc[r] = "count" /\ pc'[r] = "rows"
          /\ got'[r].at = got[r].at /\ got'[r].first = got[r].first
          /\ got'[r].types = got[r].types /\ got'[r].app = file.apps[App]
       \/ /\ op[r].kind = "list" /\ pc[r] = "rows" /\ pc'[r] = "answered"
          /\ got'[r].at = got[r].at
          /\ got'[r].counts = Counts(Borrowing(got[r].app), got[r].types)

LEMMA ReadsLeave ==
    ASSUME CallInv, NEW r \in Requests, Reads(r)
    PROVE  ReadLeaves(r) /\ \E label \in Stage : Proceeds(r, label)
<1> USE DEF CallInv, TypeOK
<1>1. ASSUME NEW kind, NEW from \in Stage \cup {"sent"}, NEW label \in Stage, NEW what,
             Read(r, kind, from, label, what)
      PROVE  /\ Proceeds(r, label) /\ pc[r] = from /\ op[r].kind = kind
             /\ pc'[r] = label /\ got'[r] = what /\ op'[r] = op[r] /\ lost' = lost
  BY <1>1 DEF Read, Proceeds, Out, Stage, page, server
<1>2. CASE ReadApplication(r)
  <2> DEFINE what == [at |-> version, first |-> file]
  <2>1. Read(r, "checklist", "sent", "owned", what)
    BY <1>2 DEF ReadApplication
  <2>2. what.at = version /\ what.first = file
    OBVIOUS
  <2> HIDE DEF what
  <2>3. "sent" \in Stage \cup {"sent"} /\ "owned" \in Stage
    BY DEF Stage
  <2>4. /\ Proceeds(r, "owned") /\ pc[r] = "sent" /\ op[r].kind = "checklist"
        /\ pc'[r] = "owned" /\ got'[r] = what /\ op'[r] = op[r] /\ lost' = lost
    BY <1>1, <2>1, <2>3
  <2>5. QED
    BY <2>2, <2>3, <2>4 DEF ReadLeaves
<1>3. CASE ReadBorrowers(r)
  <2> DEFINE what == [at |-> got[r].at, first |-> got[r].first,
                      app |-> Borrowing(got[r].first.apps[App])]
  <2>1. Read(r, "checklist", "owned", "derive", what)
    BY <1>3 DEF ReadBorrowers
  <2>2. /\ what.at = got[r].at /\ what.first = got[r].first
        /\ what.app = Borrowing(got[r].first.apps[App])
    OBVIOUS
  <2> HIDE DEF what
  <2>3. "owned" \in Stage \cup {"sent"} /\ "derive" \in Stage
    BY DEF Stage
  <2>4. /\ Proceeds(r, "derive") /\ pc[r] = "owned" /\ op[r].kind = "checklist"
        /\ pc'[r] = "derive" /\ got'[r] = what /\ op'[r] = op[r] /\ lost' = lost
    BY <1>1, <2>1, <2>3
  <2>5. QED
    BY <2>2, <2>3, <2>4 DEF ReadLeaves
<1>4. CASE ReadDocuments(r)
  <2> DEFINE what == [at |-> got[r].at, rows |-> Rows(got[r].app, file.docs)]
  <2>1. Read(r, "checklist", "derive", "classify", what)
    BY <1>4 DEF ReadDocuments
  <2>2. what.at = got[r].at /\ what.rows = Rows(got[r].app, file.docs)
    OBVIOUS
  <2> HIDE DEF what
  <2>3. "derive" \in Stage \cup {"sent"} /\ "classify" \in Stage
    BY DEF Stage
  <2>4. /\ Proceeds(r, "classify") /\ pc[r] = "derive" /\ op[r].kind = "checklist"
        /\ pc'[r] = "classify" /\ got'[r] = what /\ op'[r] = op[r] /\ lost' = lost
    BY <1>1, <2>1, <2>3
  <2>5. QED
    BY <2>2, <2>3, <2>4 DEF ReadLeaves
<1>5. CASE ReadClassifications(r)
  <2> DEFINE what == [at |-> got[r].at, rows |-> got[r].rows,
                      advice |-> {d.id : d \in got[r].rows.docs \cap file.docs} \cap classified]
  <2>1. Read(r, "checklist", "classify", "answered", what)
    BY <1>5 DEF ReadClassifications
  <2>2. /\ what.at = got[r].at /\ what.rows = got[r].rows
        /\ what.advice \subseteq classified
    OBVIOUS
  <2> HIDE DEF what
  <2>3. "classify" \in Stage \cup {"sent"} /\ "answered" \in Stage
    BY DEF Stage
  <2>4. /\ Proceeds(r, "answered") /\ pc[r] = "classify" /\ op[r].kind = "checklist"
        /\ pc'[r] = "answered" /\ got'[r] = what /\ op'[r] = op[r] /\ lost' = lost
    BY <1>1, <2>1, <2>3
  <2>5. QED
    BY <2>2, <2>3, <2>4 DEF ReadLeaves
<1>6. CASE ReadTypes(r)
  <2> DEFINE what == [at |-> version, first |-> file, types |-> Uploaded(file, App)]
  <2>1. Read(r, "list", "sent", "count", what)
    BY <1>6 DEF ReadTypes
  <2>2. /\ what.at = version /\ what.first = file
        /\ what.types = Uploaded(file, App)
    OBVIOUS
  <2> HIDE DEF what
  <2>3. "sent" \in Stage \cup {"sent"} /\ "count" \in Stage
    BY DEF Stage
  <2>4. /\ Proceeds(r, "count") /\ pc[r] = "sent" /\ op[r].kind = "list"
        /\ pc'[r] = "count" /\ got'[r] = what /\ op'[r] = op[r] /\ lost' = lost
    BY <1>1, <2>1, <2>3
  <2>5. QED
    BY <2>2, <2>3, <2>4 DEF ReadLeaves
<1>7. CASE ReadApplications(r)
  <2> DEFINE what == [at |-> got[r].at, first |-> got[r].first, types |-> got[r].types,
                      app |-> file.apps[App]]
  <2>1. Read(r, "list", "count", "rows", what)
    BY <1>7 DEF ReadApplications
  <2>2. /\ what.at = got[r].at /\ what.first = got[r].first
        /\ what.types = got[r].types /\ what.app = file.apps[App]
    OBVIOUS
  <2> HIDE DEF what
  <2>3. "count" \in Stage \cup {"sent"} /\ "rows" \in Stage
    BY DEF Stage
  <2>4. /\ Proceeds(r, "rows") /\ pc[r] = "count" /\ op[r].kind = "list"
        /\ pc'[r] = "rows" /\ got'[r] = what /\ op'[r] = op[r] /\ lost' = lost
    BY <1>1, <2>1, <2>3
  <2>5. QED
    BY <2>2, <2>3, <2>4 DEF ReadLeaves
<1>8. CASE ReadTheirBorrowers(r)
  <2> DEFINE what == [at |-> got[r].at, status |-> got[r].app.status,
                      counts |-> Counts(Borrowing(got[r].app), got[r].types)]
  <2>1. Read(r, "list", "rows", "answered", what)
    BY <1>8 DEF ReadTheirBorrowers
  <2>2. /\ what.at = got[r].at
        /\ what.counts = Counts(Borrowing(got[r].app), got[r].types)
    OBVIOUS
  <2> HIDE DEF what
  <2>3. "rows" \in Stage \cup {"sent"} /\ "answered" \in Stage
    BY DEF Stage
  <2>4. /\ Proceeds(r, "answered") /\ pc[r] = "rows" /\ op[r].kind = "list"
        /\ pc'[r] = "answered" /\ got'[r] = what /\ op'[r] = op[r] /\ lost' = lost
    BY <1>1, <2>1, <2>3
  <2>5. QED
    BY <2>2, <2>3, <2>4 DEF ReadLeaves
<1>9. QED
  BY <1>2, <1>3, <1>4, <1>5, <1>6, <1>7, <1>8 DEF Reads

LEMMA BorrowingTyped ==
    ASSUME file \in File, NEW app \in Application
    PROVE  /\ Borrowing(app) \in Application
           /\ Borrowing(app).property = app.property
           /\ Borrowing(app).borrowers = file.apps[App].borrowers
  BY FilePageAssumption DEF Borrowing, File, Application

LEMMA ServerProceeds ==
    ASSUME CallInv, NEW r \in Requests, Goes(r)
    PROVE  \E label \in Stage : Proceeds(r, label) /\ GotTyped(r)'
<1> USE DEF CallInv, TypeOK
<1>0. /\ GotTyped(r) /\ file \in File /\ version \in Nat
      /\ file.apps[App] \in Application /\ file.docs \in SUBSET Document
  BY FilePageAssumption DEF File
<1>1. CASE FindDocument(r) \/ ServeFinancials(r)
  <2>1. \E label \in {"found", "answered"} : Proceeds(r, label)
    BY <1>1 DEF FindDocument, ServeFinancials, Proceeds, Out, page, server
  <2>2. GotTyped(r)'
    BY <1>0, <1>1 DEF FindDocument, ServeFinancials, GotTyped, Changing, server
  <2>3. QED
    BY <2>1, <2>2 DEF Stage
<1>2. CASE Refuse(r) \/ Lose(r)
  <2>1. Proceeds(r, "refused")
    BY <1>2, FilePageAssumption DEF Refuse, Lose, Proceeds, Out, page, server
  <2>2. GotTyped(r)'
    BY <1>0, <1>2 DEF Refuse, Lose, GotTyped, NoGot, server
  <2>3. QED
    BY <2>1, <2>2 DEF Stage
<1>3. CASE Reads(r)
  <2>1. PICK label \in Stage : Proceeds(r, label)
    BY <1>3, ReadsLeave
  <2>2. ReadLeaves(r) /\ UNCHANGED <<file, version, classified>>
    BY <1>3, <2>1, ReadsLeave DEF Proceeds, server
  <2>3. pc[r] = "owned" => /\ got[r].first.apps[App] \in Application
                           /\ Borrowing(got[r].first.apps[App]) \in Application
    BY <1>0, BorrowingTyped, FilePageAssumption DEF GotTyped, File
  <2>4. pc[r] = "derive" => Rows(got[r].app, file.docs) \in CheckRows
    BY <1>0, RowsTyped DEF GotTyped
  <2>5. GotTyped(r)'
    BY <1>0, <2>2, <2>3, <2>4 DEF ReadLeaves, GotTyped, Changing
  <2>6. QED
    BY <2>1, <2>5
<1>4. QED
  BY <1>1, <1>2, <1>3 DEF Goes

\* What is handed to the page ends its call; a change asks for the checklist.
LEMMA DeliverEnds ==
    ASSUME CallInv, NEW r \in Requests, Deliver(r)
    PROVE  \E refresh \in BOOLEAN : Ends(r, refresh) /\ (refresh <=> DeliverChange(r))
<1> USE DEF Ends, Out
<1>1. CASE DeliverChange(r)
  <2>1. Finish(r, TRUE)
    BY <1>1 DEF DeliverChange, Refreshed, Finish
  <2>2. QED
    BY <1>1, <2>1 DEF DeliverChange, Owed
<1>2. CASE DeliverChecklist(r) \/ DeliverOther(r) \/ DeliverError(r)
  <2>1. ~DeliverChange(r) /\ Finish(r, FALSE)
    BY <1>2 DEF DeliverChange, DeliverChecklist, DeliverOther, DeliverError, Changing
  <2>2. QED
    BY <1>2, <2>1 DEF DeliverChecklist, DeliverOther, DeliverError
<1>3. QED
  BY <1>1, <1>2 DEF Deliver

\* The calls and the file the page opens with.
Opens ==
    /\ First \in Requests /\ file \in File /\ Filled(file)
    /\ \A d \in file.docs : d.id = First /\ d.app = App
    /\ status = file.apps[App].status
    /\ \/ /\ status = "DRAFT"
          /\ op = [r \in Requests |-> NoOp]
          /\ pc = [r \in Requests |-> IF r = First THEN "done" ELSE "idle"]
       \/ /\ op = [r \in Requests |-> IF r = First THEN [kind |-> "checklist"] ELSE NoOp]
          /\ pc = [r \in Requests |-> IF r = First THEN "sent" ELSE "idle"]

LEMMA InitOpens == Init => Opens
<1> SUFFICES ASSUME Init PROVE Opens
  OBVIOUS
<1> USE FilePageAssumption, FirstExists
<1>1. ASSUME NEW s \in {"DRAFT", "DOCUMENTS_PENDING"}, NEW docs \in SUBSET Given
      PROVE  /\ Opened(s, docs) \in File /\ Filled(Opened(s, docs))
             /\ Opened(s, docs).docs = docs
             /\ s = "DRAFT" => Opened(s, docs).apps[App].status = "DRAFT"
  <2> DEFINE rows == {[person |-> p, batch |-> First] : p \in Answers.people}
             app == [status |-> s, property |-> Answers.property, borrowers |-> rows]
             mid == [apps |-> [a \in Apps |-> IF a = App THEN app ELSE Draft], docs |-> docs]
  <2>1. Opened(s, docs) = Recompute(mid, App)
    BY DEF Opened
  <2>2. rows \subseteq BorrowerRow /\ Answers.property \in PropertyType
    BY DEF BorrowerRow
  <2> HIDE DEF rows
  <2>3. app \in Application /\ Draft \in Application
    BY <2>2 DEF Application, Status, Draft
  <2>4. app.status = s /\ app.property \in PropertyType
    BY <2>2
  <2>5. docs \subseteq Document
    BY DEF Document
  <2> HIDE DEF app
  <2>6. mid \in File /\ Filled(mid) /\ mid.docs = docs /\ mid.apps[App].status = s
    BY <2>3, <2>4, <2>5 DEF File, Filled
  <2> HIDE DEF mid
  <2>7. /\ Recompute(mid, App) \in File /\ Recompute(mid, App).docs = docs
        /\ Filled(Recompute(mid, App))
    BY <2>6, RecomputeKeeps DEF SameAnswers, Filled
  <2>8. s = "DRAFT" => Recompute(mid, App).apps[App].status = "DRAFT"
    BY <2>6 DEF Recompute, Recomputed, UploadOpenStates, File
  <2>9. QED
    BY <2>1, <2>7, <2>8
<1>2. \/ /\ file = Opened("DRAFT", {})
         /\ op = [r \in Requests |-> NoOp]
         /\ pc = [r \in Requests |-> IF r = First THEN "done" ELSE "idle"]
      \/ /\ file = Opened("DOCUMENTS_PENDING", Given)
         /\ op = [r \in Requests |-> IF r = First THEN [kind |-> "checklist"] ELSE NoOp]
         /\ pc = [r \in Requests |-> IF r = First THEN "sent" ELSE "idle"]
  BY DEF Init
<1>3. status = file.apps[App].status
  BY DEF Init
<1>4. /\ file \in File /\ Filled(file) /\ file.docs \subseteq Given
      /\ file = Opened("DRAFT", {}) => file.apps[App].status = "DRAFT"
  BY <1>1, <1>2
<1>5. \A d \in file.docs : d.id = First /\ d.app = App
  BY <1>4
<1>6. QED
  BY <1>2, <1>3, <1>4, <1>5 DEF Opens

LEMMA CallInvInit == Init => CallInv
<1> SUFFICES ASSUME Init PROVE CallInv
  OBVIOUS
<1> USE FilePageAssumption
<1>1. Opens
  BY InitOpens
<1>2. TypeOK
  <2>1. status \in Status
    BY <1>1 DEF Opens, File, Application
  <2>2. QED
    BY <1>1, <2>1 DEF Opens, Init, TypeOK
<1>3. op \in [Requests -> Call] /\ DOMAIN got = Requests
  BY <1>1 DEF Opens, Init, Call, NoOp
<1>4. \A r \in Requests : GotTyped(r)
  BY <1>1 DEF Opens, Init, GotTyped, NoGot
<1>5. DocsSettled
  BY <1>1 DEF Opens, DocsSettled
<1>6. Enough
  <2>1. Owed = {}
    BY <1>1 DEF Opens, Owed, Out, Changing, NoOp
  <2>2. QED
    BY <2>1, <1>2, Counted, FS_EmptySet DEF Enough
<1>7. QED
  BY <1>1, <1>2, <1>3, <1>4, <1>5, <1>6 DEF CallInv, Opens

LEMMA CallInvStep == CallInv /\ [Next]_vars => CallInv'
<1> SUFFICES ASSUME CallInv, [Next]_vars PROVE CallInv'
  OBVIOUS
<1>1. CASE Borrower
  BY <1>1, BorrowerSends, SendKeepsCalls
<1>2. CASE Classify
  <2>1. /\ classified \subseteq classified' /\ classified' \subseteq Requests
        /\ UNCHANGED <<file, version, op, pc, got, page>>
    BY <1>2 DEF Classify, CallInv, TypeOK, File, Document
  <2>2. QED
    BY <2>1 DEF page, CallInv, TypeOK, GotTyped, DocsSettled, Enough, Idle, Owed, Out
<1>3. ASSUME NEW r \in Requests, Serves(r)
      PROVE  CallInv'
  BY <1>3, ServerCommits, CommitKeepsCalls
<1>4. ASSUME NEW r \in Requests, Goes(r) PROVE CallInv'
  <2>1. PICK label \in Stage : Proceeds(r, label) /\ GotTyped(r)'
    BY <1>4, ServerProceeds
  <2>2. pc' \in [Requests -> {"idle", "sent", "found", "owned", "derive", "classify",
                             "count", "rows", "answered", "refused", "done"}]
    BY <2>1 DEF Proceeds, Stage, CallInv, TypeOK
  <2>3. QED
    BY <2>1, <2>2, ProceedKeepsCalls
<1>5. ASSUME NEW r \in Requests, Deliver(r) PROVE CallInv'
  <2>1. PICK refresh \in BOOLEAN : Ends(r, refresh)
    BY <1>5, DeliverEnds
  <2>2. status' \in Status /\ view' \in View \cup {NoView} /\ busy' \subseteq Guarded
    <3> USE DEF CallInv, TypeOK, Release
    <3>1. CASE DeliverChange(r)
      BY <3>1 DEF DeliverChange, GotTyped
    <3>2. CASE DeliverChecklist(r)
      <4>1. got[r].rows \in CheckRows /\ got[r].advice \subseteq Requests
        BY <3>2 DEF DeliverChecklist, GotTyped
      <4>2. [rows |-> got[r].rows, advice |-> got[r].advice] \in View
        BY <4>1 DEF View, CheckRows
      <4>3. QED
        BY <3>2, <4>2 DEF DeliverChecklist
    <3>3. CASE DeliverOther(r) \/ DeliverError(r)
      BY <3>3 DEF DeliverOther, DeliverError
    <3>4. QED
      BY <1>5, <3>1, <3>2, <3>3 DEF Deliver
  <2>3. QED
    BY <2>1, <2>2, EndKeepsCalls
<1>6. CASE UNCHANGED vars
  BY <1>6 DEF vars, server, page, CallInv, TypeOK, GotTyped, DocsSettled, Enough, Idle, Owed, Out
<1>7. QED
  BY <1>1, <1>2, <1>3, <1>4, <1>5, <1>6 DEF Next, Serve, Serves, Goes, Reads

\* The state is well typed: in particular no answer or error puts anything but a
\* status into the signal the page displays (application-wizard.component.ts).
THEOREM TypeCorrect == Spec => []TypeOK
<1>1. CallInv => TypeOK
  BY DEF CallInv
<1>2. QED
  BY <1>1, CallInvInit, CallInvStep, PTL DEF Spec

-----------------------------------------------------------------------------
(* A view is true of one moment. *)

NearInv == \A r \in Requests : Near(r)

LEMMA NearInvStep == CallInv /\ NearInv /\ [Next]_vars => NearInv'
<1> SUFFICES ASSUME CallInv, NearInv, [Next]_vars, NEW r \in Requests PROVE Near(r)'
  BY DEF NearInv
<1>0. /\ Near(r) /\ GotTyped(r) /\ version \in Nat /\ got[r].at \in 0..version
  BY DEF CallInv, TypeOK, NearInv, GotTyped
<1>1. ASSUME file' = file, version' = version,
             \/ pc'[r] = pc[r] /\ got'[r] = got[r]
             \/ pc'[r] \notin {"owned", "derive", "count", "rows"}
      PROVE  Near(r)'
  BY <1>0, <1>1 DEF Near
<1>2. ASSUME NEW q \in Requests, NEW new, Commits(q, new) PROVE Near(r)'
  <2>1. CASE q = r
    BY <1>2, <2>1 DEF Commits, Near, CallInv, TypeOK
  <2>2. CASE q # r
    <3>1. /\ pc'[r] = pc[r] /\ got'[r] = got[r] /\ version' = version + 1 /\ file' = new
          /\ new.docs = file.docs \/ SameAnswers(file, new)
      BY <1>2, <2>2 DEF Commits, CallInv, TypeOK
    <3>2. got[r].at # version + 1
      BY <1>0
    <3>3. got[r].at = version /\ pc[r] \in {"owned", "derive", "count", "rows"} =>
            got[r].first = file
      BY <1>0 DEF Near
    <3>4. QED
      BY <1>0, <3>1, <3>2, <3>3 DEF Near
  <2>3. QED
    BY <2>1, <2>2
<1>3. CASE Borrower
  <2>1. PICK o \in Call : Sends(o)
    BY <1>3, BorrowerSends
  <2>2. UNCHANGED <<file, version, got>> /\ pc' = [pc EXCEPT ![Fresh] = "sent"]
    BY <2>1 DEF Sends, Send, server
  <2>3. pc'[r] = pc[r] \/ pc'[r] = "sent"
    BY <2>2 DEF CallInv, TypeOK
  <2>4. QED
    BY <1>1, <2>2, <2>3
<1>4. ASSUME NEW q \in Requests, Goes(q) PROVE Near(r)'
  <2>1. PICK label \in Stage : Proceeds(q, label)
    BY <1>4, ServerProceeds
  <2>2. UNCHANGED <<file, version>> /\ pc' = [pc EXCEPT ![q] = label]
    BY <2>1 DEF Proceeds, server
  <2>3. CASE q # r
    BY <1>1, <2>1, <2>2, <2>3 DEF Proceeds, CallInv, TypeOK
  <2>4. CASE q = r /\ Reads(q)
    <3>1. ReadLeaves(r)
      BY <2>4, ReadsLeave
    <3>2. pc[r] = "owned" =>
            /\ Borrowing(got[r].first.apps[App]).property = got[r].first.apps[App].property
            /\ Borrowing(got[r].first.apps[App]).borrowers = file.apps[App].borrowers
      BY <1>0, BorrowingTyped, FilePageAssumption DEF GotTyped, CallInv, TypeOK, File
    <3>3. QED
      BY <1>0, <2>2, <3>1, <3>2 DEF ReadLeaves, Near
  <2>5. CASE q = r /\ ~Reads(q)
    <3>1. pc'[r] \in {"answered", "refused", "found"}
      BY <1>4, <2>5 DEF Goes, FindDocument, ServeFinancials, Refuse, Lose, CallInv, TypeOK
    <3>2. QED
      BY <1>1, <2>2, <3>1
  <2>6. QED
    BY <2>3, <2>4, <2>5
<1>5. ASSUME NEW q \in Requests, Deliver(q) PROVE Near(r)'
  <2>1. PICK refresh \in BOOLEAN : Ends(q, refresh)
    BY <1>5, DeliverEnds
  <2>2. pc'[r] \in {"done", "sent"} \/ (pc'[r] = pc[r] /\ got'[r] = got[r])
    BY <2>1, EndedCalls DEF CallInv
  <2>3. QED
    BY <1>1, <2>1, <2>2 DEF Ends, server
<1>6. CASE Classify \/ UNCHANGED vars
  BY <1>1, <1>6 DEF Classify, vars, server
<1>7. QED
  BY <1>2, <1>3, <1>4, <1>5, <1>6, ServerCommits DEF Next, Serve, Serves, Goes, Reads

LEMMA CountsTally ==
    ASSUME NEW app, NEW f
    PROVE  Counts(app, Uploaded(f, App)) = Tally(Rows(app, f.docs))
<1> DEFINE asked == ChecklistTypes(People(app), app.property)
           mine == {d \in f.docs : d.app = App}
<1>1. asked \cap Uploaded(f, App) = {t \in asked : \E d \in mine : d.doc_type = t}
  BY DEF Uploaded
<1>2. QED
  BY <1>1, Zenon DEF Counts, Rows, Tally

\* Applications with the same people and property type have the same rows.
LEMMA SameAsked ==
    ASSUME NEW a, NEW b, NEW docs, People(a) = People(b), a.property = b.property
    PROVE  Rows(a, docs) = Rows(b, docs)
  BY Zenon DEF Rows

\* An application put together from the people of one and the property type of
\* another is one of the two if they agree on either; if not, it asks at most
\* for what the two ask for.
LEMMA MixedRows ==
    ASSUME NEW then, NEW now, NEW app, NEW docs,
           People(app) \in {People(then), People(now)},
           app.property \in {then.property, now.property},
           then.property \in PropertyType, now.property \in PropertyType
    PROVE  /\ Rows(app, docs).required
                \subseteq Rows(then, docs).required \cup Rows(now, docs).required
           /\ People(then) = People(now) \/ then.property = now.property
                => Rows(app, docs) \in {Rows(then, docs), Rows(now, docs)}
<1>1. ASSUME NEW a, a.property \in PropertyType
      PROVE  Rows(a, docs).required = Required(People(a), a.property)
  BY <1>1, ChecklistAssumption DEF Rows, ChecklistTypes
<1>2. Required(People(app), app.property)
        \subseteq Required(People(then), then.property) \cup Required(People(now), now.property)
  BY DEF Required
<1>3. Rows(app, docs).required
        \subseteq Rows(then, docs).required \cup Rows(now, docs).required
  BY <1>1, <1>2
<1>4. ASSUME People(then) = People(now) \/ then.property = now.property
      PROVE  Rows(app, docs) \in {Rows(then, docs), Rows(now, docs)}
  BY <1>4, SameAsked
<1>5. QED
  BY <1>3, <1>4

\* A checklist (documents/service.py checklist, read in four steps) and a row of
\* the list (list_applications, three steps after the ids) say what was true of
\* the file before or after the one change that may have been committed in
\* between, unless it changed the borrowers and the property type at once.
THEOREM ViewsTrueOnce == Spec => ViewTrueOnce
<1> DEFINE Near1(r) == version <= got[r].at + 1
           Then(r) == got[r].first.apps[App]
           Now == file.apps[App]
           Before(r) == Rows(Then(r), got[r].first.docs)
           After == Rows(Now, file.docs)
           OneSided(r) == People(Then(r)) = People(Now) \/ Then(r).property = Now.property
<1>1. ASSUME NearInv, CallInv, NEW r \in Requests, Near1(r), pc[r] \in {"derive", "rows"}
      PROVE  /\ got[r].first.docs = file.docs \/ SameAnswers(got[r].first, file)
             /\ got[r].at \in {version, version - 1}
             /\ Then(r).property \in PropertyType /\ Now.property \in PropertyType
  BY <1>1 DEF NearInv, Near, CallInv, TypeOK, GotTyped, Filled
<1>2. ASSUME NearInv, CallInv, NEW r \in Requests, Near1(r), ReadDocuments(r)
      PROVE  /\ got'[r].rows.required \subseteq Before(r).required \cup After.required
             /\ OneSided(r) => got'[r].rows \in {Before(r), After}
  <2>1. pc[r] = "derive" /\ got'[r].rows = Rows(got[r].app, file.docs)
    BY <1>2 DEF ReadDocuments, Read, CallInv
  <2>2. /\ got[r].app.property = Then(r).property
        /\ got[r].app.borrowers \in {Then(r).borrowers, Now.borrowers}
    BY <1>1, <1>2, <2>1 DEF NearInv, Near
  <2>3. People(got[r].app) \in {People(Then(r)), People(Now)}
    BY <2>2 DEF People
  <2>4. CASE got[r].first.docs = file.docs
    BY <1>1, <1>2, <2>1, <2>2, <2>3, <2>4, MixedRows
  <2>5. CASE SameAnswers(got[r].first, file)
    <3>1. People(Then(r)) = People(Now) /\ Then(r).property = Now.property
      BY <2>5 DEF SameAnswers, People
    <3>2. got'[r].rows = After
      BY <2>1, <2>2, <2>3, <3>1, SameAsked
    <3>3. QED
      BY <3>2
  <2>6. QED
    BY <1>1, <1>2, <2>1, <2>4, <2>5
<1>3. ASSUME NearInv, CallInv, NEW r \in Requests, Near1(r), ReadTheirBorrowers(r), OneSided(r)
      PROVE  got'[r].counts \in {Tally(Before(r)), Tally(After)}
  <2> DEFINE app == Borrowing(got[r].app)
             rows == Rows(app, got[r].first.docs)
  <2>1. pc[r] = "rows" /\ got'[r].counts = Counts(app, got[r].types)
    BY <1>3 DEF ReadTheirBorrowers, Read, CallInv
  <2>2. got[r].types = Uploaded(got[r].first, App) /\ got[r].app \in Application
    BY <1>3, <2>1 DEF CallInv, GotTyped
  <2>3. got'[r].counts = Tally(rows)
    BY <2>1, <2>2, CountsTally
  <2>4. /\ app.property \in {Then(r).property, Now.property}
        /\ app.borrowers = Now.borrowers
    <3>1. got[r].app.property \in {Then(r).property, Now.property}
      BY <1>1, <1>3, <2>1 DEF NearInv, Near
    <3>2. QED
      BY <1>3, <2>2, <3>1, BorrowingTyped DEF CallInv, TypeOK
  <2>5. People(app) = People(Now)
    BY <2>4 DEF People
  <2> HIDE DEF app
  <2>6. rows \in {Before(r), After}
    <3>1. CASE got[r].first.docs = file.docs
      BY <1>1, <1>3, <2>1, <2>4, <2>5, <3>1, MixedRows
    <3>2. CASE SameAnswers(got[r].first, file)
      <4>1. People(Then(r)) = People(Now) /\ Then(r).property = Now.property
        BY <3>2 DEF SameAnswers, People
      <4>2. rows = Before(r)
        BY <2>4, <2>5, <4>1, SameAsked
      <4>3. QED
        BY <4>2
    <3>3. QED
      BY <1>1, <1>3, <2>1, <3>1, <3>2
  <2>7. QED
    BY <2>3, <2>6
<1>4. NearInv /\ CallInv /\ [Next]_vars =>
        [\A r \in Requests :
           LET near == version <= got[r].at + 1
               then == got[r].first.apps[App]
               now == file.apps[App]
               before == Rows(then, got[r].first.docs)
               after == Rows(now, file.docs)
               oneSided == People(then) = People(now) \/ then.property = now.property
           IN  /\ ReadDocuments(r) /\ near =>
                    got'[r].rows.required \subseteq before.required \cup after.required
               /\ ReadDocuments(r) /\ near /\ oneSided =>
                    got'[r].rows \in {before, after}
               /\ ReadTheirBorrowers(r) /\ near /\ oneSided =>
                    got'[r].counts \in {Tally(before), Tally(after)}]_vars
  BY <1>2, <1>3
<1>5. Init => NearInv
  BY DEF Init, NearInv, Near
<1>6. QED
  BY <1>4, <1>5, CallInvInit, CallInvStep, NearInvStep, PTL DEF Spec, ViewTrueOnce

-----------------------------------------------------------------------------
(* A page at rest is current. *)

LEMMA PageInvInit == Init => PageInv
<1> SUFFICES ASSUME Init PROVE PageInv
  OBVIOUS
<1>1. Opens
  BY InitOpens
<1>2. /\ version = 0 /\ view = NoView /\ got = [r \in Requests |-> NoGot]
      /\ shown = [status |-> 0, view |-> 0] /\ newest = [status |-> 0, view |-> 0]
  BY DEF Init
<1>3. Past /\ DisplayTrue
  BY <1>1, <1>2 DEF Past, DisplayTrue, Opens
<1>4. status # "DRAFT" => First \in Asking
  BY <1>1 DEF Opens, Asking
<1>5. OnItsWay
  BY <1>2, <1>4 DEF OnItsWay
<1>6. \A r \in Requests : AnswerTrue(r)
  BY <1>1 DEF AnswerTrue, Opens, NoOp, Changing
<1>7. QED
  BY <1>3, <1>5, <1>6 DEF PageInv

\* What was on its way still is, unless an answer was lost.
LEMMA StillOnItsWay ==
    ASSUME OnItsWay, UNCHANGED <<version, status, view, newest>>,
           lost' = 0 => /\ lost = 0 /\ Telling \subseteq Telling'
                        /\ Asking \subseteq Asking' /\ Showing \subseteq Showing'
    PROVE  OnItsWay'
  BY DEF OnItsWay

LEMMA SendKeepsPage ==
    ASSUME CallInv, PageInv, NEW o \in Call, Sends(o)
    PROVE  PageInv'
<1>1. /\ UNCHANGED <<file, version, classified, got, status, view, shown, newest, lost>>
      /\ pc' = [pc EXCEPT ![Fresh] = "sent"] /\ op' = [op EXCEPT ![Fresh] = o]
  BY DEF Sends, Send, server
<1>2. Fresh \in Requests /\ pc[Fresh] = "idle"
  BY FreshIsIdle, Counted DEF Idle, Sends, Send, CallInv
<1>3. /\ \A q \in Requests \ {Fresh} : pc'[q] = pc[q] /\ op'[q] = op[q]
      /\ pc'[Fresh] = "sent"
  BY <1>1, <1>2 DEF CallInv, TypeOK
<1>4. Past' /\ DisplayTrue'
  BY <1>1 DEF PageInv, Past, DisplayTrue
<1>5. Telling \subseteq Telling' /\ Asking \subseteq Asking' /\ Showing \subseteq Showing'
  BY <1>1, <1>2, <1>3 DEF Telling, Asking, Showing
<1>6. OnItsWay'
  BY <1>1, <1>5, StillOnItsWay DEF PageInv
<1>7. \A q \in Requests : AnswerTrue(q)'
  BY <1>1, <1>3 DEF PageInv, AnswerTrue
<1>8. QED
  BY <1>4, <1>6, <1>7 DEF PageInv

LEMMA CommitKeepsPage ==
    ASSUME CallInv, PageInv, NEW r \in Requests, NEW new, Commits(r, new)
    PROVE  PageInv'
<1>1. /\ \A q \in Requests \ {r} : pc'[q] = pc[q] /\ got'[q] = got[q]
      /\ \/ /\ pc'[r] = "answered" /\ got'[r].at = version + 1
            /\ got'[r].status = new.apps[App].status /\ lost' = lost
         \/ pc'[r] = "refused" /\ lost' # 0
      /\ pc[r] \in {"sent", "found"}
      /\ version' = version + 1 /\ version \in Nat /\ file' = new
      /\ op' = op /\ op[r].kind \in Changing
      /\ UNCHANGED <<classified, status, view, shown, newest>>
  BY DEF CallInv, TypeOK, Commits
<1>2. Past'
  BY <1>1 DEF PageInv, Past
<1>3. DisplayTrue'
  BY <1>1 DEF PageInv, Past, DisplayTrue
<1>4. lost' = 0 => r \in Telling' /\ lost = 0
  BY <1>1 DEF Telling
<1>5. Asking \subseteq Asking'
  BY <1>1 DEF Asking, Changing
<1>6. OnItsWay'
  BY <1>1, <1>4, <1>5 DEF PageInv, OnItsWay
<1>7. \A q \in Requests : AnswerTrue(q)'
  <2>1. \A q \in Requests : got[q].at \in 0..version
    BY DEF CallInv, GotTyped
  <2>2. AnswerTrue(r)'
    BY <1>1 DEF AnswerTrue, Changing
  <2>3. ASSUME NEW q \in Requests \ {r} PROVE AnswerTrue(q)'
    BY <1>1, <2>1 DEF AnswerTrue
  <2>4. QED
    BY <2>2, <2>3
<1>8. QED
  BY <1>2, <1>3, <1>6, <1>7 DEF PageInv

\* A call that goes on stays true and on its way.
LEMMA GoesTruly ==
    ASSUME CallInv, NearInv, PageInv, NEW r \in Requests, Goes(r)
    PROVE  /\ AnswerTrue(r)'
           /\ lost' = 0 => /\ lost = 0 /\ r \notin Telling
                           /\ r \in Asking => r \in Asking'
                           /\ r \in Showing => r \in Showing'
<1>0. /\ AnswerTrue(r) /\ Near(r) /\ GotTyped(r)
      /\ pc' = [pc EXCEPT ![r] = pc'[r]] /\ r \in DOMAIN pc /\ r \in DOMAIN got
      /\ UNCHANGED <<file, version, op>> /\ lost \in Nat
  BY ServerProceeds DEF CallInv, NearInv, PageInv, Proceeds, server, TypeOK
<1>1. CASE FindDocument(r) \/ ServeFinancials(r) \/ Refuse(r)
  <2>1. /\ op[r].kind # "checklist" /\ pc[r] \in {"sent", "found"} /\ lost' = lost
        /\ pc'[r] = "answered" => op[r].kind = "financials"
        /\ pc'[r] \in {"found", "answered", "refused"}
    BY <1>0, <1>1 DEF FindDocument, ServeFinancials, Refuse, Changing, Guarded, page
  <2>2. QED
    BY <1>0, <2>1 DEF AnswerTrue, Telling, Asking, Showing, Changing
<1>2. CASE Lose(r)
  <2>1. lost' = lost + 1 /\ pc'[r] = "refused"
    BY <1>0, <1>2 DEF Lose
  <2>2. QED
    BY <1>0, <2>1 DEF AnswerTrue
<1>3. CASE Reads(r)
  <2>1. ReadLeaves(r)
    BY <1>3, ReadsLeave
  <2>2. pc[r] = "derive" /\ got[r].at = version =>
          Rows(got[r].app, file.docs) = Rows(file.apps[App], file.docs)
    <3>1. ASSUME pc[r] = "derive", got[r].at = version
          PROVE  /\ People(got[r].app) = People(file.apps[App])
                 /\ got[r].app.property = file.apps[App].property
      BY <1>0, <3>1 DEF Near, People
    <3>2. QED
      BY <3>1, SameAsked
  <2>3. QED
    BY <1>0, <2>1, <2>2 DEF ReadLeaves, AnswerTrue, Telling, Asking, Showing, Changing
<1>4. QED
  BY <1>1, <1>2, <1>3 DEF Goes

LEMMA GoesKeepsPage ==
    ASSUME CallInv, NearInv, PageInv, NEW r \in Requests, Goes(r)
    PROVE  PageInv'
<1>1. PICK label \in Stage : Proceeds(r, label)
  BY ServerProceeds
<1>2. /\ UNCHANGED <<file, version, classified, op, status, view, shown, newest>>
      /\ \A q \in Requests \ {r} : pc'[q] = pc[q] /\ got'[q] = got[q]
  BY <1>1 DEF Proceeds, server, CallInv, TypeOK
<1>3. Past' /\ DisplayTrue'
  BY <1>2 DEF PageInv, Past, DisplayTrue
<1>4. ASSUME lost' = 0
      PROVE  lost = 0 /\ Telling \subseteq Telling' /\ Asking \subseteq Asking' /\ Showing \subseteq Showing'
  <2>1. /\ lost = 0 /\ r \notin Telling /\ (r \in Asking => r \in Asking')
        /\ (r \in Showing => r \in Showing')
    BY <1>4, GoesTruly
  <2>2. \A q \in Requests \ {r} :
           /\ q \in Telling => q \in Telling'
           /\ q \in Asking => q \in Asking'
           /\ q \in Showing => q \in Showing'
    BY <1>2 DEF Telling, Asking, Showing
  <2>3. Telling \subseteq Requests /\ Asking \subseteq Requests /\ Showing \subseteq Requests
    BY DEF Telling, Asking, Showing
  <2>4. QED
    BY <2>1, <2>2, <2>3
<1>5. OnItsWay'
  BY <1>2, <1>4, StillOnItsWay DEF PageInv
<1>6. \A q \in Requests \ {r} : AnswerTrue(q)'
  BY <1>2 DEF PageInv, AnswerTrue
<1>7. QED
  BY <1>3, <1>5, <1>6, GoesTruly DEF PageInv

LEMMA DeliverKeepsPage ==
    ASSUME CallInv, PageInv, NEW r \in Requests, Deliver(r)
    PROVE  PageInv'
<1>0. /\ Past /\ DisplayTrue /\ OnItsWay /\ AnswerTrue(r) /\ GotTyped(r)
      /\ version \in Nat /\ got[r].at \in 0..version
  BY DEF PageInv, CallInv, TypeOK, GotTyped
<1>1. PICK refresh \in BOOLEAN : Ends(r, refresh) /\ (refresh <=> DeliverChange(r))
  BY DeliverEnds
<1>2. /\ UNCHANGED <<file, version, classified, lost>>
      /\ \A q \in Requests \ {r} : got'[q] = got[q]
      /\ pc'[r] = "done"
      /\ refresh => Fresh \in Requests \ {r} /\ pc[Fresh] = "idle" /\ pc'[Fresh] = "sent"
                    /\ op'[Fresh] = [kind |-> "checklist"]
      /\ \A q \in Requests \ {r} :
           (refresh /\ q = Fresh) \/ (pc'[q] = pc[q] /\ op'[q] = op[q])
  <2>1. got' = [got EXCEPT ![r] = NoGot] /\ DOMAIN got = Requests
    BY <1>1, EndedCalls DEF CallInv
  <2>2. UNCHANGED <<file, version, classified, lost>>
    BY <1>1 DEF Ends, server
  <2>3. QED
    BY <1>1, <2>1, <2>2, EndedCalls
<1>3. \A q \in Requests : AnswerTrue(q)'
  BY <1>2 DEF PageInv, AnswerTrue
<1>4. \A q \in Requests \ {r} :
         /\ q \in Telling => q \in Telling'
         /\ q \in Asking => q \in Asking'
         /\ q \in Showing => q \in Showing'
  BY <1>2 DEF Telling, Asking, Showing
<1>5. CASE DeliverChange(r)
  <2>1. /\ pc[r] = "answered" /\ op[r].kind \in Changing
        /\ status' = got[r].status /\ UNCHANGED view
        /\ shown' = [shown EXCEPT !.status = got[r].at]
        /\ newest' = [newest EXCEPT !.status = Later(@, got[r].at)]
    BY <1>5 DEF DeliverChange, Display
  <2>2. Past'
    BY <1>0, <1>2, <2>1 DEF Past, Later
  <2>3. DisplayTrue'
    BY <1>0, <1>2, <2>1 DEF DisplayTrue, AnswerTrue, Past
  <2>4. Fresh \in Showing' /\ Fresh \in Asking'
    BY <1>1, <1>2, <1>5 DEF Showing, Asking
  <2>5. newest'.status = version \/ Telling' # {} \/ lost # 0
    <3>1. newest.status = version \/ r \in Telling => newest'.status = version
      BY <1>0, <2>1 DEF Past, Later, Telling
    <3>2. QED
      BY <1>0, <1>4, <3>1 DEF OnItsWay, Telling
  <2>6. OnItsWay'
    BY <1>2, <2>4, <2>5 DEF OnItsWay
  <2>7. QED
    BY <1>3, <2>2, <2>3, <2>6 DEF PageInv
<1>6. CASE DeliverChecklist(r)
  <2>1. /\ pc[r] = "answered" /\ op[r].kind = "checklist"
        /\ view' = [rows |-> got[r].rows, advice |-> got[r].advice] /\ UNCHANGED status
        /\ shown' = [shown EXCEPT !.view = got[r].at]
        /\ newest' = [newest EXCEPT !.view = Later(@, got[r].at)]
    BY <1>6 DEF DeliverChecklist, Display
  <2>2. Past'
    BY <1>0, <1>2, <2>1 DEF Past, Later
  <2>3. view'.rows = got[r].rows /\ view'.advice = got[r].advice
    BY <2>1
  <2>4. view' # NoView
    <3>1. got[r].rows \in CheckRows /\ got[r].advice \subseteq Requests
      BY <1>0, <2>1 DEF GotTyped, CallInv, TypeOK
    <3>2. view' \in View
      BY <2>1, <3>1 DEF View, CheckRows
    <3>3. QED
      BY <3>2, NoViewAssumption
  <2>5. DisplayTrue'
    BY <1>0, <1>2, <2>1, <2>3 DEF DisplayTrue, AnswerTrue, Past, GotTyped
  <2>6. r \notin Telling /\ Telling \subseteq Telling'
    BY <1>4, <2>1 DEF Telling, Changing
  <2>7. newest'.view = version \/ Telling' # {} \/ Showing' # {} \/ lost # 0
    <3>1. newest.view = version \/ r \in Showing => newest'.view = version
      BY <1>0, <2>1 DEF Past, Later, Showing
    <3>2. QED
      BY <1>0, <1>4, <2>6, <3>1 DEF OnItsWay, Showing, Asking
  <2>8. OnItsWay'
    BY <1>0, <1>2, <2>1, <2>4, <2>6, <2>7 DEF OnItsWay, Past
  <2>9. QED
    BY <1>3, <2>2, <2>5, <2>8 DEF PageInv
<1>7. CASE DeliverOther(r) \/ DeliverError(r)
  <2>1. /\ UNCHANGED <<status, view, shown, newest>>
        /\ op[r].kind \in {"financials", "list"} \/ pc[r] = "refused"
    BY <1>7 DEF DeliverOther, DeliverError
  <2>2. r \notin Telling /\ r \notin Asking /\ r \notin Showing
    BY <2>1 DEF Telling, Asking, Showing, Changing
  <2>3. Telling \subseteq Telling' /\ Asking \subseteq Asking' /\ Showing \subseteq Showing'
    <3>1. Telling \subseteq Requests /\ Asking \subseteq Requests /\ Showing \subseteq Requests
      BY DEF Telling, Asking, Showing
    <3>2. QED
      BY <1>4, <2>2, <3>1
  <2>4. Past' /\ DisplayTrue'
    BY <1>0, <1>2, <2>1 DEF Past, DisplayTrue
  <2>5. OnItsWay'
    BY <1>0, <1>2, <2>1, <2>3, StillOnItsWay
  <2>6. QED
    BY <1>3, <2>4, <2>5 DEF PageInv
<1>8. QED
  BY <1>5, <1>6, <1>7 DEF Deliver

LEMMA PageInvStep == CallInv /\ NearInv /\ PageInv /\ [Next]_vars => PageInv'
<1> SUFFICES ASSUME CallInv, NearInv, PageInv, [Next]_vars PROVE PageInv'
  OBVIOUS
<1>1. CASE Borrower
  BY <1>1, BorrowerSends, SendKeepsPage
<1>2. CASE Classify
  <2>1. /\ classified \subseteq classified'
        /\ UNCHANGED <<file, version, op, pc, got, status, view, shown, newest, lost>>
    BY <1>2 DEF Classify, page
  <2>2. QED
    BY <2>1 DEF PageInv, Past, DisplayTrue, OnItsWay, AnswerTrue, Telling, Asking, Showing
<1>3. ASSUME NEW r \in Requests, Serves(r)
      PROVE  PageInv'
  BY <1>3, ServerCommits, CommitKeepsPage
<1>4. ASSUME NEW r \in Requests, Goes(r) PROVE PageInv'
  BY <1>4, GoesKeepsPage
<1>5. ASSUME NEW r \in Requests, Deliver(r) PROVE PageInv'
  BY <1>5, DeliverKeepsPage
<1>6. CASE UNCHANGED vars
  BY <1>6 DEF vars, server, page, PageInv, Past, DisplayTrue, OnItsWay, AnswerTrue,
              Telling, Asking, Showing
<1>7. QED
  BY <1>1, <1>2, <1>3, <1>4, <1>5, <1>6 DEF Next, Serve, Serves, Goes, Reads

\* With nothing under way and no answer lost, a page displays the status and the
\* checklist of the file as it is, unless an older answer arrived last
\* (application-wizard.component.ts refreshChecklist): every change was followed
\* by an answer with its status and by a checklist read after it.
THEOREM QuietPageIsCurrent == Spec => []QuietPageCurrent
<1>1. PageInv => QuietPageCurrent
  <2> SUFFICES ASSUME PageInv, Out = {}, lost = 0, shown = newest
               PROVE  /\ status = file.apps[App].status
                      /\ view # NoView => /\ view.rows = Rows(file.apps[App], file.docs)
                                          /\ view.advice \subseteq classified
                      /\ status # "DRAFT" => view # NoView
    BY DEF QuietPageCurrent, Quiet
  <2>1. Telling = {} /\ Asking = {} /\ Showing = {}
    BY DEF Out, Telling, Asking, Showing
  <2>2. shown.status = version /\ shown.view = version
    BY <2>1 DEF PageInv, OnItsWay
  <2>3. QED
    BY <2>1, <2>2 DEF PageInv, OnItsWay, DisplayTrue
<1>2. Init => NearInv
  BY DEF Init, NearInv, Near
<1>3. QED
  BY <1>1, <1>2, CallInvInit, CallInvStep, NearInvStep, PageInvInit, PageInvStep, PTL DEF Spec
=============================================================================

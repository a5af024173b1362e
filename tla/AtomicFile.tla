----------------------------- MODULE AtomicFile -----------------------------
(***************************************************************************)
(* What the handlers of a mortgage file promise together, as one variable  *)
(* that changes in indivisible steps.  A document is added or removed      *)
(* together with the status that follows from the documents and answers    *)
(* of that very moment.  An edit changes answers only and never unfills    *)
(* the property section.  A submission needs a property section and leads  *)
(* to DOCUMENTS_PENDING.                                                   *)
(*                                                                         *)
(* The steps are relations between two files, so that they can be said of  *)
(* a file and its successor and of a database and an open transaction.     *)
(***************************************************************************)
EXTENDS FileTables

VARIABLE file

Init == file = [apps |-> [a \in Apps |-> Draft], docs |-> {}]

Edit(old, new, a) ==
    /\ new.docs = old.docs
    /\ \A b \in Apps \ {a} : new.apps[b] = old.apps[b]
    /\ new.apps[a].status = old.apps[a].status
    /\ old.apps[a].property # NoProperty => new.apps[a].property # NoProperty

Submit(old, new, a) ==
    /\ old.apps[a].property # NoProperty
    /\ new = [old EXCEPT !.apps[a].status = "DOCUMENTS_PENDING"]

Upload(old, new, a) ==
    /\ old.apps[a].status \in UploadOpenStates
    /\ \E d \in Document :
         /\ d.app = a
         /\ \A e \in old.docs : e.id # d.id
         /\ new = Recompute([old EXCEPT !.docs = @ \cup {d}], a)

Delete(old, new, a) ==
    \E id \in Requests :
       /\ \A d \in old.docs : d.id = id => d.app = a
       /\ new = Recompute([old EXCEPT !.docs = {d \in @ : d.id # id}], a)

Change(old, new) ==
    \E a \in Apps : \/ Edit(old, new, a) \/ Submit(old, new, a)
                    \/ Upload(old, new, a) \/ Delete(old, new, a)

Next == Change(file, file')

Spec == Init /\ [][Next]_file
=============================================================================

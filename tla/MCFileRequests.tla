--------------------------- MODULE MCFileRequests ---------------------------
(***************************************************************************)
(* Small instances of FileRequests for TLC.  The rule tables keep one      *)
(* document of each origin: one everybody needs, one an employment type    *)
(* adds, one a property type adds.                                         *)
(***************************************************************************)
EXTENDS FileRequests, TLC

CONSTANTS a1

MCBase == {"IDENTITY"}
MCEmploymentRules == [e \in EmploymentType |-> IF e = "EMPLOYEE" THEN {"PAYSLIPS"} ELSE {}]
MCPropertyRules == [p \in PropertyType |-> IF p = "NEW_BUILD" THEN {"BUILDING_PERMIT"} ELSE {}]

Employee == [employment |-> "EMPLOYEE", credit |-> FALSE, of_age |-> TRUE]
Pensioner == [employment |-> "OTHER", credit |-> FALSE, of_age |-> TRUE]
Minor == [employment |-> "OTHER", credit |-> FALSE, of_age |-> FALSE]

PatchOf(keys, people, property) ==
    [kind |-> "patch", app |-> a1, keys |-> keys, people |-> people, property |-> property]

Documents == {[kind |-> "upload", app |-> a1, doc_type |-> "IDENTITY"]}
               \cup [kind : {"delete"}, app : {a1}, id : Requests]
Downloads == [kind : {"download"}, app : {a1}, id : Requests]
Submits == [kind : {"submit"}, app : Apps]
Answers == {PatchOf({"borrowers", "property"}, {Pensioner}, "EXISTING")}

\* The whole life of one file: answers, submission, documents, edits of the
\* borrowers and of the property that ask for another document.
LifeAsked ==
    Answers \cup Submits \cup Documents \cup Downloads
      \cup {PatchOf({"borrowers"}, {Employee}, "EXISTING"),
            PatchOf({"property"}, {Employee}, "NEW_BUILD")}

\* The same life with the edit that replaces the borrowers and attaches a
\* simulation at once, which may be refused after its first flush.
LinkAsked ==
    Answers \cup Submits \cup Documents
      \cup {PatchOf({"borrowers", "simulation_id"}, {Minor}, "EXISTING")}

Symmetry == Permutations(Requests)
=============================================================================

----------------------------- MODULE MCFilePage -----------------------------
(***************************************************************************)
(* One page over one file.  The borrower and the property type each decide *)
(* on one document, and a saved set of answers differs from those before   *)
(* in the borrower, in the property type, in both or in neither.           *)
(***************************************************************************)
EXTENDS FilePage

CONSTANTS a1

MCBase == {"IDENTITY"}
MCEmploymentRules == [e \in EmploymentType |-> IF e = "EMPLOYEE" THEN {"PAYSLIPS"} ELSE {}]
MCPropertyRules == [p \in PropertyType |-> IF p = "NEW_BUILD" THEN {"BUILDING_PERMIT"} ELSE {}]

Worker == [employment |-> "EMPLOYEE", credit |-> FALSE, of_age |-> TRUE]
Pensioner == [employment |-> "OTHER", credit |-> FALSE, of_age |-> TRUE]

MCAnswers == [people |-> {Worker}, property |-> "EXISTING"]

MCEdits == {[people |-> {Pensioner}, property |-> p] : p \in PropertyType}

\* The payslips are there, which a pensioner is not asked for.
MCGiven == {[id |-> First, app |-> a1, doc_type |-> "PAYSLIPS"]}
=============================================================================

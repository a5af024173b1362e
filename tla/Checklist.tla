----------------------------- MODULE Checklist -----------------------------
(***************************************************************************)
(* The document checklist as a function of the answers on an application:  *)
(* who is borrowing and what they are buying (applications/checklist.py).  *)
(* The rule tables are parameters, so that a small instance can use small  *)
(* tables and ChecklistRows can use the tables of the code.                *)
(***************************************************************************)
EXTENDS FiniteSets

CONSTANTS
    DocumentType,     \* core/enums.py DocumentType
    EmploymentType,   \* entities.py EmploymentType
    PropertyType,     \* entities.py PropertyType
    Base,             \* document types every application needs
    EmploymentRules,  \* document types each employment type adds
    CreditDocs,       \* document types an existing credit adds
    PropertyRules,    \* document types each property type adds
    NoProperty        \* the property section is not filled in yet

ASSUME ChecklistAssumption ==
    /\ Base \subseteq DocumentType
    /\ Base # {}
    /\ EmploymentRules \in [EmploymentType -> SUBSET DocumentType]
    /\ CreditDocs \subseteq DocumentType
    /\ PropertyRules \in [PropertyType -> SUBSET DocumentType]
    /\ NoProperty \notin PropertyType

\* What a borrower's answers mean to the checklist and to submission: the
\* employment type, whether there is an existing credit, and whether the age
\* lies within the accepted range.
Person == [employment : EmploymentType, credit : BOOLEAN, of_age : BOOLEAN]

\* The document types the checklist asks for, as a set.
Required(people, property) ==
    Base
      \cup (UNION {EmploymentRules[p.employment] : p \in people})
      \cup (IF \E p \in people : p.credit THEN CreditDocs ELSE {})
      \cup PropertyRules[property]

\* ApplicationService.checklist: without a property section there is nothing
\* to derive from, and the list is empty.
ChecklistTypes(people, property) ==
    IF property = NoProperty THEN {} ELSE Required(people, property)

\* ApplicationService._all_satisfied: every row has a document of its type.
\* An empty list is satisfied.
AllSatisfied(people, property, uploaded) ==
    ChecklistTypes(people, property) \subseteq uploaded
=============================================================================

SPECIFICATION Spec
CONSTANTS
  a1 = a1
  Apps = {a1}
  Requests = {r1, r2, r3, r4, r5}
  NoRequest = NoRequest
  NoProperty = NoProperty
  DocumentType = {"IDENTITY", "PAYSLIPS", "BUILDING_PERMIT"}
  EmploymentType = {"EMPLOYEE", "OTHER"}
  PropertyType = {"EXISTING", "NEW_BUILD"}
  Base <- MCBase
  EmploymentRules <- MCEmploymentRules
  CreditDocs = {}
  PropertyRules <- MCPropertyRules
  Asked <- LifeAsked
  MaxActive = 3
  MaxFaults = 1
SYMMETRY Symmetry
INVARIANTS
  TypeOK
  RowHasBlob
  OrphansExplained
  CorruptMeansDeleted
  SubmittedIsFilled
PROPERTIES
  StatusFollowsMachine
  DocumentChangesAgree
  ImplementsAtomicFile

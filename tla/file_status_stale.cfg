SPECIFICATION Spec
CONSTANTS
  a1 = a1
  Apps = {a1}
  Requests = {r1, r2, r3, r4}
  NoRequest = NoRequest
  NoProperty = NoProperty
  DocumentType = {"IDENTITY", "PAYSLIPS", "BUILDING_PERMIT"}
  EmploymentType = {"EMPLOYEE", "OTHER"}
  PropertyType = {"EXISTING", "NEW_BUILD"}
  Base <- MCBase
  EmploymentRules <- MCEmploymentRules
  CreditDocs = {}
  PropertyRules <- MCPropertyRules
  Asked <- LifeAsked
  MaxActive = 1
  MaxFaults = 0
SYMMETRY Symmetry
INVARIANTS
  StatusAlwaysAgrees

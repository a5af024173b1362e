SPECIFICATION FairSpec
CONSTANTS
  a1 = a1
  App = a1
  Apps = {a1}
  Requests = {1, 2, 3, 4, 5}
  NoProperty = NoProperty
  NoView = NoView
  DocumentType = {"IDENTITY", "PAYSLIPS", "BUILDING_PERMIT"}
  EmploymentType = {"EMPLOYEE", "OTHER"}
  PropertyType = {"EXISTING", "NEW_BUILD"}
  Base <- MCBase
  EmploymentRules <- MCEmploymentRules
  CreditDocs = {}
  PropertyRules <- MCPropertyRules
  Edits <- MCEdits
  Answers <- MCAnswers
  Given <- MCGiven
  MaxLost = 1
INVARIANTS
  TypeOK
  QuietPageCurrent
PROPERTIES
  ViewTrueOnce
  SavesEnd

SPECIFICATION Spec
CONSTANTS
  Requests = {r1, r2, r3}
  NoRequest = NoRequest
  Missing = Missing
  Null = Null
  Bodies <- MCBodies
  Households <- MCHouseholds
  MaxEdits = 1
  MaxFaults = 1
SYMMETRY Symmetry
INVARIANTS
  LastPutReplaces
  ColumnsSubmitted
  ShownIsConfirmed
  BandJustified

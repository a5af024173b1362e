SPECIFICATION Spec
CONSTANTS
  Requests = {r1, r2}
  NoRequest = NoRequest
  Emails = {e1}
  Sims = {s1}
  NoSim = NoSim
  Nobody = Nobody
  Residents = {u1, u2}
  Asked <- AllAsked
  MaxFaults = 0
SYMMETRY Symmetry
PROPERTIES
  OwnerNeverChanges

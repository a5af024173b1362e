SPECIFICATION Spec
CONSTANTS
  Requests = {r1, r2, r3, r4}
  NoRequest = NoRequest
  Emails = {e1}
  Sims = {s1}
  NoSim = NoSim
  Nobody = Nobody
  Residents = {u1, u2}
  Asked <- AllAsked
  MaxFaults = 1
SYMMETRY Symmetry
INVARIANTS
  TypeOK
  SignupsAnsweredTruly
  LinkedIsClaimed
  OwnerExists
  EmailOnce

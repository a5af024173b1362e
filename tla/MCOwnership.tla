---------------------------- MODULE MCOwnership ----------------------------
(***************************************************************************)
(* Small instances of Ownership for TLC: two residents with a draft each,  *)
(* one contested simulation, one contested address.                        *)
(***************************************************************************)
EXTENDS Ownership, TLC

Signups == [kind : {"signup"}, email : Emails, sim : Sims \cup {NoSim}]
Creates == [kind : {"create"}, user : Users, sim : Sims]
Attaches == [kind : {"attach"}, user : Residents, draft : Residents, sim : Sims,
             borrowers : BOOLEAN]

AllAsked == Signups \cup Creates \cup Attaches

Symmetry == Permutations(Requests) \cup Permutations(Residents)
=============================================================================

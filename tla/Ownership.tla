------------------------------ MODULE Ownership ------------------------------
(***************************************************************************)
(* Who owns a simulation, and which application is linked to it.           *)
(*                                                                         *)
(* A simulation starts anonymous.  Signing up claims the one the borrower  *)
(* comes with (auth/service.py signup), creating a draft seeds it from one *)
(* of the borrower's own (applications/service.py create), and a PATCH     *)
(* attaches one, claiming it on the way (_attach_simulation).              *)
(*                                                                         *)
(* The database works as in FileRequests: SELECTs before a handler's first *)
(* write see the latest commit, and the first write takes the one lock,    *)
(* which the commit releases.  A signup writes before it claims, so its    *)
(* claim happens under the lock; a PATCH without borrowers claims first.   *)
(*                                                                         *)
(*   db      the committed tables                                          *)
(*   writer  the request that holds the write lock, or NoRequest           *)
(*   txn     the tables as the writer sees them; db when there is none     *)
(*   pc, op  where each request is, and what it asks for                   *)
(*   faults  crashes and errors so far, at most MaxFaults                  *)
(***************************************************************************)
EXTENDS Naturals, FiniteSets

CONSTANTS
    Requests,    \* HTTP requests, each made once
    NoRequest,   \* nobody holds the write lock
    Emails,      \* normalised addresses
    Sims,        \* stored simulations
    NoSim,       \* no simulation is named
    Nobody,      \* the owner of an anonymous simulation
    Residents,   \* accounts, each with one draft, that exist from the start
    Asked,       \* bound: what clients ask for
    MaxFaults    \* bound: crashes and errors in a behaviour

ASSUME OwnershipAssumption ==
    /\ NoRequest \notin Requests
    /\ NoSim \notin Sims
    /\ Nobody \notin Requests \cup Residents
    /\ Requests \cap Residents = {}
    /\ MaxFaults \in Nat

\* An account made by a signup, and a draft made by a create, are named by the
\* request that inserted them; a resident names both its account and its draft.
Users == Requests \cup Residents
Drafts == Requests \cup Residents

Signup == [kind : {"signup"}, email : Emails, sim : Sims \cup {NoSim}]
Create == [kind : {"create"}, user : Users, sim : Sims \cup {NoSim}]
\* borrowers: the PATCH writes borrower rows before it attaches.  An empty list
\* that replaces no rows flushes nothing and takes no lock, as if none were sent.
Attach == [kind : {"attach"}, user : Users, draft : Drafts, sim : Sims, borrowers : BOOLEAN]
NoOp == [kind |-> "none"]
Op == Signup \cup Create \cup Attach \cup {NoOp}

ASSUME AskedAssumption == Asked \subseteq Op \ {NoOp}

\* users: id and email; owner: simulations.user_id; drafts: applications with
\* their owner and the simulation they are linked to.
Account == [id : Requests, email : Emails]
DraftRow == [id : Drafts, user : Users, sim : Sims \cup {NoSim}]
Tables == [users : SUBSET Account,
           owner : [Sims -> Users \cup {Nobody}],
           drafts : SUBSET DraftRow]

VARIABLES db, writer, txn, pc, op, faults
vars == <<db, writer, txn, pc, op, faults>>

InFlight == {"start", "seeded", "unseeded", "claim", "link", "write", "commit"}
Answered == {"ok", "refused", "failed"}

TypeOK ==
    /\ db \in Tables
    /\ txn \in Tables
    /\ writer \in Requests \cup {NoRequest}
    /\ pc \in [Requests -> {"idle"} \cup InFlight \cup Answered]
    /\ op \in [Requests -> Op]
    /\ faults \in Nat

Init ==
    /\ db = [users |-> {}, owner |-> [s \in Sims |-> Nobody],
             drafts |-> {[id |-> u, user |-> u, sim |-> NoSim] : u \in Residents}]
    /\ txn = db
    /\ writer = NoRequest
    /\ pc = [r \in Requests |-> "idle"]
    /\ op = [r \in Requests |-> NoOp]
    /\ faults = 0

Goto(r, label) == pc' = [pc EXCEPT ![r] = label]

\* A session cookie names an account that was committed, and a client names
\* drafts it has been shown.
Accounts(tables) == {a.id : a \in tables.users} \cup Residents
Known(o) ==
    /\ o.kind \in {"create", "attach"} => o.user \in Accounts(db)
    /\ o.kind = "attach" => \E d \in db.drafts : d.id = o.draft

Start(r, o) ==
    /\ pc[r] = "idle"
    /\ Known(o)
    /\ op' = [op EXCEPT ![r] = o]
    /\ Goto(r, "start")
    /\ UNCHANGED <<db, writer, txn, faults>>

-----------------------------------------------------------------------------
(* Reads before the lock. *)

Owner(r) == db.owner[op[r].sim]

\* Planted mistake: the lookup sees what a rival has not committed.
LookUpUncommitted(r) ==
    /\ pc[r] = "start" /\ op[r].kind = "signup"
    /\ Goto(r, IF \E a \in txn.users : a.email = op[r].email THEN "refused" ELSE "write")
    /\ UNCHANGED <<db, writer, txn, op, faults>>

\* get_by_email, before the password is hashed.
LookUp(r) ==
    /\ pc[r] = "start" /\ op[r].kind = "signup"
    /\ Goto(r, IF \E a \in db.users : a.email = op[r].email THEN "refused" ELSE "write")
    /\ UNCHANGED <<db, writer, txn, op, faults>>

\* _seed_from_simulation: a simulation that is not the user's seeds nothing.
ReadSeed(r) ==
    /\ pc[r] = "start" /\ op[r].kind = "create"
    /\ Goto(r, IF op[r].sim # NoSim /\ Owner(r) = op[r].user THEN "seeded" ELSE "unseeded")
    /\ UNCHANGED <<db, writer, txn, op, faults>>

\* get_owned, then get_stored, when no borrower rows are written before it.
ReadStored(r) ==
    /\ pc[r] = "start" /\ op[r].kind = "attach"
    /\ IF \E d \in db.drafts : d.id = op[r].draft /\ d.user = op[r].user
         THEN \/ op[r].borrowers /\ Goto(r, "write")
              \/ ~op[r].borrowers /\ Goto(r, IF Owner(r) = Nobody THEN "claim"
                                              ELSE IF Owner(r) = op[r].user THEN "link"
                                              ELSE "refused")
         ELSE Goto(r, "refused")
    /\ UNCHANGED <<db, writer, txn, op, faults>>

\* set_owner selects an unowned row; the UPDATE that follows names only its id.
SelectUnowned(r) ==
    /\ pc[r] = "claim"
    /\ Goto(r, IF Owner(r) = Nobody THEN "write" ELSE "refused")
    /\ UNCHANGED <<db, writer, txn, op, faults>>

-----------------------------------------------------------------------------
(* The first write, and everything up to the commit. *)

TakeLock(r, label, after) ==
    /\ pc[r] = label
    /\ writer = NoRequest
    /\ writer' = r
    /\ txn' = after
    /\ Goto(r, "commit")
    /\ UNCHANGED <<db, op, faults>>

\* The owners after set_owner has run under the lock.
Claimed(owner, s, u) ==
    IF s = NoSim THEN owner
    ELSE IF owner[s] = Nobody THEN [owner EXCEPT ![s] = u]
    ELSE owner

\* Planted mistake: the unique index on email is not there.
WriteSignupUnindexed(r) ==
    /\ op[r].kind = "signup"
    /\ TakeLock(r, "write",
         [db EXCEPT !.users = @ \cup {[id |-> r, email |-> op[r].email]},
                    !.owner = Claimed(@, op[r].sim, r)])

\* INSERT of the account, which the unique index may refuse, then the claim.
WriteSignup(r) ==
    /\ op[r].kind = "signup"
    /\ \A a \in db.users : a.email # op[r].email
    /\ TakeLock(r, "write",
         [db EXCEPT !.users = @ \cup {[id |-> r, email |-> op[r].email]},
                    !.owner = Claimed(@, op[r].sim, r)])

\* Planted mistake: a refused signup has claimed first.
EmailTakenClaims(r) ==
    /\ pc[r] = "write" /\ op[r].kind = "signup"
    /\ writer = NoRequest
    /\ \E a \in db.users : a.email = op[r].email
    /\ Goto(r, "refused")
    /\ db' = [db EXCEPT !.owner = Claimed(@, op[r].sim, r)]
    /\ txn' = db'
    /\ UNCHANGED <<writer, op, faults>>

\* IntegrityError: the session rolls back and the signup is refused.
EmailTaken(r) ==
    /\ pc[r] = "write" /\ op[r].kind = "signup"
    /\ writer = NoRequest
    /\ \E a \in db.users : a.email = op[r].email
    /\ Goto(r, "refused")
    /\ UNCHANGED <<db, writer, txn, op, faults>>

\* Planted mistake: the arguments of the insert are swapped.
WriteCreateSwapped(r) ==
    /\ op[r].kind = "create"
    /\ \E label \in {"seeded", "unseeded"} :
         TakeLock(r, label,
           [db EXCEPT !.drafts = @ \cup
              {[id |-> r, user |-> op[r].user,
                sim |-> IF label = "seeded" THEN op[r].user ELSE NoSim]}])

\* INSERT of the draft, linked to the simulation it was seeded from.
WriteCreate(r) ==
    /\ op[r].kind = "create"
    /\ \E label \in {"seeded", "unseeded"} :
         TakeLock(r, label,
           [db EXCEPT !.drafts = @ \cup
              {[id |-> r, user |-> op[r].user,
                sim |-> IF label = "seeded" THEN op[r].sim ELSE NoSim]}])

Linked(tables, r) ==
    [tables EXCEPT !.drafts =
       {IF d.id = op[r].draft THEN [d EXCEPT !.sim = op[r].sim] ELSE d : d \in @}]

\* The simulation was this user's already.
WriteLink(r) ==
    /\ op[r].kind = "attach"
    /\ TakeLock(r, "link", Linked(db, r))

\* Planted mistake: the claim is left out.
WriteClaimedLinkUnclaimed(r) ==
    /\ op[r].kind = "attach" /\ ~op[r].borrowers
    /\ TakeLock(r, "write", Linked(db, r))

\* UPDATE of the owner by id, then the link.
WriteClaimedLink(r) ==
    /\ op[r].kind = "attach" /\ ~op[r].borrowers
    /\ TakeLock(r, "write", Linked([db EXCEPT !.owner[op[r].sim] = op[r].user], r))

\* The borrowers were written first, so the simulation is read under the lock.
WriteBorrowersLink(r) ==
    /\ op[r].kind = "attach" /\ op[r].borrowers
    /\ Owner(r) \in {Nobody, op[r].user}
    /\ TakeLock(r, "write",
         Linked([db EXCEPT !.owner = Claimed(@, op[r].sim, op[r].user)], r))

\* SIMULATION_NOT_FOUND after the borrowers were flushed: nothing is kept.
RefuseAttach(r) ==
    /\ pc[r] = "write" /\ op[r].kind = "attach" /\ op[r].borrowers
    /\ writer = NoRequest
    /\ Owner(r) \notin {Nobody, op[r].user}
    /\ Goto(r, "refused")
    /\ UNCHANGED <<db, writer, txn, op, faults>>

Commit(r) ==
    /\ pc[r] = "commit"
    /\ db' = txn
    /\ writer' = NoRequest
    /\ Goto(r, "ok")
    /\ UNCHANGED <<txn, op, faults>>

-----------------------------------------------------------------------------
(* Errors no handler catches, a lock that does not come, and crashes. *)

Fault(r) ==
    /\ faults < MaxFaults
    /\ faults' = faults + 1
    /\ pc[r] \in InFlight
    /\ Goto(r, "failed")
    /\ IF writer = r THEN txn' = db /\ writer' = NoRequest ELSE UNCHANGED <<txn, writer>>
    /\ UNCHANGED <<db, op>>

Crash ==
    /\ faults < MaxFaults
    /\ faults' = faults + 1
    /\ \E r \in Requests : pc[r] \in InFlight
    /\ pc' = [r \in Requests |-> IF pc[r] \in InFlight THEN "failed" ELSE pc[r]]
    /\ txn' = db
    /\ writer' = NoRequest
    /\ UNCHANGED <<db, op>>

Quiet == (\A r \in Requests : pc[r] \notin InFlight) /\ UNCHANGED vars

Next ==
    \/ \E r \in Requests :
         \/ \E o \in Asked : Start(r, o)
         \/ LookUp(r) \/ ReadSeed(r) \/ ReadStored(r) \/ SelectUnowned(r)
         \/ WriteSignup(r) \/ EmailTaken(r) \/ WriteCreate(r)
         \/ WriteLink(r) \/ WriteClaimedLink(r) \/ WriteBorrowersLink(r) \/ RefuseAttach(r)
         \/ Commit(r) \/ Fault(r)
    \/ Crash
    \/ Quiet

Spec == Init /\ [][Next]_vars

-----------------------------------------------------------------------------
(* Properties *)

\* Two accounts never share an address, although simultaneous signups all pass
\* the lookup: the unique index decides (auth/tables.py, AUTH-022).
EmailOnce == \A a, b \in db.users : a.email = b.email => a = b

\* A signup answered 201 has its account, one answered 409 has met somebody
\* else's: a rolled back rival refuses nobody (auth/service.py signup).
SignupsAnsweredTruly ==
    \A r \in Requests : op[r].kind = "signup" =>
       /\ pc[r] = "ok" => [id |-> r, email |-> op[r].email] \in db.users
       /\ pc[r] = "refused" => \E a \in db.users : a.email = op[r].email /\ a.id # r

\* A draft is only ever linked to a simulation somebody has claimed, and a
\* claimed simulation never turns anonymous again (_attach_simulation,
\* _seed_from_simulation, ARC-047).
LinkedIsClaimed == \A d \in db.drafts : d.sim # NoSim => db.owner[d.sim] # Nobody

\* A simulation is owned by an account that exists: a claim and the account it
\* is for are committed together or not at all (auth/service.py signup, CQ-091).
OwnerExists == \A s \in Sims : db.owner[s] \in Accounts(db) \cup {Nobody}

\* DOM-027: an owned simulation is never reassigned.
OwnerNeverChanges ==
    [][\A s \in Sims : db.owner[s] # Nobody => db'.owner[s] = db.owner[s]]_vars
-----------------------------------------------------------------------------
(* Why the properties hold: an invariant of the specification. *)

\* Only the request at its commit holds the lock; without one, nothing is
\* written that is not committed.
LockHeld ==
    /\ \A r \in Requests : writer = r <=> pc[r] = "commit"
    /\ writer = NoRequest => txn = db

\* What every commit leaves.
Sound(tables) ==
    /\ \A a, b \in tables.users : a.email = b.email => a = b
    /\ \A d \in tables.drafts : d.sim # NoSim => tables.owner[d.sim] # Nobody
    /\ \A s \in Sims : tables.owner[s] \in Accounts(tables) \cup {Nobody}

\* The writer only adds its own account, and frees no simulation.
WriterAdds ==
    /\ db.users \subseteq txn.users
    /\ \A a \in txn.users \ db.users : a.id = writer
    /\ \A s \in Sims : db.owner[s] # Nobody => txn.owner[s] # Nobody

\* A committed account belongs to a signup that was answered.
AccountsAnswered == \A a \in db.users : pc[a.id] = "ok"

\* What a request relies on between its reads and its write.
StillTrue ==
    \A r \in Requests :
       /\ pc[r] # "idle" /\ op[r].kind \in {"create", "attach"} => op[r].user \in Accounts(db)
       /\ pc[r] \in {"seeded", "link"} => op[r].sim \in Sims /\ Owner(r) # Nobody
       /\ pc[r] = "claim" => op[r].kind = "attach"
       /\ pc[r] = "commit" /\ op[r].kind = "signup" =>
            [id |-> r, email |-> op[r].email] \in txn.users

OwnershipInv ==
    /\ LockHeld
    /\ Sound(db)
    /\ Sound(txn)
    /\ WriterAdds
    /\ AccountsAnswered
    /\ StillTrue
    /\ SignupsAnsweredTruly
=============================================================================

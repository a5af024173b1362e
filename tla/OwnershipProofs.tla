--------------------------- MODULE OwnershipProofs ---------------------------
(***************************************************************************)
(* Theorems about Ownership for every set of requests, addresses and       *)
(* simulations: accounts, claims and links stay consistent, and signups    *)
(* are answered truthfully.                                                *)
(***************************************************************************)
EXTENDS Ownership, TLAPS

-----------------------------------------------------------------------------
(* Type correctness. *)

LEMMA OpTypes ==
    ASSUME TypeOK, NEW r \in Requests
    PROVE  /\ op[r].kind = "signup" => op[r].email \in Emails /\ op[r].sim \in Sims \cup {NoSim}
           /\ op[r].kind = "create" => op[r].user \in Users /\ op[r].sim \in Sims \cup {NoSim}
           /\ op[r].kind = "attach" => op[r].user \in Users /\ op[r].sim \in Sims
  BY DEF TypeOK, Op, Signup, Create, Attach, NoOp

LEMMA ClaimedType ==
    ASSUME NEW owner \in [Sims -> Users \cup {Nobody}], NEW s \in Sims \cup {NoSim},
           NEW u \in Users
    PROVE  /\ Claimed(owner, s, u) \in [Sims -> Users \cup {Nobody}]
           /\ \A t \in Sims : Claimed(owner, s, u)[t] \in {owner[t], u}
           /\ \A t \in Sims : owner[t] # Nobody => Claimed(owner, s, u)[t] = owner[t]
           /\ s \in Sims => Claimed(owner, s, u)[s] # Nobody
  BY OwnershipAssumption DEF Claimed, Users

\* Linking changes nothing but the simulation of one draft.
LEMMA LinkedTables ==
    ASSUME TypeOK, NEW r \in Requests, op[r].kind = "attach", NEW tables \in Tables
    PROVE  /\ Linked(tables, r) \in Tables
           /\ Linked(tables, r).users = tables.users
           /\ Linked(tables, r).owner = tables.owner
           /\ \A d \in Linked(tables, r).drafts :
                d.sim = op[r].sim \/ \E e \in tables.drafts : d.sim = e.sim
<1>1. op[r].sim \in Sims
  BY OpTypes
<1>2. \A d \in tables.drafts : [d EXCEPT !.sim = op[r].sim] \in DraftRow
  BY <1>1 DEF Tables, DraftRow
<1>3. QED
  BY <1>1, <1>2 DEF Linked, Tables, DraftRow

\* The five ways to a commit.
Write(r) ==
    \/ WriteSignup(r) \/ WriteCreate(r) \/ WriteLink(r)
    \/ WriteClaimedLink(r) \/ WriteBorrowersLink(r)

\* The tables each write leaves.
LEMMA WrittenSignup ==
    ASSUME TypeOK, NEW r \in Requests, WriteSignup(r)
    PROVE  /\ txn' \in Tables
           /\ txn'.users = db.users \cup {[id |-> r, email |-> op[r].email]}
           /\ txn'.owner = Claimed(db.owner, op[r].sim, r)
           /\ txn'.drafts = db.drafts
<1>1. op[r].email \in Emails /\ op[r].sim \in Sims \cup {NoSim} /\ r \in Users
  BY OpTypes DEF WriteSignup, Users
<1>2. [id |-> r, email |-> op[r].email] \in Account
  BY <1>1 DEF Account
<1>3. Claimed(db.owner, op[r].sim, r) \in [Sims -> Users \cup {Nobody}]
  BY <1>1, ClaimedType DEF TypeOK, Tables
<1>4. QED
  BY <1>2, <1>3 DEF WriteSignup, TakeLock, TypeOK, Tables

LEMMA WrittenCreate ==
    ASSUME TypeOK, NEW r \in Requests, WriteCreate(r)
    PROVE  /\ txn' \in Tables
           /\ txn'.users = db.users
           /\ txn'.owner = db.owner
           /\ \A d \in txn'.drafts \ db.drafts :
                d.sim = NoSim \/ (pc[r] = "seeded" /\ d.sim = op[r].sim)
<1>1. op[r].user \in Users /\ op[r].sim \in Sims \cup {NoSim} /\ r \in Drafts
  BY OpTypes DEF WriteCreate, Drafts
<1>2. PICK label \in {"seeded", "unseeded"} :
         TakeLock(r, label,
           [db EXCEPT !.drafts = @ \cup
              {[id |-> r, user |-> op[r].user,
                sim |-> IF label = "seeded" THEN op[r].sim ELSE NoSim]}])
  BY DEF WriteCreate
<1> DEFINE row == [id |-> r, user |-> op[r].user,
                   sim |-> IF label = "seeded" THEN op[r].sim ELSE NoSim]
<1>3. row \in DraftRow
  BY <1>1 DEF DraftRow
<1>4. row.sim = NoSim \/ (pc[r] = "seeded" /\ row.sim = op[r].sim)
  BY <1>2 DEF TakeLock
<1>5. txn' = [db EXCEPT !.drafts = @ \cup {row}]
  BY <1>2 DEF TakeLock
<1> HIDE DEF row
<1>6. txn'.drafts = db.drafts \cup {row} /\ txn'.users = db.users /\ txn'.owner = db.owner
  BY <1>5 DEF TypeOK, Tables
<1>7. txn' \in Tables
  BY <1>3, <1>5 DEF TypeOK, Tables
<1>8. QED
  BY <1>4, <1>6, <1>7

LEMMA WrittenAttach ==
    ASSUME TypeOK, NEW r \in Requests,
           WriteLink(r) \/ WriteClaimedLink(r) \/ WriteBorrowersLink(r)
    PROVE  /\ txn' \in Tables
           /\ txn'.users = db.users
           /\ op[r].kind = "attach"
           /\ \A d \in txn'.drafts : d.sim = op[r].sim \/ \E e \in db.drafts : d.sim = e.sim
           /\ \/ pc[r] = "link" /\ txn'.owner = db.owner
              \/ txn'.owner = [db.owner EXCEPT ![op[r].sim] = op[r].user]
              \/ txn'.owner = Claimed(db.owner, op[r].sim, op[r].user)
<1> op[r].kind = "attach" /\ op[r].sim \in Sims /\ op[r].user \in Users
  BY OpTypes DEF WriteLink, WriteClaimedLink, WriteBorrowersLink
<1>1. CASE WriteLink(r)
  BY <1>1, LinkedTables DEF WriteLink, TakeLock, TypeOK
<1>2. CASE WriteClaimedLink(r)
  <2> DEFINE tables == [db EXCEPT !.owner[op[r].sim] = op[r].user]
  <2>1. /\ tables \in Tables
        /\ tables.users = db.users
        /\ tables.drafts = db.drafts
        /\ tables.owner = [db.owner EXCEPT ![op[r].sim] = op[r].user]
    BY DEF TypeOK, Tables
  <2>2. txn' = Linked(tables, r)
    BY <1>2 DEF WriteClaimedLink, TakeLock
  <2> HIDE DEF tables
  <2>3. QED
    BY <2>1, <2>2, LinkedTables
<1>3. CASE WriteBorrowersLink(r)
  <2> DEFINE tables == [db EXCEPT !.owner = Claimed(@, op[r].sim, op[r].user)]
  <2>1. Claimed(db.owner, op[r].sim, op[r].user) \in [Sims -> Users \cup {Nobody}]
    BY ClaimedType DEF TypeOK, Tables
  <2>2. /\ tables \in Tables
        /\ tables.users = db.users
        /\ tables.drafts = db.drafts
        /\ tables.owner = Claimed(db.owner, op[r].sim, op[r].user)
    BY <2>1 DEF TypeOK, Tables
  <2>3. txn' = Linked(tables, r)
    BY <1>3 DEF WriteBorrowersLink, TakeLock
  <2> HIDE DEF tables
  <2>4. QED
    BY <2>2, <2>3, LinkedTables
<1>4. QED
  BY <1>1, <1>2, <1>3

LEMMA WriteTakesLock ==
    ASSUME NEW r \in Requests, Write(r)
    PROVE  /\ pc[r] \in {"write", "seeded", "unseeded", "link"}
           /\ writer = NoRequest
           /\ writer' = r
           /\ Goto(r, "commit")
           /\ UNCHANGED <<db, op, faults>>
  BY DEF Write, WriteSignup, WriteCreate, WriteLink, WriteClaimedLink, WriteBorrowersLink,
         TakeLock

LEMMA TypeStep == TypeOK /\ [Next]_vars => TypeOK'
<1> SUFFICES ASSUME TypeOK, [Next]_vars PROVE TypeOK'
  OBVIOUS
<1> USE DEF TypeOK, InFlight, Answered
<1>1. ASSUME NEW r \in Requests, NEW o \in Asked, Start(r, o) PROVE TypeOK'
  BY <1>1, AskedAssumption DEF Start, Goto
<1>2. ASSUME NEW r \in Requests,
             LookUp(r) \/ ReadSeed(r) \/ ReadStored(r) \/ SelectUnowned(r)
             \/ EmailTaken(r) \/ RefuseAttach(r)
      PROVE  TypeOK'
  BY <1>2 DEF LookUp, ReadSeed, ReadStored, SelectUnowned, EmailTaken, RefuseAttach, Goto
<1>3. ASSUME NEW r \in Requests, Write(r) PROVE TypeOK'
  <2>1. txn' \in Tables
    BY <1>3, WrittenSignup, WrittenCreate, WrittenAttach DEF Write
  <2>2. QED
    BY <1>3, <2>1, WriteTakesLock DEF Goto
<1>4. ASSUME NEW r \in Requests, Commit(r) PROVE TypeOK'
  BY <1>4 DEF Commit, Goto
<1>5. ASSUME NEW r \in Requests, Fault(r) PROVE TypeOK'
  BY <1>5 DEF Fault, Goto
<1>6. CASE Crash
  BY <1>6 DEF Crash
<1>7. CASE UNCHANGED vars
  BY <1>7 DEF vars
<1>8. QED
  BY <1>1, <1>2, <1>3, <1>4, <1>5, <1>6, <1>7 DEF Next, Quiet, Write

LEMMA InitTables ==
    ASSUME Init
    PROVE  /\ db \in Tables
           /\ txn = db
           /\ db.users = {}
           /\ \A s \in Sims : db.owner[s] = Nobody
           /\ \A d \in db.drafts : d.sim = NoSim
<1>1. \A u \in Residents : [id |-> u, user |-> u, sim |-> NoSim] \in DraftRow
  BY DEF DraftRow, Users, Drafts
<1>2. {[id |-> u, user |-> u, sim |-> NoSim] : u \in Residents} \subseteq DraftRow
  BY <1>1
<1>3. QED
  BY <1>2 DEF Init, Tables

\* The tables, the lock and every request's state keep their types.
THEOREM TypeCorrect == Spec => []TypeOK
<1>1. Init => TypeOK
  BY InitTables DEF Init, TypeOK, Op
<1>2. QED
  BY <1>1, TypeStep, PTL DEF Spec
-----------------------------------------------------------------------------
(* The invariant, step by step. *)

\* A request that moves on without writing keeps the invariant, provided the
\* place it moves to promises no more than it knows.
LEMMA MoveKeepsInv ==
    ASSUME TypeOK, OwnershipInv, NEW r \in Requests, NEW label,
           Goto(r, label), UNCHANGED <<db, writer, txn, op>>,
           pc[r] \notin {"idle", "commit", "ok"},
           label \notin {"idle", "commit", "ok"},
           label \in {"seeded", "link"} => op[r].sim \in Sims /\ Owner(r) # Nobody,
           label = "claim" => op[r].kind = "attach",
           label = "refused" /\ op[r].kind = "signup" =>
              \E a \in db.users : a.email = op[r].email
    PROVE  OwnershipInv'
<1>1. /\ \A q \in Requests : q # r => pc'[q] = pc[q]
      /\ pc'[r] = label
      /\ \A q \in Requests : pc[q] = "ok" => pc'[q] = "ok"
      /\ \A q \in Requests : Owner(q)' = Owner(q)
  BY DEF TypeOK, Goto, Owner
<1>2. \A a \in db.users : a.id \in Requests /\ a.id # r
  BY DEF TypeOK, Tables, Account, OwnershipInv, AccountsAnswered
<1>3. LockHeld'
  BY <1>1 DEF OwnershipInv, LockHeld
<1>4. Sound(db)' /\ Sound(txn)' /\ WriterAdds'
  BY DEF OwnershipInv, Sound, WriterAdds, Accounts
<1>5. AccountsAnswered'
  BY <1>1, <1>2 DEF OwnershipInv, AccountsAnswered
<1>6. StillTrue'
  BY <1>1 DEF OwnershipInv, StillTrue, Accounts
<1>7. SignupsAnsweredTruly'
  BY <1>1, <1>2 DEF OwnershipInv, SignupsAnsweredTruly
<1>8. QED
  BY <1>3, <1>4, <1>5, <1>6, <1>7 DEF OwnershipInv

\* What the writer leaves is sound, and only adds to what was committed.
LEMMA WrittenSound ==
    ASSUME TypeOK, OwnershipInv, NEW r \in Requests, Write(r)
    PROVE  /\ Sound(txn')
           /\ db.users \subseteq txn'.users
           /\ \A a \in txn'.users \ db.users : a.id = r
           /\ \A s \in Sims : db.owner[s] # Nobody => txn'.owner[s] # Nobody
           /\ op[r].kind = "signup" => [id |-> r, email |-> op[r].email] \in txn'.users
<1> Sound(db) /\ db \in Tables
  BY DEF OwnershipInv, TypeOK
<1>1. CASE WriteSignup(r)
  <2> DEFINE row == [id |-> r, email |-> op[r].email]
  <2>1. op[r].sim \in Sims \cup {NoSim} /\ r \in Users /\ row.id = r /\ row.email = op[r].email
    BY <1>1, OpTypes DEF WriteSignup, Users
  <2>2. \A a \in db.users : a.email # row.email
    BY <1>1, <2>1 DEF WriteSignup
  <2>3. txn'.users = db.users \cup {row} /\ txn'.drafts = db.drafts
    BY <1>1, WrittenSignup
  <2>4. /\ \A s \in Sims : txn'.owner[s] \in {db.owner[s], r}
        /\ \A s \in Sims : db.owner[s] # Nobody => txn'.owner[s] = db.owner[s]
    <3>1. db.owner \in [Sims -> Users \cup {Nobody}]
      BY DEF Tables
    <3>2. txn'.owner = Claimed(db.owner, op[r].sim, r)
      BY <1>1, WrittenSignup
    <3>3. /\ \A s \in Sims : Claimed(db.owner, op[r].sim, r)[s] \in {db.owner[s], r}
          /\ \A s \in Sims : db.owner[s] # Nobody =>
               Claimed(db.owner, op[r].sim, r)[s] = db.owner[s]
      BY <2>1, <3>1, ClaimedType
    <3>4. QED
      BY <3>2, <3>3
  <2> HIDE DEF row
  <2>5. \A a, b \in txn'.users : a.email = b.email => a = b
    BY <2>2, <2>3 DEF Sound
  <2>6. \A d \in txn'.drafts : d.sim # NoSim => txn'.owner[d.sim] # Nobody
    BY <2>3, <2>4 DEF Sound, Tables, DraftRow
  <2>7. r \in Accounts(txn') /\ Accounts(db) \subseteq Accounts(txn')
    BY <2>1, <2>3 DEF Accounts
  <2>8. \A s \in Sims : txn'.owner[s] \in Accounts(txn') \cup {Nobody}
    BY <2>4, <2>7 DEF Sound
  <2>9. QED
    BY <2>1, <2>3, <2>4, <2>5, <2>6, <2>8 DEF Sound, row
<1>2. CASE WriteCreate(r)
  <2>1. txn'.users = db.users /\ txn'.owner = db.owner
    BY <1>2, WrittenCreate
  <2>2. \A d \in txn'.drafts : d.sim # NoSim => txn'.owner[d.sim] # Nobody
    <3>1. pc[r] = "seeded" => db.owner[op[r].sim] # Nobody
      BY DEF OwnershipInv, StillTrue, Owner
    <3>2. QED
      BY <1>2, <2>1, <3>1, WrittenCreate DEF Sound
  <2>3. Accounts(txn') = Accounts(db)
    BY <2>1 DEF Accounts
  <2>4. QED
    BY <1>2, <2>1, <2>2, <2>3 DEF Sound, WriteCreate
<1>3. CASE WriteLink(r) \/ WriteClaimedLink(r) \/ WriteBorrowersLink(r)
  <2>1. /\ op[r].kind = "attach" /\ txn'.users = db.users
        /\ op[r].sim \in Sims /\ op[r].user \in Users
    BY <1>3, WrittenAttach, OpTypes
  <2>2. op[r].user \in Accounts(db) /\ op[r].user # Nobody
    <3>1. pc[r] # "idle"
      BY <1>3, WriteTakesLock DEF Write
    <3>2. QED
      BY <2>1, <3>1, OwnershipAssumption DEF OwnershipInv, StillTrue, Users
  <2>3. /\ \A s \in Sims : txn'.owner[s] \in {db.owner[s], op[r].user}
        /\ \A s \in Sims : db.owner[s] # Nobody => txn'.owner[s] # Nobody
        /\ txn'.owner[op[r].sim] # Nobody
    <3>1. CASE pc[r] = "link" /\ txn'.owner = db.owner
      BY <3>1 DEF OwnershipInv, StillTrue, Owner
    <3>2. CASE txn'.owner = [db.owner EXCEPT ![op[r].sim] = op[r].user]
      BY <2>1, <2>2, <3>2 DEF Tables
    <3>3. CASE txn'.owner = Claimed(db.owner, op[r].sim, op[r].user)
      BY <2>1, <3>3, ClaimedType DEF Tables
    <3>4. QED
      BY <1>3, <3>1, <3>2, <3>3, WrittenAttach
  <2>4. \A d \in txn'.drafts : d.sim # NoSim => txn'.owner[d.sim] # Nobody
    <3>1. \A d \in txn'.drafts : d.sim = op[r].sim \/ \E e \in db.drafts : d.sim = e.sim
      BY <1>3, WrittenAttach
    <3>2. QED
      BY <2>1, <2>3, <3>1 DEF Sound, Tables, DraftRow
  <2>5. Accounts(txn') = Accounts(db)
    BY <2>1 DEF Accounts
  <2>6. QED
    BY <2>1, <2>2, <2>3, <2>4, <2>5 DEF Sound
<1>4. QED
  BY <1>1, <1>2, <1>3 DEF Write

LEMMA WriteKeepsInv ==
    ASSUME TypeOK, OwnershipInv, NEW r \in Requests, Write(r)
    PROVE  OwnershipInv'
<1>1. /\ pc[r] \in {"write", "seeded", "unseeded", "link"} /\ pc'[r] = "commit"
      /\ writer = NoRequest /\ writer' = r
      /\ \A q \in Requests : q # r => pc'[q] = pc[q] /\ pc[q] # "commit"
      /\ \A q \in Requests : pc[q] = "ok" => pc'[q] = "ok"
      /\ UNCHANGED <<db, op>>
      /\ \A q \in Requests : Owner(q)' = Owner(q)
  BY WriteTakesLock, OwnershipAssumption DEF Goto, TypeOK, OwnershipInv, LockHeld, Owner
<1>2. \A a \in db.users : a.id \in Requests /\ pc[a.id] = "ok"
  BY DEF TypeOK, Tables, Account, OwnershipInv, AccountsAnswered
<1>3. LockHeld'
  BY <1>1, OwnershipAssumption DEF LockHeld
<1>4. Sound(db)' /\ Sound(txn)'
  BY <1>1, WrittenSound DEF OwnershipInv, Sound, Accounts
<1>5. WriterAdds'
  BY <1>1, WrittenSound DEF WriterAdds
<1>6. AccountsAnswered'
  BY <1>1, <1>2 DEF AccountsAnswered
<1>7. StillTrue'
  <2>1. op[r].kind = "signup" => [id |-> r, email |-> op[r].email] \in txn'.users
    BY WrittenSound
  <2>2. QED
    BY <1>1, <2>1 DEF OwnershipInv, StillTrue, Accounts
<1>8. SignupsAnsweredTruly'
  BY <1>1 DEF OwnershipInv, SignupsAnsweredTruly
<1>9. QED
  BY <1>3, <1>4, <1>5, <1>6, <1>7, <1>8 DEF OwnershipInv

LEMMA CommitKeepsInv ==
    ASSUME TypeOK, OwnershipInv, NEW r \in Requests, Commit(r)
    PROVE  OwnershipInv'
<1>1. /\ pc[r] = "commit" /\ pc'[r] = "ok" /\ db' = txn /\ writer' = NoRequest
      /\ \A q \in Requests : q # r => pc'[q] = pc[q]
      /\ \A q \in Requests : pc[q] = "ok" => pc'[q] = "ok"
      /\ UNCHANGED <<txn, op>>
  BY DEF Commit, Goto, TypeOK
<1>2. writer = r /\ \A q \in Requests : q # r => pc[q] # "commit"
  BY <1>1 DEF OwnershipInv, LockHeld
<1>3. LockHeld'
  BY <1>1, <1>2, OwnershipAssumption DEF LockHeld
<1>4. Sound(db)' /\ Sound(txn)'
  BY <1>1 DEF OwnershipInv, Sound, Accounts
<1>5. WriterAdds'
  BY <1>1 DEF WriterAdds
<1>6. AccountsAnswered'
  BY <1>1, <1>2 DEF OwnershipInv, AccountsAnswered, WriterAdds, TypeOK, Tables, Account
<1>7. StillTrue'
  <2>1. Accounts(db) \subseteq Accounts(txn)
    BY DEF OwnershipInv, WriterAdds, Accounts
  <2>2. \A q \in Requests : op[q].sim \in Sims /\ Owner(q) # Nobody => Owner(q)' # Nobody
    BY <1>1 DEF OwnershipInv, WriterAdds, Owner
  <2>3. Accounts(db)' = Accounts(txn)
    BY <1>1 DEF Accounts
  <2>4. QED
    BY <1>1, <1>2, <2>1, <2>2, <2>3 DEF OwnershipInv, StillTrue
<1>8. SignupsAnsweredTruly'
  BY <1>1, <1>2 DEF OwnershipInv, SignupsAnsweredTruly, StillTrue, WriterAdds
<1>9. QED
  BY <1>3, <1>4, <1>5, <1>6, <1>7, <1>8 DEF OwnershipInv

\* Requests that give up, and the writer with what it wrote, lose nothing
\* that was committed.
LEMMA GiveUpKeepsInv ==
    ASSUME TypeOK, OwnershipInv,
           UNCHANGED <<db, op>>,
           \A q \in Requests : \/ pc'[q] = pc[q]
                               \/ pc[q] \in InFlight /\ pc'[q] = "failed",
           \/ writer' = NoRequest /\ txn' = db /\ \A q \in Requests : pc'[q] # "commit"
           \/ UNCHANGED <<writer, txn>> /\ \A q \in Requests : pc[q] = "commit" => pc'[q] = pc[q]
    PROVE  OwnershipInv'
<1>1. /\ \A q \in Requests : pc[q] = "ok" => pc'[q] = "ok"
      /\ \A q \in Requests : pc'[q] # "failed" => pc'[q] = pc[q]
      /\ \A q \in Requests : pc'[q] = "failed" => pc[q] # "idle"
      /\ \A q \in Requests : Owner(q)' = Owner(q)
  BY DEF InFlight, Owner, OwnershipInv
<1>2. LockHeld'
  BY <1>1, OwnershipAssumption DEF OwnershipInv, LockHeld
<1>3. Sound(db)' /\ Sound(txn)' /\ WriterAdds'
  BY DEF OwnershipInv, Sound, WriterAdds, Accounts
<1>4. AccountsAnswered'
  BY <1>1 DEF OwnershipInv, AccountsAnswered, TypeOK, Tables, Account
<1>5. StillTrue'
  BY <1>1 DEF OwnershipInv, StillTrue, Accounts
<1>6. SignupsAnsweredTruly'
  BY <1>1 DEF OwnershipInv, SignupsAnsweredTruly
<1>7. QED
  BY <1>2, <1>3, <1>4, <1>5, <1>6 DEF OwnershipInv

LEMMA InvStep == TypeOK /\ OwnershipInv /\ [Next]_vars => OwnershipInv'
<1> SUFFICES ASSUME TypeOK, OwnershipInv, [Next]_vars PROVE OwnershipInv'
  OBVIOUS
<1>1. ASSUME NEW r \in Requests, NEW o \in Asked, Start(r, o) PROVE OwnershipInv'
  <2>1. /\ pc[r] = "idle" /\ pc'[r] = "start"
        /\ o.kind \in {"create", "attach"} => o.user \in Accounts(db)
        /\ op'[r] = o
        /\ \A q \in Requests : q # r => pc'[q] = pc[q] /\ op'[q] = op[q]
        /\ \A q \in Requests : pc[q] = "ok" => pc'[q] = "ok"
        /\ UNCHANGED <<db, txn, writer>>
    BY <1>1 DEF Start, Known, Goto, TypeOK
  <2>2. LockHeld'
    BY <2>1 DEF OwnershipInv, LockHeld
  <2>3. Sound(db)' /\ Sound(txn)' /\ WriterAdds'
    BY <2>1 DEF OwnershipInv, Sound, WriterAdds, Accounts
  <2>4. AccountsAnswered'
    BY <2>1 DEF OwnershipInv, AccountsAnswered, TypeOK, Tables, Account
  <2>5. StillTrue'
    BY <2>1 DEF OwnershipInv, StillTrue, Owner, Accounts
  <2>6. SignupsAnsweredTruly'
    BY <2>1 DEF OwnershipInv, SignupsAnsweredTruly
  <2>7. QED
    BY <2>2, <2>3, <2>4, <2>5, <2>6 DEF OwnershipInv
<1>2. ASSUME NEW r \in Requests, LookUp(r) PROVE OwnershipInv'
  BY <1>2, MoveKeepsInv DEF LookUp
<1>3. ASSUME NEW r \in Requests, ReadSeed(r) PROVE OwnershipInv'
  <2>1. /\ op[r].kind = "create" /\ op[r].user # Nobody
        /\ op[r].sim # NoSim => op[r].sim \in Sims
    BY <1>3, OpTypes, OwnershipAssumption DEF ReadSeed, Users
  <2>2. QED
    BY <1>3, <2>1, MoveKeepsInv DEF ReadSeed
<1>4. ASSUME NEW r \in Requests, ReadStored(r) PROVE OwnershipInv'
  <2>1. op[r].kind = "attach" /\ op[r].sim \in Sims /\ op[r].user # Nobody
    BY <1>4, OpTypes, OwnershipAssumption DEF ReadStored, Users
  <2>2. PICK label \in {"write", "claim", "link", "refused"} :
          /\ Goto(r, label)
          /\ label = "link" => Owner(r) # Nobody
    BY <1>4, <2>1 DEF ReadStored
  <2>3. pc[r] = "start" /\ UNCHANGED <<db, writer, txn, op>>
    BY <1>4 DEF ReadStored
  <2>4. QED
    BY <2>1, <2>2, <2>3, MoveKeepsInv
<1>5. ASSUME NEW r \in Requests, SelectUnowned(r) PROVE OwnershipInv'
  <2>1. op[r].kind = "attach"
    BY <1>5 DEF SelectUnowned, OwnershipInv, StillTrue
  <2>2. QED
    BY <1>5, <2>1, MoveKeepsInv DEF SelectUnowned
<1>6. ASSUME NEW r \in Requests, EmailTaken(r) PROVE OwnershipInv'
  BY <1>6, MoveKeepsInv DEF EmailTaken
<1>7. ASSUME NEW r \in Requests, RefuseAttach(r) PROVE OwnershipInv'
  BY <1>7, MoveKeepsInv DEF RefuseAttach
<1>8. ASSUME NEW r \in Requests, Write(r) PROVE OwnershipInv'
  BY <1>8, WriteKeepsInv
<1>9. ASSUME NEW r \in Requests, Commit(r) PROVE OwnershipInv'
  BY <1>9, CommitKeepsInv
<1>10. ASSUME NEW r \in Requests, Fault(r) PROVE OwnershipInv'
  <2>1. /\ pc[r] \in InFlight /\ pc'[r] = "failed"
        /\ \A q \in Requests : q # r => pc'[q] = pc[q]
        /\ UNCHANGED <<db, op>>
        /\ \/ writer = r /\ txn' = db /\ writer' = NoRequest
           \/ writer # r /\ UNCHANGED <<txn, writer>>
    BY <1>10 DEF Fault, Goto, TypeOK
  <2>2. \A q \in Requests : writer = q <=> pc[q] = "commit"
    BY DEF OwnershipInv, LockHeld
  <2>3. QED
    BY <2>1, <2>2, GiveUpKeepsInv
<1>11. CASE Crash
  <2>1. /\ \A q \in Requests : \/ pc'[q] = pc[q] /\ pc[q] \notin InFlight
                               \/ pc[q] \in InFlight /\ pc'[q] = "failed"
        /\ writer' = NoRequest /\ txn' = db
        /\ UNCHANGED <<db, op>>
    BY <1>11 DEF Crash
  <2>2. \A q \in Requests : pc'[q] # "commit"
    BY <2>1 DEF InFlight
  <2>3. QED
    BY <2>1, <2>2, GiveUpKeepsInv
<1>12. CASE UNCHANGED vars
  BY <1>12 DEF vars, OwnershipInv, LockHeld, Sound, WriterAdds, AccountsAnswered, StillTrue,
               SignupsAnsweredTruly, Owner, Accounts
<1>13. QED
  BY <1>1, <1>2, <1>3, <1>4, <1>5, <1>6, <1>7, <1>8, <1>9, <1>10, <1>11, <1>12
     DEF Next, Quiet, Write

LEMMA InvInit == Init => OwnershipInv
<1> SUFFICES ASSUME Init PROVE OwnershipInv
  OBVIOUS
<1>1. Sound(db) /\ Sound(txn)
  BY InitTables DEF Sound
<1>2. LockHeld /\ WriterAdds /\ AccountsAnswered
  BY InitTables, OwnershipAssumption DEF Init, LockHeld, WriterAdds, AccountsAnswered
<1>3. StillTrue /\ SignupsAnsweredTruly
  BY DEF Init, StillTrue, SignupsAnsweredTruly, NoOp
<1>4. QED
  BY <1>1, <1>2, <1>3 DEF OwnershipInv

-----------------------------------------------------------------------------
(* What borrowers may rely on. *)

\* Accounts, owners, links, the lock and what each request has read agree in
\* every state the handlers reach.
THEOREM OwnershipHolds == Spec => []OwnershipInv
  BY InvInit, InvStep, TypeCorrect, PTL DEF Spec

\* However many signups race for one address, one account has it.
THEOREM OneAccountPerEmail == Spec => []EmailOnce
<1>1. OwnershipInv => EmailOnce
  BY DEF OwnershipInv, Sound, EmailOnce
<1>2. QED
  BY <1>1, OwnershipHolds, PTL

\* 201 means the account is there, 409 that somebody else has the address,
\* whatever was rolled back in between.
THEOREM SignupAnswers == Spec => []SignupsAnsweredTruly
<1>1. OwnershipInv => SignupsAnsweredTruly
  BY DEF OwnershipInv
<1>2. QED
  BY <1>1, OwnershipHolds, PTL

\* No draft is linked to an anonymous simulation, although the link is written
\* by what was read before the lock.
THEOREM LinksAreClaimed == Spec => []LinkedIsClaimed
<1>1. OwnershipInv => LinkedIsClaimed
  BY DEF OwnershipInv, Sound, LinkedIsClaimed
<1>2. QED
  BY <1>1, OwnershipHolds, PTL

\* A claim is never committed without the account it is for.
THEOREM OwnersExist == Spec => []OwnerExists
<1>1. OwnershipInv => OwnerExists
  BY DEF OwnershipInv, Sound, OwnerExists
<1>2. QED
  BY <1>1, OwnershipHolds, PTL

-----------------------------------------------------------------------------
(* Who can lose a simulation.  OwnerNeverChanges is what the repository says *)
(* and the code does not keep; this is how far it keeps it.                  *)

\* Request r claims s by an UPDATE whose SELECT ran without the lock.
ClaimsUnlocked(r, s) ==
    op[r].kind = "attach" /\ ~op[r].borrowers /\ op[r].sim = s

\* What is staged takes an owned simulation from its owner only by such a claim,
\* and for the claimant.
TakenByClaim ==
    \A s \in Sims : db.owner[s] # Nobody /\ txn.owner[s] # db.owner[s] =>
       /\ writer \in Requests /\ ClaimsUnlocked(writer, s)
       /\ txn.owner[s] = op[writer].user

OwnersPassByClaim ==
    [][\A s \in Sims : db.owner[s] # Nobody /\ db'.owner[s] # db.owner[s] =>
         \E r \in Requests : /\ pc[r] = "commit" /\ ClaimsUnlocked(r, s)
                             /\ db'.owner[s] = op[r].user]_vars

LEMMA TakenByClaimStep == TypeOK /\ OwnershipInv /\ TakenByClaim /\ [Next]_vars => TakenByClaim'
<1> SUFFICES ASSUME TypeOK, OwnershipInv, TakenByClaim, [Next]_vars PROVE TakenByClaim'
  OBVIOUS
<1>1. ASSUME txn' = db, db' = db PROVE TakenByClaim'
  BY <1>1 DEF TakenByClaim
<1>2. ASSUME UNCHANGED <<db, txn, writer>>, writer \in Requests => op'[writer] = op[writer]
      PROVE  TakenByClaim'
  BY <1>2 DEF TakenByClaim, ClaimsUnlocked
<1>3. ASSUME NEW r \in Requests, NEW o \in Asked, Start(r, o) PROVE TakenByClaim'
  <2>1. pc[r] # "commit" /\ \A q \in Requests : q # r => op'[q] = op[q]
    BY <1>3 DEF Start, TypeOK
  <2>2. writer # r
    BY <2>1 DEF OwnershipInv, LockHeld
  <2>3. QED
    BY <1>2, <1>3, <2>1, <2>2 DEF Start
<1>4. ASSUME NEW r \in Requests, Write(r) PROVE TakenByClaim'
  <2>1. writer' = r /\ UNCHANGED <<db, op>>
    BY <1>4, WriteTakesLock
  <2>2. db.owner \in [Sims -> Users \cup {Nobody}]
    BY DEF TypeOK, Tables
  <2>3. CASE WriteSignup(r)
    <3>1. op[r].sim \in Sims \cup {NoSim} /\ r \in Users
      BY <2>3, OpTypes DEF WriteSignup, Users
    <3>2. \A s \in Sims : db.owner[s] # Nobody =>
             Claimed(db.owner, op[r].sim, r)[s] = db.owner[s]
      BY <2>2, <3>1, ClaimedType
    <3>3. txn'.owner = Claimed(db.owner, op[r].sim, r)
      BY <2>3, WrittenSignup
    <3>4. QED
      BY <2>1, <3>2, <3>3 DEF TakenByClaim
  <2>4. CASE WriteCreate(r)
    BY <2>1, <2>4, WrittenCreate DEF TakenByClaim
  <2>5. CASE WriteLink(r)
    <3>1. txn'.owner = db.owner
      BY <2>5, LinkedTables DEF WriteLink, TakeLock, TypeOK
    <3>2. QED
      BY <2>1, <3>1 DEF TakenByClaim
  <2>6. CASE WriteClaimedLink(r)
    <3>1. op[r].kind = "attach" /\ ~op[r].borrowers
      BY <2>6 DEF WriteClaimedLink
    <3>2. op[r].sim \in Sims /\ op[r].user \in Users
      BY <3>1, OpTypes
    <3> DEFINE claimed == [db EXCEPT !.owner[op[r].sim] = op[r].user]
    <3>3. claimed \in Tables /\ claimed.owner = [db.owner EXCEPT ![op[r].sim] = op[r].user]
      BY <3>2 DEF TypeOK, Tables
    <3>4. txn' = Linked(claimed, r)
      BY <2>6 DEF WriteClaimedLink, TakeLock
    <3> HIDE DEF claimed
    <3>5. txn'.owner = [db.owner EXCEPT ![op[r].sim] = op[r].user]
      BY <3>1, <3>3, <3>4, LinkedTables
    <3>6. QED
      BY <2>1, <2>2, <3>1, <3>2, <3>5 DEF TakenByClaim, ClaimsUnlocked
  <2>7. CASE WriteBorrowersLink(r)
    <3>1. op[r].kind = "attach"
      BY <2>7 DEF WriteBorrowersLink
    <3>2. op[r].sim \in Sims /\ op[r].user \in Users
      BY <3>1, OpTypes
    <3> DEFINE owner == Claimed(db.owner, op[r].sim, op[r].user)
               claimed == [db EXCEPT !.owner = owner]
    <3>3. /\ owner \in [Sims -> Users \cup {Nobody}]
          /\ \A s \in Sims : db.owner[s] # Nobody => owner[s] = db.owner[s]
      BY <2>2, <3>2, ClaimedType
    <3>4. txn' = Linked(claimed, r)
      BY <2>7 DEF WriteBorrowersLink, TakeLock
    <3> HIDE DEF owner
    <3>5. claimed \in Tables /\ claimed.owner = owner
      BY <3>3 DEF TypeOK, Tables
    <3> HIDE DEF claimed
    <3>6. txn'.owner = owner
      BY <3>1, <3>4, <3>5, LinkedTables
    <3>7. QED
      BY <2>1, <3>3, <3>6 DEF TakenByClaim
  <2>8. QED
    BY <1>4, <2>3, <2>4, <2>5, <2>6, <2>7 DEF Write
<1>5. ASSUME NEW r \in Requests, Commit(r) PROVE TakenByClaim'
  BY <1>5 DEF Commit, TakenByClaim
<1>6. ASSUME NEW r \in Requests, Fault(r) PROVE TakenByClaim'
  BY <1>1, <1>2, <1>6 DEF Fault
<1>7. CASE Crash
  BY <1>1, <1>7 DEF Crash
<1>8. ASSUME NEW r \in Requests,
             LookUp(r) \/ ReadSeed(r) \/ ReadStored(r) \/ SelectUnowned(r)
             \/ EmailTaken(r) \/ RefuseAttach(r)
      PROVE  TakenByClaim'
  BY <1>2, <1>8 DEF LookUp, ReadSeed, ReadStored, SelectUnowned, EmailTaken, RefuseAttach
<1>9. CASE UNCHANGED vars
  BY <1>2, <1>9 DEF vars
<1>10. QED
  BY <1>3, <1>4, <1>5, <1>6, <1>7, <1>8, <1>9 DEF Next, Quiet, Write

\* A simulation passes from one account to another only when a PATCH without
\* borrowers commits its claim (_attach_simulation, repository.py set_owner), and
\* then to that PATCH's user: neither a signup, nor a create, nor a PATCH that had
\* the lock before it read can take it.
THEOREM OwnersPassOnlyByClaim == Spec => OwnersPassByClaim
<1>1. Init => TakenByClaim
  BY InitTables DEF TakenByClaim
<1>2. OwnershipInv /\ TakenByClaim /\ [Next]_vars =>
        [\A s \in Sims : db.owner[s] # Nobody /\ db'.owner[s] # db.owner[s] =>
           \E r \in Requests : /\ pc[r] = "commit" /\ ClaimsUnlocked(r, s)
                               /\ db'.owner[s] = op[r].user]_vars
  <2> SUFFICES ASSUME OwnershipInv, TakenByClaim, Next,
                      NEW s \in Sims, db.owner[s] # Nobody, db'.owner[s] # db.owner[s]
               PROVE  \E r \in Requests : /\ pc[r] = "commit" /\ ClaimsUnlocked(r, s)
                                          /\ db'.owner[s] = op[r].user
    OBVIOUS
  <2>1. PICK r \in Requests : Commit(r)
    BY DEF Next, Start, LookUp, ReadSeed, ReadStored, SelectUnowned, EmailTaken,
       RefuseAttach, WriteSignup, WriteCreate, WriteLink, WriteClaimedLink,
       WriteBorrowersLink, TakeLock, Fault, Crash, Quiet, vars
  <2>2. pc[r] = "commit" /\ db' = txn
    BY <2>1 DEF Commit
  <2>3. writer = r
    BY <2>2 DEF OwnershipInv, LockHeld
  <2>4. QED
    BY <2>2, <2>3 DEF TakenByClaim
<1>3. QED
  BY <1>1, <1>2, InvInit, InvStep, TakenByClaimStep, TypeCorrect, PTL DEF Spec, OwnersPassByClaim
=============================================================================

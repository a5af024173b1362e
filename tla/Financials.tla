----------------------------- MODULE Financials -----------------------------
(***************************************************************************)
(* GET and PUT of the financial profile of one application                 *)
(* (applications/service.py get_financials and put_financials), any number *)
(* of them at once, over one row of the table application_financials.      *)
(*                                                                         *)
(* A PUT loads the row in autocommit and assigns every column, and its     *)
(* flush writes the columns that differ from what it loaded: an INSERT     *)
(* when it found no row, an UPDATE of those columns otherwise.  What       *)
(* another PUT committed in between stays in the other columns.            *)
(*                                                                         *)
(* The time at which a PUT confirms its figures is named by the PUT.  The  *)
(* source document columns are Null throughout; they and updated_at, which *)
(* every UPDATE sets, are left out.                                        *)
(***************************************************************************)
EXTENDS Affordability, FiniteSets

CONSTANTS
    Requests,    \* HTTP requests, each made once
    NoRequest,
    Missing,     \* no row in the table
    Bodies,      \* the profiles that are submitted
    Households,  \* the links and borrowers the application comes to have
    MaxEdits,    \* edits of the application by other requests
    MaxFaults    \* errors no handler catches

Amount == Nat \cup {Null}

\* FinancialsRequest: what a PUT may submit.
FinancialsRequest == [income : Amount, credit : Amount, dependants : 0..20]

\* FinancialProfileRow, without the id and updated_at.
Row == [net_monthly_income : Amount,
        net_monthly_income_provenance : {Null, "MANUAL"},
        net_monthly_income_confirmed_at : Requests \cup {Null},
        existing_credit_monthly : Amount,
        existing_credit_provenance : {Null, "MANUAL"},
        existing_credit_confirmed_at : Requests \cup {Null},
        dependants : 0..20]

ASSUME FinancialsAssumption ==
    /\ NoRequest \notin Requests
    /\ Missing \notin Row
    /\ Null \notin Int \cup Requests \cup {"MANUAL"}
    /\ Bodies \subseteq FinancialsRequest
    /\ Households \subseteq [payment : Amount, borrowers : Nat]
    /\ MaxEdits \in Nat /\ MaxFaults \in Nat

VARIABLES
    row,       \* the committed row, or Missing
    household, \* the application's payment (Null without a link) and borrowers
    writer,    \* the request that holds the write lock
    txn,       \* the writer's row
    pc,        \* where each request is
    body,      \* what a PUT submits
    read,      \* the application as get_owned returned it
    loaded,    \* the row as session.get returned it
    shown,     \* the row an answer is assembled from
    accepted,  \* the PUTs that have committed
    last,      \* the last of them
    stale,     \* the PUTs that flushed against a row they had not loaded
    edits, faults

control == <<pc, body, read, loaded, shown>>
history == <<accepted, last, stale>>
vars == <<row, household, writer, txn, control, history, edits, faults>>

\* The columns a PUT fills a row with, all of them at every PUT.
Columns == {"net_monthly_income", "net_monthly_income_provenance",
            "net_monthly_income_confirmed_at",
            "existing_credit_monthly", "existing_credit_provenance",
            "existing_credit_confirmed_at", "dependants"}

\* _manual, and the columns of one figure.
Provenance(amount) == IF amount = Null THEN Null ELSE "MANUAL"
ConfirmedAt(amount, r) == IF amount = Null THEN Null ELSE r

\* The row request r wants to have.
Stated(r) ==
    [net_monthly_income |-> body[r].income,
     net_monthly_income_provenance |-> Provenance(body[r].income),
     net_monthly_income_confirmed_at |-> ConfirmedAt(body[r].income, r),
     existing_credit_monthly |-> body[r].credit,
     existing_credit_provenance |-> Provenance(body[r].credit),
     existing_credit_confirmed_at |-> ConfirmedAt(body[r].credit, r),
     dependants |-> body[r].dependants]

NoBody == [income |-> Null, credit |-> Null, dependants |-> 0]
InFlight == {"get", "put", "load", "lookup", "flush", "commit", "assess"}

Init ==
    /\ row = Missing
    /\ household \in Households
    /\ writer = NoRequest
    /\ txn = Missing
    /\ pc = [r \in Requests |-> "idle"]
    /\ body = [r \in Requests |-> NoBody]
    /\ read = [r \in Requests |-> household]
    /\ loaded = [r \in Requests |-> Missing]
    /\ shown = [r \in Requests |-> Missing]
    /\ accepted = {}
    /\ last = NoRequest
    /\ stale = {}
    /\ edits = 0
    /\ faults = 0

Goto(r, l) == pc' = [pc EXCEPT ![r] = l]

Get(r) ==
    /\ pc[r] = "idle"
    /\ Goto(r, "get")
    /\ UNCHANGED <<row, household, writer, txn, body, read, loaded, shown,
                   history, edits, faults>>

Put(r, b) ==
    /\ pc[r] = "idle"
    /\ body' = [body EXCEPT ![r] = b]
    /\ Goto(r, "put")
    /\ UNCHANGED <<row, household, writer, txn, read, loaded, shown,
                   history, edits, faults>>

\* get_owned. The borrower is the owner: Ownership has the other case.
ReadApplication(r) ==
    /\ pc[r] \in {"get", "put"}
    /\ read' = [read EXCEPT ![r] = household]
    /\ Goto(r, IF pc[r] = "get" THEN "lookup" ELSE "load")
    /\ UNCHANGED <<row, household, writer, txn, body, loaded, shown,
                   history, edits, faults>>

GetFinancials(r) ==
    /\ pc[r] = "lookup"
    /\ shown' = [shown EXCEPT ![r] = row]
    /\ Goto(r, "assess")
    /\ UNCHANGED <<row, household, writer, txn, body, read, loaded,
                   history, edits, faults>>

\* upsert_financials: session.get.
LoadRow(r) ==
    /\ pc[r] = "load"
    /\ loaded' = [loaded EXCEPT ![r] = row]
    /\ Goto(r, "flush")
    /\ UNCHANGED <<row, household, writer, txn, body, read, shown,
                   history, edits, faults>>

\* Planted mistake: an absent figure leaves its columns as they are.
ChangedPresent(r) ==
    {c \in Columns : Stated(r)[c] # loaded[r][c] /\ Stated(r)[c] # Null}

\* Planted mistake: a figure keeps the time at which it was first confirmed.
ChangedTimeKept(r) ==
    {c \in Columns : /\ Stated(r)[c] # loaded[r][c]
                     /\ c \in {"net_monthly_income_confirmed_at",
                               "existing_credit_confirmed_at"} => loaded[r][c] = Null}

\* The columns the unit of work has seen change.
Changed(r) == {c \in Columns : Stated(r)[c] # loaded[r][c]}
WritesNothing(r) == loaded[r] # Missing /\ Changed(r) = {}

NoteStale(r) == stale' = IF loaded[r] = row THEN stale ELSE stale \cup {r}

\* The flush takes the write lock, and refresh reads the writer's own row.
TakeLock(r, after) ==
    /\ writer = NoRequest
    /\ writer' = r
    /\ txn' = after
    /\ shown' = [shown EXCEPT ![r] = after]
    /\ NoteStale(r)
    /\ Goto(r, "commit")
    /\ UNCHANGED <<row, household, body, read, loaded, accepted, last, edits, faults>>

FlushInsert(r) ==
    /\ pc[r] = "flush" /\ loaded[r] = Missing /\ row = Missing
    /\ TakeLock(r, Stated(r))

\* The primary key is taken by now: IntegrityError.
InsertRefused(r) ==
    /\ pc[r] = "flush" /\ loaded[r] = Missing /\ row # Missing
    /\ writer = NoRequest
    /\ Goto(r, "failed")
    /\ UNCHANGED <<row, household, writer, txn, body, read, loaded, shown,
                   history, edits, faults>>

FlushUpdate(r) ==
    /\ pc[r] = "flush" /\ loaded[r] # Missing /\ ~WritesNothing(r)
    /\ TakeLock(r, [c \in Columns |-> IF c \in Changed(r) THEN Stated(r)[c] ELSE row[c]])

\* With nothing changed there is no UPDATE and no lock, and refresh reads
\* whatever is committed by now; the commit has nothing to publish.
FlushNothing(r) ==
    /\ pc[r] = "flush" /\ WritesNothing(r)
    /\ shown' = [shown EXCEPT ![r] = row]
    /\ NoteStale(r)
    /\ accepted' = accepted \cup {r}
    /\ last' = r
    /\ Goto(r, "assess")
    /\ UNCHANGED <<row, household, writer, txn, body, read, loaded, edits, faults>>

\* SQLite gives up waiting for a lock another request holds.
BusyTimeout(r) ==
    /\ pc[r] = "flush"
    /\ ~WritesNothing(r)
    /\ writer # NoRequest
    /\ Goto(r, "failed")
    /\ UNCHANGED <<row, household, writer, txn, body, read, loaded, shown,
                   history, edits, faults>>

Commit(r) ==
    /\ pc[r] = "commit"
    /\ row' = txn
    /\ writer' = NoRequest
    /\ accepted' = accepted \cup {r}
    /\ last' = r
    /\ Goto(r, "assess")
    /\ UNCHANGED <<household, txn, body, read, loaded, shown, stale, edits, faults>>

\* Planted mistake: a session that closes commits what it has.
RollbackCommits(r) ==
    /\ writer' = IF writer = r THEN NoRequest ELSE writer
    /\ row' = IF writer = r THEN txn ELSE row
    /\ UNCHANGED txn

\* The session of request r closes without a commit.
Rollback(r) ==
    /\ writer' = IF writer = r THEN NoRequest ELSE writer
    /\ txn' = IF writer = r THEN row ELSE txn
    /\ UNCHANGED row

\* A repository read, the calculator or the database raises. After the commit
\* the profile is saved although the answer is an error.
Fault(r) ==
    /\ faults < MaxFaults
    /\ faults' = faults + 1
    /\ pc[r] \in InFlight
    /\ Rollback(r)
    /\ Goto(r, "failed")
    /\ UNCHANGED <<household, body, read, loaded, shown, history, edits>>

\* A PATCH by another request commits a link or other borrowers; FileRequests
\* shows that each is one indivisible change. A link is never taken away.
EditFile ==
    /\ edits < MaxEdits
    /\ edits' = edits + 1
    /\ household' \in {h \in Households :
                         household.payment # Null => h.payment # Null}
    /\ UNCHANGED <<row, writer, txn, control, history, faults>>

-----------------------------------------------------------------------------
(* The answer, from the application read first and the row read last. *)

\* _to_confirmed_amount: all or nothing.
ToConfirmedAmount(amount, provenance, at) ==
    IF amount = Null \/ provenance = Null \/ at = Null THEN Null
    ELSE [amount |-> amount, confirmed_at |-> at]

Income(profile) ==
    IF profile = Missing THEN Null
    ELSE ToConfirmedAmount(profile.net_monthly_income,
             profile.net_monthly_income_provenance, profile.net_monthly_income_confirmed_at)

Credit(profile) ==
    IF profile = Missing THEN Null
    ELSE ToConfirmedAmount(profile.existing_credit_monthly,
             profile.existing_credit_provenance, profile.existing_credit_confirmed_at)

Dependants(profile) == IF profile = Missing THEN 0 ELSE profile.dependants

AmountOf(figure) == IF figure = Null THEN Null ELSE figure.amount

\* _assess: nothing to measure without a link. A simulation is never deleted,
\* so monthly_payment_for finds every linked one.
Assessment(r) ==
    IF read[r].payment = Null THEN Null
    ELSE Assess(AmountOf(Income(shown[r])), AmountOf(Credit(shown[r])),
                Dependants(shown[r]), AtLeast(1, read[r].borrowers), read[r].payment)

\* _to_financials_response.
Answer(r) == [income |-> Income(shown[r]), credit |-> Credit(shown[r]),
              dependants |-> Dependants(shown[r]), assessment |-> Assessment(r)]

Respond(r) ==
    /\ pc[r] = "assess"
    /\ Goto(r, "ok")
    /\ UNCHANGED <<row, household, writer, txn, body, read, loaded, shown,
                   history, edits, faults>>

-----------------------------------------------------------------------------
Step(r) ==
    \/ ReadApplication(r) \/ GetFinancials(r) \/ LoadRow(r)
    \/ FlushInsert(r) \/ InsertRefused(r) \/ FlushUpdate(r) \/ FlushNothing(r)
    \/ BusyTimeout(r) \/ Commit(r) \/ Respond(r)

\* Nothing is in flight; more requests may or may not come.
Quiet == (\A r \in Requests : pc[r] \notin InFlight) /\ UNCHANGED vars

Next ==
    \/ \E r \in Requests :
         \/ Get(r)
         \/ \E b \in Bodies : Put(r, b)
         \/ Step(r)
         \/ Fault(r)
    \/ EditFile
    \/ Quiet

Spec == Init /\ [][Next]_vars

-----------------------------------------------------------------------------
(* Properties *)

TypeOK ==
    /\ {row, txn} \subseteq Row \cup {Missing}
    /\ household \in Households
    /\ writer \in Requests \cup {NoRequest}
    /\ pc \in [Requests -> InFlight \cup {"idle", "ok", "failed"}]
    /\ body \in [Requests -> Bodies \cup {NoBody}]
    /\ read \in [Requests -> Households]
    /\ loaded \in [Requests -> Row \cup {Missing}]
    /\ shown \in [Requests -> Row \cup {Missing}]
    /\ accepted \subseteq Requests
    /\ last \in Requests \cup {NoRequest}
    /\ stale \subseteq Requests
    /\ edits \in 0..MaxEdits
    /\ faults \in 0..MaxFaults

\* A profile is replaced wholesale: whenever the last PUT to commit has flushed
\* against the row it had loaded, the row is what it submitted, column for
\* column, whatever mixture overlapping PUTs had left before it
\* (repository.py upsert_financials, API-073).
LastPutReplaces == last \notin stale \cup {NoRequest} => row = Stated(last)

\* Why: the lock is held from a flush to its commit, so what a writer staged on
\* the row it had loaded is still all there is to publish.
LockHeld ==
    /\ \A r \in Requests : writer = r <=> pc[r] = "commit"
    /\ row # Missing <=> last # NoRequest

StagedWhole == writer \notin stale \cup {NoRequest} => txn = Stated(writer)

ReplaceInv == LockHeld /\ StagedWhole /\ LastPutReplaces

\* Whatever overlaps, each column holds what some committed PUT submitted for
\* it: a PUT that timed out, lost the insertion of the row or failed under the
\* lock leaves nothing behind (service.py put_financials: one commit).
ColumnsSubmitted ==
    row # Missing => \A c \in Columns : \E r \in accepted : row[c] = Stated(r)[c]

\* The time names a committed PUT that confirmed the figure, and the amount next
\* to it is that PUT's own unless it flushed against a row it had not loaded;
\* then it is some committed PUT's.
Confirmed(figure, submitted(_)) ==
    figure # Null =>
       LET p == figure.confirmed_at
       IN  /\ figure.amount # Null
           /\ p \in accepted /\ submitted(body[p]) # Null
           /\ p \notin stale => figure.amount = submitted(body[p])
           /\ \E q \in accepted : figure.amount = submitted(body[q])

IncomeOf(b) == b.income
CreditOf(b) == b.credit

\* A figure that is shown, and assessed, carries the time of the PUT that
\* submitted it, whatever overlapping PUTs write before or after, and the halves
\* they leave behind are never shown (repository.py upsert_financials and
\* _to_confirmed_amount).  The exception is a PUT that flushed against a row it
\* had not loaded: restating the amount it had loaded, it writes its time and
\* not the amount, next to what a rival has committed since.  repository.py:321
\* ("wholesale ... a partial merge would leave a figure and its provenance
\* disagreeing") and entities.py:143 ("Provenance travels with the value") rule
\* that out, and the code does not (README, Findings).
ShownIsConfirmed ==
    \A r \in Requests : pc[r] = "ok" =>
        /\ Confirmed(Answer(r).income, IncomeOf)
        /\ Confirmed(Answer(r).credit, CreditOf)

\* The share of the income is within the limit, up to the half of a hundredth
\* of a percent that rounding to four decimals forgives; stated without a
\* division or a rounding.
Within(obligations, income, limit) == 2 * (10000 * obligations - limit * income) < income

\* The band an answer gives is the one its own figures justify, by both norms
\* at once, and there is none without an income (SIM-022 to SIM-028).
BandJustified ==
    \A r \in Requests : pc[r] = "ok" /\ Answer(r).assessment # Null =>
        LET a == Answer(r).assessment
            income == AmountOf(Answer(r).income)
            keeps(tenths) == 10 * (income - a.monthly_obligations) >= tenths * a.residual_floor
            share(limit) == Within(a.monthly_obligations, income, limit)
        IN  IF income \in {Null, 0}
              THEN a.band = "INSUFFICIENT_DATA" /\ a.dsti = Null /\ a.residual_income = Null
              ELSE /\ a.band = "COMFORTABLE" <=> share(3300) /\ keeps(11)
                   /\ a.band = "OUTSIDE_TYPICAL_NORMS" <=> ~share(4000) \/ ~keeps(10)
                   /\ a.dsti # Null /\ a.residual_income # Null
=============================================================================

----------------------------- MODULE Calculator -----------------------------
(***************************************************************************)
(* The mortgage calculator (simulation/calculator.py) and the service that *)
(* runs it (simulation/service.py): a request is validated, its schedule   *)
(* built month by month, its JKP found by bisection, and only then stored; *)
(* a stored simulation is computed again whenever it is read.              *)
(*                                                                         *)
(* Amounts are integers, in cents.  What the code gets from real powers is *)
(* part of a request: the monthly rate as the fraction p / q, the rounded  *)
(* instalment, and the present value of the instalments at each annual     *)
(* rate of a grid over the bracket of the bisection.                       *)
(*                                                                         *)
(*   pc, by      where the computation is, and whether it creates or reads *)
(*   request     what it computes                                          *)
(*   month, balance, total_interest, total_paid, last                      *)
(*               the schedule so far; last is the latest instalment        *)
(*   drift       history: how far rounding can have moved the balance      *)
(*   low, high   the bracket, as points of the grid                        *)
(*   stored      the simulations in the database                           *)
(***************************************************************************)
EXTENDS Integers, FiniteSets

CONSTANTS
    Inputs,     \* bound: what borrowers ask for
    Grid,       \* bound: steps of the JKP tolerance in the bracket
    MaxStored   \* bound: simulations in the database

Region == {"FLANDERS", "WALLONIA", "BRUSSELS"}

Request == [value : Int, contribution : Nat, term : Int, annual : Int,
            region : Region, is_first_home : BOOLEAN,
            p : Nat, q : Nat \ {0}, instalment : Int, pv : [0..Grid -> Int]]

ASSUME CalculatorAssumption ==
    /\ Grid \in Nat \ {0}
    /\ MaxStored \in Nat
    /\ Inputs \subseteq Request

VARIABLES pc, by, request, month, balance, total_interest, total_paid, last,
          drift, low, high, stored
figures == <<month, balance, total_interest, total_paid, last, drift>>
vars == <<pc, by, request, figures, low, high, stored>>

Working == {"schedule", "bisect", "save"}
AtRest == {"idle", "answered", "refused", "failed"}

-----------------------------------------------------------------------------
(* Amounts *)

\* n / d to the nearest integer, halves away from zero (_to_cents).
HalfUp(n, d) == IF n >= 0 THEN (2 * n + d) \div (2 * d) ELSE -((d - 2 * n) \div (2 * d))

\* The share p / q of an amount, rounded; the whole multiples of q apart, which
\* keeps every product small.
Share(amount, p, q) ==
    IF amount >= 0 THEN p * (amount \div q) + HalfUp(p * (amount % q), q)
    ELSE -(p * ((-amount) \div q) + HalfUp(p * ((-amount) % q), q))

Loan(r) == r.value - r.contribution

\* monthly_rate is p / q; the zero rate has an instalment of its own.
Payment(r) == IF r.annual = 0 THEN HalfUp(Loan(r), r.term) ELSE r.instalment

\* Planted mistake: interest on what was borrowed, not on what is still owed.
InterestOnLoan(r, owed) == Share(Loan(r), r.p, r.q)

Interest(r, owed) == Share(owed, r.p, r.q)

\* The duty of the region, for everybody but a first-home buyer.
StandardDuty(r) ==
    IF r.region = "FLANDERS" THEN Share(r.value, 3, 25) ELSE Share(r.value, 1, 8)

\* Planted mistake: below the Brussels allowance the base turns negative.
RegistrationDutyRefunds(r) ==
    IF ~r.is_first_home THEN StandardDuty(r)
    ELSE CASE r.region = "FLANDERS" -> Share(r.value, 1, 50)
           [] r.region = "WALLONIA" -> Share(r.value, 3, 100)
           [] r.region = "BRUSSELS" -> Share(r.value - 20000000, 1, 8)

\* registration_duty: a first home pays a reduced rate, in Brussels the standard
\* rate on what exceeds the abattement.
RegistrationDuty(r) ==
    IF ~r.is_first_home THEN StandardDuty(r)
    ELSE CASE r.region = "FLANDERS" -> Share(r.value, 1, 50)
           [] r.region = "WALLONIA" -> Share(r.value, 3, 100)
           [] r.region = "BRUSSELS" ->
                IF r.value <= 20000000 THEN 0 ELSE Share(r.value - 20000000, 1, 8)

MortgageCosts(r) == Share(Loan(r), 3, 250)
NotaryFee == 330000
DossierFee == 35000
ValuationFee == 28500

\* The fees that are deducted from the loan in the JKP: not the notary's, not
\* the duty.
JkpFees(r) == MortgageCosts(r) + DossierFee + ValuationFee

\* compute_upfront_costs, the total with the borrower's own contribution.
CashNeeded(r) == r.contribution + RegistrationDuty(r) + NotaryFee + JkpFees(r)

\* Planted mistake: the fees are added to what the borrower receives.
AdvanceWithFees(r) == Loan(r) + JkpFees(r)

Advance(r) == Loan(r) - JkpFees(r)

\* SimulationService._validate, and the loan check that opens simulate.
Acceptable(r) ==
    /\ 1000000 <= r.value /\ r.value <= 1000000000
    /\ 12 <= r.term /\ r.term <= 360
    /\ 0 <= r.annual /\ r.annual <= 2000
    /\ Loan(r) > 0

\* The present values are those of the instalments: at a rate not above the
\* nominal one they are worth the loan, but for what rounding takes from each
\* instalment, which is never a cent.  Rates are compared on the grid.
ASSUME PresentValuesAssumption ==
    \A r \in Inputs, g \in 0..Grid :
       Acceptable(r) /\ g * 2999 <= (r.annual - 1) * Grid => Loan(r) - r.pv[g] <= r.term

-----------------------------------------------------------------------------
(* The steps of a computation *)

TypeOK ==
    /\ pc \in Working \cup AtRest
    /\ by \in {"create", "read"}
    /\ request \in Inputs
    /\ month \in Nat
    /\ balance \in Int /\ total_interest \in Int /\ total_paid \in Int
    /\ last \in Int /\ drift \in Nat
    /\ low \in 0..Grid /\ high \in 0..Grid
    /\ stored \subseteq Inputs

Init ==
    /\ pc = "idle" /\ by = "create" /\ request \in Inputs
    /\ month = 0 /\ balance = 0 /\ total_interest = 0 /\ total_paid = 0
    /\ last = 0 /\ drift = 0
    /\ low = 0 /\ high = Grid
    /\ stored = {}

\* build_amortisation_schedule up to its loop.
Begin(r) ==
    /\ request' = r
    /\ pc' = "schedule"
    /\ month' = 0 /\ balance' = Loan(r) /\ total_interest' = 0 /\ total_paid' = 0
    /\ last' = 0 /\ drift' = 0
    /\ UNCHANGED <<low, high>>

\* Planted mistake: the row is stored before it is computed.
CreateStoredFirst(r) ==
    /\ pc \in AtRest
    /\ Cardinality(stored) < MaxStored
    /\ by' = "create"
    /\ IF Acceptable(r)
         THEN Begin(r) /\ stored' = stored \cup {r}
         ELSE pc' = "refused" /\ request' = r /\ UNCHANGED <<figures, low, high, stored>>

Create(r) ==
    /\ pc \in AtRest
    /\ Cardinality(stored) < MaxStored
    /\ by' = "create"
    /\ IF Acceptable(r)
         THEN Begin(r)
         ELSE pc' = "refused" /\ request' = r /\ UNCHANGED <<figures, low, high>>
    /\ UNCHANGED stored

\* A stored simulation is computed again, without being validated again.
Read(r) ==
    /\ pc \in AtRest
    /\ r \in stored
    /\ by' = "read"
    /\ Begin(r)
    /\ UNCHANGED stored

\* Planted mistake: the last month pays the nominal instalment too.
ChargeMonthLevel ==
    LET interest == Interest(request, balance)
        capital == Payment(request) - interest
    IN  /\ pc = "schedule" /\ month < request.term
        /\ month' = month + 1
        /\ balance' = balance - capital
        /\ total_interest' = total_interest + interest
        /\ total_paid' = total_paid + interest + capital
        /\ last' = interest + capital
        /\ drift' = drift + 1 + (drift * request.p + request.q - 1) \div request.q
        /\ UNCHANGED <<pc, by, request, low, high, stored>>

\* One month: interest on what is owed, the rest of the instalment is capital,
\* and the last month repays whatever is left.
ChargeMonth ==
    LET interest == Interest(request, balance)
        capital == IF month + 1 = request.term THEN balance ELSE Payment(request) - interest
    IN  /\ pc = "schedule" /\ month < request.term
        /\ month' = month + 1
        /\ balance' = balance - capital
        /\ total_interest' = total_interest + interest
        /\ total_paid' = total_paid + interest + capital
        /\ last' = interest + capital
        /\ drift' = drift + 1 + (drift * request.p + request.q - 1) \div request.q
        /\ UNCHANGED <<pc, by, request, low, high, stored>>

\* compute_jkp: fees that eat up the loan leave nothing to balance.
OpenBracket ==
    /\ pc = "schedule" /\ month = request.term
    /\ IF Advance(request) <= 0
         THEN pc' = "failed" /\ UNCHANGED <<low, high>>
         ELSE pc' = "bisect" /\ low' = 0 /\ high' = Grid
    /\ UNCHANGED <<by, request, figures, stored>>

\* Planted mistake: the sign test of a rising function.
HalveRising ==
    LET middle == (low + high) \div 2
    IN  /\ pc = "bisect" /\ high - low > 1
        /\ IF request.pv[middle] > Advance(request)
             THEN high' = middle /\ UNCHANGED low
             ELSE low' = middle /\ UNCHANGED high
        /\ UNCHANGED <<pc, by, request, figures, stored>>

\* Planted mistake: the lower end of the bracket stays where it is.
HalveForgetsLow ==
    LET middle == (low + high) \div 2
    IN  /\ pc = "bisect" /\ high - low > 1
        /\ high' = IF request.pv[middle] > Advance(request) THEN high ELSE middle
        /\ UNCHANGED <<pc, by, request, figures, low, stored>>

\* Present value falls as the rate rises: too high a value, too low a rate.
Halve ==
    LET middle == (low + high) \div 2
    IN  /\ pc = "bisect" /\ high - low > 1
        /\ IF request.pv[middle] > Advance(request)
             THEN low' = middle /\ UNCHANGED high
             ELSE high' = middle /\ UNCHANGED low
        /\ UNCHANGED <<pc, by, request, figures, stored>>

\* The bracket is as narrow as the tolerance: the figures are complete.
Solve ==
    /\ pc = "bisect" /\ high - low <= 1
    /\ pc' = IF by = "create" THEN "save" ELSE "answered"
    /\ UNCHANGED <<by, request, figures, low, high, stored>>

\* INSERT and commit.
Save ==
    /\ pc = "save"
    /\ stored' = stored \cup {request}
    /\ pc' = "answered"
    /\ UNCHANGED <<by, request, figures, low, high>>

\* The write lock did not come in time, or the disk failed.
SaveFails ==
    /\ pc = "save"
    /\ pc' = "failed"
    /\ UNCHANGED <<by, request, figures, low, high, stored>>

Compute == ChargeMonth \/ OpenBracket \/ Halve \/ Solve \/ Save \/ SaveFails

\* No request has to come.
Quiet == pc \in AtRest /\ UNCHANGED vars

Next ==
    \/ \E r \in Inputs : Create(r) \/ Read(r)
    \/ Compute
    \/ Quiet

Spec == Init /\ [][Next]_vars

\* A computation has no await in it: once begun it runs on.
FairSpec == Spec /\ WF_vars(Compute)

-----------------------------------------------------------------------------
(* Properties *)

Scheduled == pc \in {"bisect", "save"}

\* Whatever rounding did to the instalment and to each month's interest, the
\* schedule closes at zero and its totals reconcile: paid is borrowed plus
\* interest (SIM-006, SIM-009, AC-006).
ScheduleCloses ==
    Scheduled => balance = 0 /\ total_paid = Loan(request) + total_interest

\* Why: every month moves the totals and the balance together.
Reconciled ==
    /\ pc = "schedule" =>
         /\ month <= request.term
         /\ total_paid + balance = Loan(request) + total_interest
         /\ month = request.term => balance = 0
    /\ ScheduleCloses

\* The last instalment makes up for no more than a cent of rounding a month
\* with its interest; it is not where a wrong balance disappears (SIM-009).
ResidueBounded ==
    Scheduled => /\ last - Payment(request) <= drift
                 /\ Payment(request) - last <= drift

\* When the two sides cross in the bracket, the rate found is where they do: at
\* its lower end the instalments are worth more than what the borrower receives,
\* the loan without the three credit fees, and at its upper end no more
\* (SIM-016 to SIM-018).  Of a loan for which they do not cross nothing is said:
\* compute_jkp's docstring announces JKP_COMPUTATION_FAILED for it, while Halve
\* ends at an end of the bracket, which is answered and stored (README, Findings).
JkpBalances ==
    LET received == Loan(request) - MortgageCosts(request) - DossierFee - ValuationFee
        Worth(rate) == request.pv[rate]
    IN  pc = "save" /\ Worth(0) > received /\ Worth(Grid) <= received =>
          /\ high = low + 1
          /\ Worth(low) > received
          /\ Worth(high) <= received

\* The nominal rate is not above the JKP: at the nominal rate the instalments
\* are worth the loan but for half a cent each, and the fees are more than that
\* (SIM-019). Rates are compared on the grid of the bracket, 2999 steps of a
\* ten-thousandth long, which starts at one ten-thousandth.
JkpNotBelowNominal ==
    pc = "save" => high * 2999 > (request.annual - 1) * Grid

\* A first home never pays more duty than the same purchase without it, and
\* never a negative one (SIM-011, SIM-012), so neither does the cash needed.
FirstHomeNeverCostsMore ==
    pc = "save" => /\ RegistrationDuty(request) >= 0
                   /\ CashNeeded(request) <= CashNeeded([request EXCEPT !.is_first_home = FALSE])

\* What is stored can be computed again, so reading a simulation back, and
\* every page that needs its instalment, never fails on it (DOM-001).
StoredIsComputable ==
    /\ pc = "failed" => by = "create"
    /\ \A r \in stored : Acceptable(r) /\ Advance(r) > 0

\* Each request is computed to an end: the month loop and the bisection stop.
ComputationEnds == pc \in Working ~> pc \in AtRest
=============================================================================

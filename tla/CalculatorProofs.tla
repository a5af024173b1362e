--------------------------- MODULE CalculatorProofs ---------------------------
(***************************************************************************)
(* Theorems about Calculator for every set of requests, every rate and     *)
(* instalment in them, every grid and any number of stored simulations.    *)
(***************************************************************************)
EXTENDS Calculator, TLAPS

-----------------------------------------------------------------------------
(* Amounts *)

LEMMA RequestFacts ==
    ASSUME NEW r \in Inputs
    PROVE  /\ r.value \in Int /\ r.contribution \in Nat /\ r.term \in Int
           /\ r.annual \in Int /\ r.region \in Region /\ r.is_first_home \in BOOLEAN
           /\ r.p \in Nat /\ r.q \in Nat /\ r.q > 0 /\ r.instalment \in Int
           /\ r.pv \in [0..Grid -> Int]
  BY CalculatorAssumption DEF Request

LEMMA HalfUpType ==
    ASSUME NEW n \in Int, NEW d \in Nat, d > 0 PROVE HalfUp(n, d) \in Int
<1>1. 2 * d \in Nat /\ 2 * d > 0 /\ 2 * n + d \in Int /\ d - 2 * n \in Int
  OBVIOUS
<1>2. (2 * n + d) \div (2 * d) \in Int /\ (d - 2 * n) \div (2 * d) \in Int
  BY <1>1
<1>3. QED
  BY <1>2 DEF HalfUp

LEMMA ShareType ==
    ASSUME NEW amount \in Int, NEW p \in Nat, NEW q \in Nat, q > 0
    PROVE  Share(amount, p, q) \in Int
<1>1. /\ amount \div q \in Int /\ amount % q \in Int
      /\ (-amount) \div q \in Int /\ (-amount) % q \in Int
  OBVIOUS
<1>2. /\ p * (amount \div q) \in Int /\ p * (amount % q) \in Int
      /\ p * ((-amount) \div q) \in Int /\ p * ((-amount) % q) \in Int
  BY <1>1
<1>3. HalfUp(p * (amount % q), q) \in Int /\ HalfUp(p * ((-amount) % q), q) \in Int
  BY <1>2, HalfUpType
<1>4. QED
  BY <1>2, <1>3 DEF Share

LEMMA ShareOfNat ==
    ASSUME NEW amount \in Nat, NEW p \in Nat, NEW q \in Nat, q > 0
    PROVE  Share(amount, p, q) \in Nat
<1>1. amount \div q \in Nat /\ amount % q \in Nat
  OBVIOUS
<1>2. p * (amount \div q) \in Nat /\ p * (amount % q) \in Nat
  BY <1>1
<1>3. ASSUME NEW n \in Nat PROVE HalfUp(n, q) \in Nat
  <2>1. 2 * n + q \in Nat /\ 2 * q \in Nat /\ 2 * q > 0
    OBVIOUS
  <2>2. (2 * n + q) \div (2 * q) \in Nat
    BY <2>1
  <2>3. QED
    BY SMT, <2>2 DEF HalfUp
<1>4. QED
  BY SMT, <1>2, <1>3 DEF Share

LEMMA AmountTypes ==
    ASSUME NEW r \in Inputs
    PROVE  /\ Loan(r) \in Int
           /\ Acceptable(r) => Payment(r) \in Int
           /\ Advance(r) \in Int
           /\ \A owed \in Int : Interest(r, owed) \in Int
<1>1. Loan(r) \in Int
  BY RequestFacts DEF Loan
<1>2. ASSUME Acceptable(r) PROVE Payment(r) \in Int
  <2>1. r.term \in Nat /\ r.term > 0
    BY <1>2, RequestFacts DEF Acceptable
  <2>2. QED
    BY <1>1, <2>1, HalfUpType, RequestFacts DEF Payment
<1>3. Advance(r) \in Int
  <2>1. MortgageCosts(r) \in Int
    BY <1>1, ShareType DEF MortgageCosts
  <2>2. QED
    BY <1>1, <2>1 DEF Advance, JkpFees, DossierFee, ValuationFee
<1>4. ASSUME NEW owed \in Int PROVE Interest(r, owed) \in Int
  BY ShareType, RequestFacts DEF Interest
<1>5. QED
  BY <1>1, <1>2, <1>3, <1>4

LEMMA DriftType ==
    ASSUME NEW n \in Nat, NEW p \in Nat, NEW q \in Nat, q > 0
    PROVE  n + 1 + (n * p + q - 1) \div q \in Nat
<1>1. n * p \in Nat
  OBVIOUS
<1>2. n * p + q - 1 \in Nat
  BY <1>1
<1>3. (n * p + q - 1) \div q \in Nat
  BY <1>2
<1>4. QED
  BY <1>3

-----------------------------------------------------------------------------
(* The inductive invariant *)

\* Only what was validated is computed, and only what was stored is read.
ChecksHold ==
    /\ pc \in Working => Acceptable(request)
    /\ pc \in {"bisect", "save"} => Advance(request) > 0
    /\ pc \in Working /\ by = "read" => request \in stored
    /\ pc = "save" => by = "create"

\* The crossing stays in the bracket, or lies beyond an end nobody has moved.
Bracketed ==
    pc \in {"bisect", "save"} =>
      /\ low < high
      /\ low = 0 \/ request.pv[low] > Advance(request)
      /\ high = Grid \/ request.pv[high] <= Advance(request)
      /\ pc = "save" => high - low <= 1

CalcInv == TypeOK /\ ChecksHold /\ Reconciled /\ Bracketed /\ StoredIsComputable

LEMMA CalcInit == Init => CalcInv
  BY CalculatorAssumption
     DEF Init, CalcInv, TypeOK, ChecksHold, Reconciled, ScheduleCloses, Scheduled,
         Bracketed, StoredIsComputable, Working, AtRest

LEMMA BeginKeeps ==
    ASSUME CalcInv, NEW r \in Inputs, Begin(r), Acceptable(r),
           by' \in {"create", "read"}, by' = "read" => r \in stored, UNCHANGED stored
    PROVE  CalcInv'
<1> USE DEF CalcInv, Begin
<1>1. TypeOK'
  BY AmountTypes DEF TypeOK, Working
<1>2. r.term \in Int /\ r.term >= 12 /\ Loan(r) \in Int
  BY RequestFacts, AmountTypes DEF Acceptable
<1>3. Reconciled'
  BY <1>2 DEF Reconciled, ScheduleCloses, Scheduled, Loan
<1>4. ChecksHold' /\ Bracketed' /\ StoredIsComputable'
  BY DEF ChecksHold, Bracketed, StoredIsComputable, Acceptable, Advance, JkpFees,
         MortgageCosts, Loan
<1>5. QED
  BY <1>1, <1>3, <1>4

LEMMA CreateKeeps ==
    ASSUME CalcInv, NEW r \in Inputs, Create(r) PROVE CalcInv'
<1>1. CASE Acceptable(r)
  BY <1>1, BeginKeeps DEF Create
<1>2. CASE ~Acceptable(r)
  <2>1. /\ pc' = "refused" /\ request' = r /\ by' = "create"
        /\ UNCHANGED <<figures, low, high, stored>>
    BY <1>2 DEF Create
  <2>2. TypeOK'
    BY <2>1 DEF CalcInv, TypeOK, figures, AtRest
  <2>3. ChecksHold' /\ Reconciled' /\ Bracketed'
    BY <2>1 DEF ChecksHold, Reconciled, ScheduleCloses, Scheduled, Bracketed, Working
  <2>4. StoredIsComputable'
    BY <2>1 DEF CalcInv, StoredIsComputable
  <2>5. QED
    BY <2>2, <2>3, <2>4 DEF CalcInv
<1>3. QED
  BY <1>1, <1>2

LEMMA ReadKeeps ==
    ASSUME CalcInv, NEW r \in Inputs, Read(r) PROVE CalcInv'
<1>1. Acceptable(r)
  BY DEF Read, CalcInv, StoredIsComputable
<1>2. QED
  BY <1>1, BeginKeeps DEF Read

\* A month leaves paid and owed in balance, and the last one owes nothing.
LEMMA MonthKeeps ==
    ASSUME CalcInv, ChargeMonth PROVE CalcInv'
<1> DEFINE interest == Interest(request, balance)
           capital == IF month + 1 = request.term THEN balance
                      ELSE Payment(request) - interest
<1>1. /\ pc = "schedule" /\ month < request.term
      /\ month' = month + 1
      /\ balance' = balance - capital
      /\ total_interest' = total_interest + interest
      /\ total_paid' = total_paid + interest + capital
      /\ last' = interest + capital
      /\ drift' = drift + 1 + (drift * request.p + request.q - 1) \div request.q
      /\ UNCHANGED <<pc, by, request, low, high, stored>>
  BY DEF ChargeMonth
<1>2. /\ request \in Inputs /\ month \in Nat /\ balance \in Int /\ drift \in Nat
      /\ total_interest \in Int /\ total_paid \in Int
  BY DEF CalcInv, TypeOK
<1>3. Acceptable(request)
  BY <1>1 DEF CalcInv, ChecksHold, Working
<1>4. /\ interest \in Int /\ Payment(request) \in Int /\ Loan(request) \in Int
      /\ request.term \in Int /\ capital \in Int
  BY <1>2, <1>3, AmountTypes, RequestFacts
<1>5. drift' \in Nat
  BY <1>1, <1>2, DriftType, RequestFacts
<1> HIDE DEF interest, capital
<1>6. TypeOK'
  BY <1>1, <1>2, <1>4, <1>5 DEF CalcInv, TypeOK
<1>7. Reconciled'
  <2>1. /\ month <= request.term
        /\ total_paid + balance = Loan(request) + total_interest
    BY <1>1 DEF CalcInv, Reconciled
  <2>2. month' <= request.term
    BY <1>1, <1>2, <1>4
  <2>3. total_paid' + balance' = Loan(request) + total_interest'
    BY <1>1, <1>2, <1>4, <2>1
  <2>4. month' = request.term => balance' = 0
    BY <1>1, <1>2, <1>4 DEF capital
  <2>5. Loan(request)' = Loan(request) /\ request' = request /\ pc' = "schedule"
    BY <1>1 DEF Loan
  <2>6. QED
    BY <2>2, <2>3, <2>4, <2>5 DEF Reconciled, ScheduleCloses, Scheduled
<1>8. ChecksHold' /\ Bracketed' /\ StoredIsComputable'
  BY <1>1 DEF CalcInv, ChecksHold, Bracketed, StoredIsComputable, Acceptable, Loan
<1>9. QED
  BY <1>6, <1>7, <1>8 DEF CalcInv

LEMMA OpenBracketKeeps ==
    ASSUME CalcInv, OpenBracket PROVE CalcInv'
<1> USE DEF OpenBracket
<1>1. request \in Inputs /\ Advance(request) \in Int
  BY AmountTypes DEF CalcInv, TypeOK
<1>2. pc' = IF Advance(request) <= 0 THEN "failed" ELSE "bisect"
  OBVIOUS
<1>3. TypeOK'
  BY <1>2, CalculatorAssumption DEF CalcInv, TypeOK, figures, Working, AtRest
<1>4. ScheduleCloses'
  <2>1. balance = 0 /\ total_paid + balance = Loan(request) + total_interest
    BY DEF CalcInv, Reconciled
  <2>2. total_paid = Loan(request) + total_interest
    BY <1>1, <2>1 DEF CalcInv, TypeOK
  <2>3. UNCHANGED <<balance, total_paid, total_interest, request>>
    BY DEF figures
  <2>4. QED
    BY <2>1, <2>2, <2>3 DEF ScheduleCloses, Loan
<1>5. Reconciled'
  BY <1>2, <1>4 DEF Reconciled
<1>6. Acceptable(request)
  BY DEF CalcInv, ChecksHold, Working
<1>7. Advance(request) > 0 => pc' = "bisect"
  BY <1>1
<1>8. by = "read" => pc' = "bisect"
  BY <1>1, <1>7 DEF CalcInv, ChecksHold, StoredIsComputable, Working
<1>9. by \in {"create", "read"}
  BY DEF CalcInv, TypeOK
<1>10. StoredIsComputable'
  BY <1>2, <1>8, <1>9 DEF CalcInv, StoredIsComputable
<1>11. ChecksHold'
  <2>1. UNCHANGED <<request, by, stored>> /\ pc' # "save"
    BY <1>2
  <2>2. Acceptable(request)'
    BY <1>6, <2>1 DEF Acceptable, Loan
  <2>3. pc' = "bisect" => Advance(request)' > 0
    BY <1>1, <2>1 DEF Advance, Loan, JkpFees, MortgageCosts
  <2>4. by = "read" => request \in stored
    BY DEF CalcInv, ChecksHold, Working
  <2>5. QED
    BY <2>1, <2>2, <2>3, <2>4 DEF ChecksHold
<1>12. Bracketed'
  BY <1>2, CalculatorAssumption DEF Bracketed
<1>13. QED
  BY <1>3, <1>5, <1>10, <1>11, <1>12 DEF CalcInv

\* Halving keeps the crossing inside and makes the bracket strictly narrower.
LEMMA HalveKeeps ==
    ASSUME CalcInv, Halve
    PROVE  CalcInv' /\ high' - low' < high - low
<1> DEFINE middle == (low + high) \div 2
<1>1. /\ pc = "bisect" /\ high - low > 1
      /\ IF request.pv[middle] > Advance(request)
           THEN low' = middle /\ UNCHANGED high
           ELSE high' = middle /\ UNCHANGED low
      /\ UNCHANGED <<pc, by, request, figures, stored>>
  BY DEF Halve
<1>2. low \in 0..Grid /\ high \in 0..Grid /\ low < high /\ Grid \in Nat
  BY <1>1, CalculatorAssumption DEF CalcInv, TypeOK, Bracketed
<1>3. middle \in 0..Grid /\ low < middle /\ middle < high
  BY <1>1, <1>2
<1>4. /\ request \in Inputs /\ Advance(request) \in Int
      /\ request.pv[middle] \in Int
  BY <1>3, AmountTypes, RequestFacts DEF CalcInv, TypeOK
<1> HIDE DEF middle
<1>5. high' - low' < high - low
  BY <1>1, <1>2, <1>3
<1>6. TypeOK'
  BY <1>1, <1>2, <1>3 DEF CalcInv, TypeOK, figures
<1>7. Bracketed'
  <2>1. Advance(request)' = Advance(request)
    BY <1>1 DEF Advance, Loan, JkpFees, MortgageCosts
  <2>2. CASE request.pv[middle] > Advance(request)
    BY <1>1, <1>3, <2>1, <2>2 DEF CalcInv, Bracketed
  <2>3. CASE ~(request.pv[middle] > Advance(request))
    <3>1. request.pv[middle] <= Advance(request)
      BY <1>4, <2>3
    <3>2. QED
      BY <1>1, <1>3, <2>1, <2>3, <3>1 DEF CalcInv, Bracketed
  <2>4. QED
    BY <2>2, <2>3
<1>8. ChecksHold' /\ Reconciled' /\ StoredIsComputable'
  BY <1>1 DEF CalcInv, ChecksHold, Reconciled, ScheduleCloses, Scheduled,
     StoredIsComputable, Acceptable, Advance, Loan, JkpFees, MortgageCosts, figures
<1>9. QED
  BY <1>5, <1>6, <1>7, <1>8 DEF CalcInv

\* The ends of a computation leave its figures and its bracket as they are.
LEMMA EndKeeps ==
    ASSUME CalcInv, Solve \/ Save \/ SaveFails PROVE CalcInv'
<1>1. /\ UNCHANGED <<by, request, figures, low, high>>
      /\ pc \in {"bisect", "save"} /\ pc' \in {"save", "answered", "failed"}
  BY DEF Solve, Save, SaveFails
<1>2. request \in Inputs /\ Acceptable(request) /\ Advance(request) > 0
  BY <1>1 DEF CalcInv, TypeOK, ChecksHold, Working
<1>3. TypeOK'
  BY <1>1, <1>2 DEF CalcInv, TypeOK, figures, Solve, Save, SaveFails, Working, AtRest
<1>4. Reconciled'
  BY <1>1 DEF CalcInv, Reconciled, ScheduleCloses, Scheduled, Loan, figures
<1>5. pc' = "save" => by = "create" /\ high - low <= 1
  BY DEF Solve, Save, SaveFails
<1>6. pc' = "failed" => by = "create"
  BY DEF Solve, Save, SaveFails, CalcInv, ChecksHold
<1>7. stored' \in {stored, stored \cup {request}}
  BY DEF Solve, Save, SaveFails
<1>8. ChecksHold'
  BY <1>1, <1>2, <1>5 DEF ChecksHold, Working, Acceptable, Advance, Loan, JkpFees, MortgageCosts
<1>9. Bracketed'
  BY <1>1, <1>5 DEF CalcInv, Bracketed, Advance, Loan, JkpFees, MortgageCosts
<1>10. StoredIsComputable'
  BY <1>1, <1>2, <1>6, <1>7 DEF CalcInv, StoredIsComputable
<1>11. QED
  BY <1>3, <1>4, <1>8, <1>9, <1>10 DEF CalcInv

LEMMA CalcStep == CalcInv /\ [Next]_vars => CalcInv'
<1> SUFFICES ASSUME CalcInv, [Next]_vars PROVE CalcInv'
  OBVIOUS
<1>1. CASE \E r \in Inputs : Create(r) \/ Read(r)
  BY <1>1, CreateKeeps, ReadKeeps
<1>2. CASE Compute
  BY <1>2, MonthKeeps, OpenBracketKeeps, HalveKeeps, EndKeeps DEF Compute
<1>3. CASE Quiet \/ UNCHANGED vars
  BY <1>3 DEF Quiet, vars, figures, CalcInv, TypeOK, ChecksHold, Reconciled, ScheduleCloses,
     Scheduled, Bracketed, StoredIsComputable, Acceptable, Advance, Loan, JkpFees, MortgageCosts
<1>4. QED
  BY <1>1, <1>2, <1>3 DEF Next

LEMMA CalcInvHolds == Spec => []CalcInv
  BY CalcInit, CalcStep, PTL DEF Spec

-----------------------------------------------------------------------------
(* What follows *)

\* The state keeps its types.
THEOREM TypeCorrect == Spec => []TypeOK
  BY CalcInvHolds, PTL DEF CalcInv

\* For every rate, instalment and term the schedule ends at zero, and what is
\* paid is what was borrowed plus its interest
\* (calculator.py build_amortisation_schedule).
THEOREM SchedulesClose == Spec => []ScheduleCloses
  BY CalcInvHolds, PTL DEF CalcInv, Reconciled

\* Whatever is stored was acceptable and has a positive advance, so that no
\* later read of it fails (service.py get, create).
THEOREM StoredComputable == Spec => []StoredIsComputable
  BY CalcInvHolds, PTL DEF CalcInv

\* Where the two sides cross in the bracket the bisection ends one step wide
\* around the crossing, for every function it halves: that present value falls
\* with the rate is not needed (calculator.py compute_jkp).
THEOREM JkpCrosses == Spec => []JkpBalances
<1>1. CalcInv => JkpBalances
  <2> DEFINE received == Loan(request) - MortgageCosts(request) - DossierFee - ValuationFee
  <2> SUFFICES ASSUME CalcInv, pc = "save",
                      request.pv[0] > received, request.pv[Grid] <= received
               PROVE  high = low + 1 /\ request.pv[low] > received /\ request.pv[high] <= received
    BY DEF JkpBalances
  <2>1. /\ low \in 0..Grid /\ high \in 0..Grid /\ request \in Inputs
        /\ Grid \in Nat
    BY CalculatorAssumption DEF CalcInv, TypeOK
  <2>2. /\ low < high /\ high - low <= 1
        /\ low = 0 \/ request.pv[low] > Advance(request)
        /\ high = Grid \/ request.pv[high] <= Advance(request)
    BY DEF CalcInv, Bracketed
  <2>3. high = low + 1
    BY <2>1, <2>2
  <2>4. MortgageCosts(request) \in Int /\ Loan(request) \in Int
    BY <2>1, AmountTypes, ShareType DEF MortgageCosts
  <2>5. Advance(request) = received
    BY <2>4 DEF Advance, JkpFees, DossierFee, ValuationFee
  <2> HIDE DEF received
  <2>6. QED
    BY <2>2, <2>3, <2>5
<1>2. QED
  BY <1>1, CalcInvHolds, PTL


\* The fees are more than rounding can take from the instalments, so the JKP is
\* never below the nominal rate (calculator.py compute_jkp).
THEOREM JkpAboveNominal == Spec => []JkpNotBelowNominal
<1>1. CalcInv => JkpNotBelowNominal
  <2> SUFFICES ASSUME CalcInv, pc = "save"
               PROVE  high * 2999 > (request.annual - 1) * Grid
    BY DEF JkpNotBelowNominal
  <2> DEFINE nominal == request.annual - 1
  <2>1. /\ high \in 0..Grid /\ request \in Inputs /\ Grid \in Nat /\ Grid > 0
        /\ Acceptable(request) /\ request.annual \in Int /\ request.annual <= 2000
        /\ request.term \in Int /\ request.term <= 360
        /\ Loan(request) \in Int /\ Loan(request) > 0 /\ request.pv[high] \in Int
    <3>1. high \in 0..Grid /\ request \in Inputs /\ Acceptable(request)
      BY DEF CalcInv, TypeOK, ChecksHold, Working
    <3>2. Loan(request) \in Int /\ Loan(request) > 0 /\ request.annual <= 2000 /\ request.term <= 360
      BY <3>1, AmountTypes DEF Acceptable
    <3>3. request.annual \in Int /\ request.term \in Int /\ request.pv[high] \in Int
      BY <3>1, RequestFacts
    <3>4. QED
      BY <3>1, <3>2, <3>3, CalculatorAssumption
  <2>2. high * 2999 \in Int /\ nominal * Grid \in Int /\ nominal \in Int /\ nominal <= 1999
    BY SMT, <2>1
  <2> HIDE DEF nominal
  <2>3. ASSUME high * 2999 <= nominal * Grid PROVE FALSE
    <3>1. high # Grid
      <4>1. nominal * Grid <= 1999 * Grid
        BY SMT, <2>1, <2>2
      <4>2. QED
        BY SMT, <2>1, <2>2, <2>3, <4>1
    <3>2. request.pv[high] <= Advance(request)
      BY <3>1 DEF CalcInv, Bracketed
    <3>3. Loan(request) - request.pv[high] <= request.term
      BY <2>1, <2>3, PresentValuesAssumption DEF nominal
    <3>4. Advance(request) <= Loan(request) - 63500
      <4>1. Loan(request) \in Nat
        BY <2>1
      <4>2. Share(Loan(request), 3, 250) \in Nat
        BY <4>1, ShareOfNat
      <4>3. QED
        BY <2>1, <4>2 DEF Advance, JkpFees, MortgageCosts, DossierFee, ValuationFee
    <3>5. Advance(request) \in Int
      BY <2>1, AmountTypes
    <3>6. QED
      BY <2>1, <3>2, <3>3, <3>4, <3>5
  <2>4. QED
    BY SMT, <2>2, <2>3 DEF nominal
<1>2. QED
  BY <1>1, CalcInvHolds, PTL

-----------------------------------------------------------------------------
(* Rounding *)

LEMMA HalfUpNear ==
    ASSUME NEW n \in Nat, NEW d \in Nat, d > 0
    PROVE  /\ HalfUp(n, d) \in Int
           /\ 2 * (d * HalfUp(n, d) - n) <= d /\ 2 * (n - d * HalfUp(n, d)) <= d
<1> DEFINE h == (2 * n + d) \div (2 * d)
           m == (2 * n + d) % (2 * d)
<1>1. 2 * n + d \in Nat /\ 2 * d \in Nat /\ 2 * d > 0
  OBVIOUS
<1>2. h \in Int /\ m \in Nat /\ m < 2 * d /\ 2 * n + d = (2 * d) * h + m
  BY SMT, <1>1
<1>3. HalfUp(n, d) = h
  BY SMT DEF HalfUp
<1> HIDE DEF h, m
<1>4. d * h \in Int /\ (2 * d) * h = 2 * (d * h)
  BY SMT, <1>2
<1>5. QED
  BY SMT, <1>2, <1>3, <1>4

\* The interest on a debt is the exact one but for half a cent.
LEMMA ShareNear ==
    ASSUME NEW a \in Int, NEW p \in Nat, NEW q \in Nat, q > 0
    PROVE  /\ 2 * (q * Share(a, p, q) - p * a) <= q
           /\ 2 * (p * a - q * Share(a, p, q)) <= q
<1>1. ASSUME NEW b \in Nat
      PROVE  LET share == p * (b \div q) + HalfUp(p * (b % q), q)
             IN  /\ share \in Int
                 /\ 2 * (q * share - p * b) <= q /\ 2 * (p * b - q * share) <= q
  <2> DEFINE w == b \div q
             m == b % q
             h == HalfUp(p * m, q)
  <2>1. w \in Nat /\ m \in Nat /\ b = q * w + m
    BY SMT
  <2> HIDE DEF w, m
  <2>2. p * m \in Nat /\ p * w \in Nat
    BY SMT, <2>1
  <2>3. h \in Int /\ 2 * (q * h - p * m) <= q /\ 2 * (p * m - q * h) <= q
    BY <2>2, HalfUpNear
  <2> HIDE DEF h
  <2>4. q * (p * w + h) - p * b = q * h - p * m
    BY SMT, <2>1, <2>3
  <2>5. p * w + h \in Int /\ q * (p * w + h) \in Int /\ p * b \in Int /\ q * h \in Int
    BY SMT, <2>2, <2>3
  <2>6. 2 * (q * (p * w + h) - p * b) <= q /\ 2 * (p * b - q * (p * w + h)) <= q
    BY SMT, <2>2, <2>3, <2>4, <2>5
  <2>7. QED
    BY <2>5, <2>6 DEF w, m, h
<1>2. CASE a >= 0
  <2>1. a \in Nat
    BY <1>2
  <2>2. Share(a, p, q) = p * (a \div q) + HalfUp(p * (a % q), q)
    BY SMT, <1>2 DEF Share
  <2>3. QED
    BY <1>1, <2>1, <2>2
<1>3. CASE ~(a >= 0)
  <2> DEFINE b == -a
             share == p * (b \div q) + HalfUp(p * (b % q), q)
  <2>1. b \in Nat
    BY SMT, <1>3
  <2>2. Share(a, p, q) = -share
    BY SMT, <1>3 DEF Share
  <2>3. share \in Int /\ 2 * (q * share - p * b) <= q /\ 2 * (p * b - q * share) <= q
    BY <1>1, <2>1
  <2> HIDE DEF share
  <2>4. p * b = -(p * a) /\ q * (-share) = -(q * share) /\ p * a \in Int /\ q * share \in Int
    BY SMT, <2>3
  <2>5. QED
    BY SMT, <2>2, <2>3, <2>4
<1>4. QED
  BY <1>2, <1>3

\* The exact schedule of a loan, in units of 1 / s of a cent: level is the
\* annuity at the rate p / q, what is owed after each month is exact, and the
\* loan is repaid with the last one. The instalment is that annuity, rounded.
ExactSchedule(r, s, level, owed) ==
    /\ owed[0] = s * Loan(r) /\ owed[r.term] = 0
    /\ \A m \in 0..(r.term - 1) :
          r.q * owed[m + 1] = (r.q + r.p) * owed[m] - r.q * level
    /\ 2 * (level - s * Payment(r)) <= s /\ 2 * (s * Payment(r) - level) <= s

Owed(r) == [0..r.term -> Int]

\* Every loan has an annuity, and its instalment is that annuity to the cent
\* (calculator.py annuity).
InstalmentsLevel ==
    \A r \in Inputs : Acceptable(r) =>
       \E s \in Nat \ {0}, level \in Int, owed \in Owed(r) : ExactSchedule(r, s, level, owed)

\* One month adds to the distance from the exact schedule the interest on the
\* distance so far, and half a cent each for the interest and the instalment.
LEMMA DriftGrows ==
    ASSUME NEW s \in Nat, s > 0, NEW p \in Nat, NEW q \in Nat, q > 0,
           NEW payment \in Int, NEW level \in Int, NEW b \in Int, NEW interest \in Int,
           NEW before \in Int, NEW after \in Int, NEW n \in Nat,
           q * after = (q + p) * before - q * level,
           2 * (level - s * payment) <= s, 2 * (s * payment - level) <= s,
           2 * (q * interest - p * b) <= q, 2 * (p * b - q * interest) <= q,
           s * b - before <= s * n, before - s * b <= s * n
    PROVE  LET wider == n + 1 + (n * p + q - 1) \div q
               left == b - (payment - interest)
           IN  s * left - after <= s * wider /\ after - s * left <= s * wider
<1> DEFINE wider == n + 1 + (n * p + q - 1) \div q
           left == b - (payment - interest)
           e == s * b - before
           u == q * interest - p * b
           v == level - s * payment
           f == s * left - after
<1>1. /\ e \in Int /\ u \in Int /\ v \in Int /\ left \in Int /\ s * left \in Int /\ f \in Int
      /\ s * n \in Nat
  BY SMT
<1>2. wider \in Nat /\ q * wider >= (q + p) * n + q
  <2> DEFINE c == (n * p + q - 1) \div q
             m == (n * p + q - 1) % q
  <2>1. n * p \in Nat
    BY SMT
  <2>2. n * p + q - 1 \in Nat
    BY SMT, <2>1
  <2>3. c \in Nat /\ m \in Nat /\ m < q /\ n * p + q - 1 = q * c + m
    BY SMT, <2>2
  <2> HIDE DEF c, m
  <2>4. q * c \in Nat /\ q * c >= n * p
    BY SMT, <2>1, <2>3
  <2>5. q * (n + 1 + c) = q * n + q + q * c /\ (q + p) * n = q * n + n * p
    BY SMT, <2>3
  <2>6. q * n \in Nat
    BY SMT
  <2>7. q * (n + 1 + c) >= (q + p) * n + q /\ n + 1 + c \in Nat
    BY SMT, <2>1, <2>3, <2>4, <2>5, <2>6
  <2>8. QED
    BY <2>7 DEF c
<1>3. q * f = (q + p) * e + s * u + q * v
  BY SMT
<1> HIDE DEF wider, left, e, u, v, f
<1>4. /\ (q + p) * e <= (q + p) * (s * n) /\ -((q + p) * (s * n)) <= (q + p) * e
      /\ (q + p) * e \in Int /\ (q + p) * (s * n) \in Nat
  <2>1. e <= s * n /\ -(s * n) <= e /\ q + p \in Nat
    BY SMT, <1>1 DEF e
  <2> DEFINE g == q + p
             k == s * n
  <2>2. g \in Nat /\ k \in Nat /\ e <= k /\ -k <= e
    BY <1>1, <2>1
  <2> HIDE DEF g, k
  <2>3. g * e <= g * k /\ -(g * k) <= g * e /\ g * e \in Int /\ g * k \in Nat
    BY SMT, <1>1, <2>2
  <2>4. QED
    BY <2>3 DEF g, k
<1>5. /\ 2 * (s * u) <= s * q /\ -(s * q) <= 2 * (s * u)
      /\ s * u \in Int /\ s * q \in Nat
  <2>1. 2 * u <= q /\ -q <= 2 * u
    BY SMT, <1>1 DEF u
  <2>2. QED
    BY SMT, <1>1, <2>1
<1>6. /\ 2 * (q * v) <= s * q /\ -(s * q) <= 2 * (q * v) /\ q * v \in Int
  <2>1. 2 * v <= s /\ -s <= 2 * v
    BY SMT, <1>1 DEF v
  <2>2. QED
    BY SMT, <1>1, <2>1
<1>7. /\ (q + p) * (s * n) + s * q <= q * (s * wider)
      /\ s * wider \in Nat /\ q * (s * wider) \in Nat
  <2> DEFINE g == (q + p) * n + q
  <2>1. g \in Nat /\ g <= q * wider /\ q * wider \in Nat
    BY SMT, <1>2
  <2>2. s * g = (q + p) * (s * n) + s * q
    BY SMT
  <2>3. q * (s * wider) = s * (q * wider)
    BY SMT, <1>2
  <2> HIDE DEF g
  <2>4. s * g <= s * (q * wider)
    BY SMT, <2>1
  <2>5. QED
    BY SMT, <1>2, <2>2, <2>3, <2>4
<1>8. q * f <= q * (s * wider) /\ -(q * (s * wider)) <= q * f
  BY SMT, <1>1, <1>3, <1>4, <1>5, <1>6, <1>7
<1>9. f <= s * wider /\ -(s * wider) <= f
  <2> DEFINE k == s * wider
  <2>1. k \in Nat /\ q * f <= q * k /\ -(q * k) <= q * f
    BY <1>7, <1>8
  <2> HIDE DEF k
  <2>2. f <= k /\ -k <= f
    BY SMT, <1>1, <2>1
  <2>3. QED
    BY <2>2 DEF k
<1>10. s * left - after <= s * wider /\ after - s * left <= s * wider
  BY SMT, <1>1, <1>7, <1>9 DEF f
<1>11. QED
  BY <1>10 DEF wider, left

\* The latest instalment is the nominal one but for the drift.
ResidueFits == last - Payment(request) <= drift /\ Payment(request) - last <= drift

\* What is owed is the exact debt but for the drift.
Follows(s, level, owed) ==
    ExactSchedule(request, s, level, owed) =>
       s * balance - owed[month] <= s * drift /\ owed[month] - s * balance <= s * drift

DriftInv ==
    /\ CalcInv
    /\ pc = "schedule" /\ month < request.term =>
         \A s \in Nat \ {0}, level \in Int, owed \in Owed(request) : Follows(s, level, owed)
    /\ (pc = "schedule" /\ month = request.term) \/ Scheduled => ResidueFits

LEMMA BeginFollows ==
    ASSUME CalcInv', NEW r \in Inputs, Begin(r), Acceptable(r)
    PROVE  DriftInv'
<1>1. /\ request' = r /\ pc' = "schedule" /\ month' = 0 /\ balance' = Loan(r) /\ drift' = 0
  BY DEF Begin
<1>2. r.term \in Int /\ r.term >= 12 /\ Loan(r) \in Int
  BY RequestFacts, AmountTypes DEF Acceptable
<1>3. ASSUME NEW s \in Nat \ {0}, NEW level \in Int, NEW owed \in Owed(r)
      PROVE  Follows(s, level, owed)'
  <2>1. ExactSchedule(request, s, level, owed)' => owed[0] = s * Loan(r)
    BY <1>1 DEF ExactSchedule
  <2>2. s * Loan(r) \in Int /\ s * 0 = 0
    BY SMT, <1>2
  <2>3. ExactSchedule(request, s, level, owed)' =>
           s * balance' - owed[month'] <= s * drift' /\ owed[month'] - s * balance' <= s * drift'
    BY <1>1, <2>1, <2>2
  <2>4. QED
    BY <2>3 DEF Follows
<1>4. Owed(request)' = Owed(r) /\ month' # request'.term
  BY <1>1, <1>2 DEF Owed
<1>5. QED
  BY <1>1, <1>3, <1>4 DEF DriftInv, Scheduled

LEMMA MonthFollows ==
    ASSUME InstalmentsLevel, DriftInv, CalcInv', ChargeMonth
    PROVE  DriftInv'
<1> DEFINE interest == Interest(request, balance)
           left == balance - (Payment(request) - interest)
<1>1. /\ pc = "schedule" /\ month < request.term
      /\ month' = month + 1 /\ pc' = "schedule" /\ request' = request
      /\ balance' = balance - IF month + 1 = request.term THEN balance
                              ELSE Payment(request) - interest
      /\ last' = interest + IF month + 1 = request.term THEN balance
                            ELSE Payment(request) - interest
      /\ drift' = drift + 1 + (drift * request.p + request.q - 1) \div request.q
  BY DEF ChargeMonth
<1>2. /\ request \in Inputs /\ Acceptable(request)
      /\ month \in Nat /\ balance \in Int /\ drift \in Nat
  BY <1>1 DEF DriftInv, CalcInv, TypeOK, ChecksHold, Working
<1>3. /\ request.p \in Nat /\ request.q \in Nat /\ request.q > 0 /\ request.term \in Int
      /\ Payment(request) \in Int /\ interest \in Int
  BY <1>2, RequestFacts, AmountTypes
<1>4. /\ 2 * (request.q * interest - request.p * balance) <= request.q
      /\ 2 * (request.p * balance - request.q * interest) <= request.q
  BY <1>2, <1>3, ShareNear DEF Interest
<1> HIDE DEF interest
<1>5. left \in Int /\ drift' \in Nat
  BY <1>1, <1>2, <1>3, DriftType
<1>6. ASSUME NEW s \in Nat \ {0}, NEW level \in Int, NEW owed \in Owed(request),
             ExactSchedule(request, s, level, owed)
      PROVE  /\ s * left - owed[month + 1] <= s * drift'
             /\ owed[month + 1] - s * left <= s * drift'
             /\ owed[month + 1] \in Int
  <2>1. s * balance - owed[month] <= s * drift /\ owed[month] - s * balance <= s * drift
    BY <1>1, <1>6 DEF DriftInv, Follows
  <2>2. month \in 0..(request.term - 1) /\ month + 1 \in 0..request.term /\ month \in 0..request.term
    BY <1>1, <1>2, <1>3
  <2>3. owed[month] \in Int /\ owed[month + 1] \in Int
    BY <2>2 DEF Owed
  <2>4. /\ request.q * owed[month + 1]
             = (request.q + request.p) * owed[month] - request.q * level
        /\ 2 * (level - s * Payment(request)) <= s /\ 2 * (s * Payment(request) - level) <= s
    BY <1>6, <2>2 DEF ExactSchedule
  <2>5. s \in Nat /\ s > 0
    OBVIOUS
  <2>6. QED
    BY <1>1, <1>2, <1>3, <1>4, <2>1, <2>3, <2>4, <2>5, DriftGrows
<1>7. CASE month + 1 # request.term
  <2>1. balance' = left
    BY <1>1, <1>7
  <2>2. ASSUME NEW s \in Nat \ {0}, NEW level \in Int, NEW owed \in Owed(request)
        PROVE  Follows(s, level, owed)'
    <3>1. ExactSchedule(request, s, level, owed)' <=> ExactSchedule(request, s, level, owed)
      BY <1>1 DEF ExactSchedule, Loan, Payment
    <3>2. QED
      BY <1>1, <1>6, <2>1, <3>1 DEF Follows
  <2>3. Owed(request)' = Owed(request) /\ month' # request'.term
    BY <1>1, <1>7 DEF Owed
  <2>4. QED
    BY <1>1, <2>2, <2>3 DEF DriftInv, Scheduled
<1>8. CASE month + 1 = request.term
  <2>1. last' = interest + balance /\ month' = request'.term
    BY <1>1, <1>8
  <2>2. PICK s \in Nat \ {0}, level \in Int, owed \in Owed(request) :
          ExactSchedule(request, s, level, owed)
    BY <1>2 DEF InstalmentsLevel
  <2>3. owed[month + 1] = 0
    BY <1>8, <2>2 DEF ExactSchedule
  <2>4. s * left <= s * drift' /\ -(s * left) <= s * drift'
    <3>1. s * left \in Int /\ s * drift' \in Int
      BY SMT, <1>5
    <3>2. s * left - 0 <= s * drift' /\ 0 - s * left <= s * drift'
      BY <1>6, <2>2, <2>3
    <3>3. QED
      BY SMT, <3>1, <3>2
  <2>5. left <= drift' /\ -left <= drift'
    BY SMT, <1>5, <2>4
  <2>6. last' - Payment(request) = left
    BY SMT, <1>2, <1>3, <2>1
  <2>7. last' \in Int
    BY <1>2, <1>3, <2>1
  <2>8. last' - Payment(request) <= drift' /\ Payment(request) - last' <= drift'
    BY SMT, <1>3, <1>5, <2>5, <2>6, <2>7
  <2>9. ResidueFits'
    BY <1>1, <2>8 DEF ResidueFits, Payment, Loan
  <2>10. month' < request'.term => FALSE
    BY <1>1, <1>2, <1>3, <1>8
  <2>11. QED
    BY <2>9, <2>10 DEF DriftInv
<1>9. QED
  BY <1>7, <1>8

LEMMA DriftStep == InstalmentsLevel /\ DriftInv /\ [Next]_vars => DriftInv'
<1> SUFFICES ASSUME InstalmentsLevel, DriftInv, [Next]_vars PROVE DriftInv'
  OBVIOUS
<1>1. CalcInv /\ CalcInv'
  BY CalcStep DEF DriftInv
<1>2. ASSUME NEW r \in Inputs, Begin(r), Acceptable(r) PROVE DriftInv'
  BY <1>1, <1>2, BeginFollows
<1>3. ASSUME NEW r \in Inputs, Read(r) PROVE DriftInv'
  BY <1>1, <1>2, <1>3 DEF Read, CalcInv, StoredIsComputable
<1>4. ASSUME NEW r \in Inputs, Create(r), ~Acceptable(r) PROVE DriftInv'
  BY <1>1, <1>4 DEF Create, DriftInv, Scheduled
<1>5. CASE ChargeMonth
  BY <1>1, <1>5, MonthFollows
<1>6. ASSUME UNCHANGED <<request, last, drift>>,
             pc' # "schedule", Scheduled' => (pc = "schedule" /\ month = request.term) \/ Scheduled
      PROVE  DriftInv'
  <2>1. ResidueFits => ResidueFits'
    BY <1>6 DEF ResidueFits, Payment, Loan
  <2>2. QED
    BY <1>1, <1>6, <2>1 DEF DriftInv
<1>7. CASE OpenBracket \/ Halve \/ Solve \/ Save \/ SaveFails
  <2>1. UNCHANGED <<request, last, drift>>
    BY <1>7 DEF OpenBracket, Halve, Solve, Save, SaveFails, figures
  <2>2. pc' # "schedule" /\ (Scheduled' => (pc = "schedule" /\ month = request.term) \/ Scheduled)
    BY <1>7 DEF OpenBracket, Halve, Solve, Save, SaveFails, Scheduled
  <2>3. QED
    BY <1>6, <2>1, <2>2
<1>8. CASE Quiet \/ UNCHANGED vars
  BY <1>1, <1>8 DEF Quiet, vars, figures, DriftInv, Scheduled, ResidueFits, Follows,
     ExactSchedule, Owed, Payment, Loan
<1>9. ASSUME NEW r \in Inputs, Create(r) PROVE DriftInv'
  <2>1. CASE Acceptable(r)
    BY <1>2, <1>9, <2>1 DEF Create
  <2>2. QED
    BY <1>4, <1>9, <2>1
<1>10. QED
  BY <1>3, <1>5, <1>7, <1>8, <1>9 DEF Next, Compute

\* Provided every instalment is the annuity of its loan to the cent, the last one
\* differs from it by no more than a cent of rounding a month with its interest,
\* for every rate and term (calculator.py build_amortisation_schedule).
THEOREM ResidueIsBounded ==
    ASSUME InstalmentsLevel PROVE Spec => []ResidueBounded
<1>1. Init => DriftInv
  BY CalcInit DEF Init, DriftInv, Scheduled
<1>2. DriftInv /\ [Next]_vars => DriftInv'
  BY DriftStep
<1>3. DriftInv => ResidueBounded
  BY DEF DriftInv, ResidueFits, ResidueBounded
<1>4. QED
  BY <1>1, <1>2, <1>3, PTL DEF Spec

-----------------------------------------------------------------------------
(* Duties *)

\* Each rate of the duty, as a division of the whole amount.
LEMMA DutyShares ==
    ASSUME NEW v \in Nat
    PROVE  /\ Share(v, 3, 25) = (6 * v + 25) \div 50
           /\ Share(v, 1, 8) = (2 * v + 8) \div 16
           /\ Share(v, 1, 50) = (2 * v + 50) \div 100
           /\ Share(v, 3, 100) = (6 * v + 100) \div 200
<1>1. Share(v, 3, 25) = (6 * v + 25) \div 50
  BY DEF Share, HalfUp
<1>2. Share(v, 1, 8) = (2 * v + 8) \div 16
  BY DEF Share, HalfUp
<1>3. Share(v, 1, 50) = (2 * v + 50) \div 100
  BY DEF Share, HalfUp
<1>4. Share(v, 3, 100) = (6 * v + 100) \div 200
  BY DEF Share, HalfUp
<1>5. QED
  BY <1>1, <1>2, <1>3, <1>4

LEMMA ReducedDuty ==
    ASSUME NEW r \in Inputs, Acceptable(r)
    PROVE  /\ StandardDuty(r) \in Nat
           /\ RegistrationDuty(r) \in Nat
           /\ RegistrationDuty(r) <= StandardDuty(r)
<1> DEFINE v == r.value
<1>1. v \in Nat /\ v >= 1000000 /\ r.region \in Region /\ r.is_first_home \in BOOLEAN
  BY RequestFacts DEF Acceptable
<1> HIDE DEF v
<1>2. StandardDuty(r) = IF r.region = "FLANDERS" THEN (6 * v + 25) \div 50
                                                 ELSE (2 * v + 8) \div 16
  <2>1. /\ Share(v, 3, 25) = (6 * v + 25) \div 50
        /\ Share(v, 1, 8) = (2 * v + 8) \div 16
    BY <1>1, DutyShares
  <2>2. StandardDuty(r) = IF r.region = "FLANDERS" THEN Share(v, 3, 25) ELSE Share(v, 1, 8)
    BY DEF StandardDuty, v
  <2>3. QED
    BY <2>1, <2>2
<1>3. StandardDuty(r) \in Nat
  <2>1. v \in Nat
    BY <1>1
  <2>2. (6 * v + 25) \div 50 \in Nat
    BY <2>1
  <2>3. (2 * v + 8) \div 16 \in Nat
    BY <2>1
  <2>4. QED
    BY <1>2, <2>2, <2>3
<1>4. CASE ~r.is_first_home
  BY SMT, <1>3, <1>4 DEF RegistrationDuty
<1>5. CASE r.is_first_home /\ r.region = "FLANDERS"
  <2>1. RegistrationDuty(r) = (2 * v + 50) \div 100
    BY SMT, <1>1, <1>5, DutyShares DEF RegistrationDuty, v
  <2>2. QED
    BY <1>1, <1>2, <1>5, <2>1
<1>6. CASE r.is_first_home /\ r.region = "WALLONIA"
  <2>1. RegistrationDuty(r) = (6 * v + 100) \div 200
    BY SMT, <1>1, <1>6, DutyShares DEF RegistrationDuty, v
  <2>2. QED
    BY <1>1, <1>2, <1>6, <2>1
<1>7. CASE r.is_first_home /\ r.region = "BRUSSELS"
  <2>1. CASE v <= 20000000
    BY SMT, <1>3, <1>7, <2>1 DEF RegistrationDuty, v
  <2>2. CASE v > 20000000
    <3>1. v - 20000000 \in Nat
      BY <1>1, <2>2
    <3>2. RegistrationDuty(r) = (2 * (v - 20000000) + 8) \div 16
      BY SMT, <1>1, <1>7, <2>2, <3>1, DutyShares DEF RegistrationDuty, v
    <3>3. QED
      BY <1>1, <1>2, <1>7, <2>2, <3>2
  <2>3. QED
    BY <1>1, <2>1, <2>2
<1>8. QED
  BY <1>1, <1>4, <1>5, <1>6, <1>7 DEF Region

\* For every price, region and contribution, a first home pays no more duty and
\* needs no more cash than the same purchase without it
\* (calculator.py registration_duty, compute_upfront_costs).
THEOREM FirstHomesCostNoMore == Spec => []FirstHomeNeverCostsMore
<1>1. CalcInv => FirstHomeNeverCostsMore
  <2> SUFFICES ASSUME CalcInv, pc = "save" PROVE FirstHomeNeverCostsMore
    BY DEF FirstHomeNeverCostsMore
  <2> DEFINE other == [request EXCEPT !.is_first_home = FALSE]
  <2>1. request \in Inputs /\ Acceptable(request)
    BY DEF CalcInv, TypeOK, ChecksHold, Working
  <2>2. request \in Request
    BY <2>1, CalculatorAssumption
  <2>3. /\ other.is_first_home = FALSE /\ other.value = request.value
        /\ other.contribution = request.contribution /\ other.region = request.region
    BY <2>2 DEF Request
  <2> HIDE DEF other
  <2>4. RegistrationDuty(other) = StandardDuty(request) /\ JkpFees(other) = JkpFees(request)
    BY SMT, <2>3 DEF RegistrationDuty, StandardDuty, JkpFees, MortgageCosts, Loan
  <2>5. /\ StandardDuty(request) \in Nat /\ RegistrationDuty(request) \in Nat
        /\ RegistrationDuty(request) <= StandardDuty(request)
    BY <2>1, ReducedDuty
  <2>6. JkpFees(request) \in Int /\ request.contribution \in Nat
    <3>1. MortgageCosts(request) \in Int
      BY <2>1, AmountTypes, ShareType DEF MortgageCosts
    <3>2. QED
      BY <2>1, <3>1, RequestFacts DEF JkpFees, DossierFee, ValuationFee
  <2>7. CashNeeded(request) <= CashNeeded(other)
    BY <2>3, <2>4, <2>5, <2>6 DEF CashNeeded, NotaryFee
  <2>8. QED
    BY <2>5, <2>7 DEF FirstHomeNeverCostsMore, other
<1>2. QED
  BY <1>1, CalcInvHolds, PTL
=============================================================================

--------------------------- MODULE Affordability ----------------------------
(***************************************************************************)
(* How comfortably a household carries a loan, as a function of confirmed  *)
(* figures (applications/affordability.py).  Amounts are in cents, the     *)
(* income share is in hundredths of a percent: the four decimals it is     *)
(* reported and compared with.                                             *)
(***************************************************************************)
EXTENDS Integers

CONSTANT Null   \* an absent value

\* n / d, rounded half up.
HalfUp(n, d) == n \div d + IF 2 * (n % d) >= d THEN 1 ELSE 0

AtLeast(low, n) == IF n < low THEN low ELSE n

\* The monthly income a household must keep after credit.
ResidualFloor(adults, dependants) ==
    120000 + 40000 * AtLeast(0, adults - 1) + 30000 * AtLeast(0, dependants)

DstiBand(dsti) ==
    IF dsti <= 3300 THEN "COMFORTABLE"
    ELSE IF dsti <= 4000 THEN "TIGHT" ELSE "OUTSIDE_TYPICAL_NORMS"

\* residual >= floor * 1.10, in whole cents.
ResidualBand(residual, floor) ==
    IF 10 * residual >= 11 * floor THEN "COMFORTABLE"
    ELSE IF residual >= floor THEN "TIGHT" ELSE "OUTSIDE_TYPICAL_NORMS"

Severity == [COMFORTABLE |-> 1, TIGHT |-> 2, OUTSIDE_TYPICAL_NORMS |-> 3]

\* Planted mistake: clearing either bar is enough.
WorseLenient(first, second) == IF Severity[second] < Severity[first] THEN second ELSE first

\* The less comfortable of two bands.
Worse(first, second) == IF Severity[second] > Severity[first] THEN second ELSE first

\* assess: the income share is undefined without an income.
Assess(income, credit, dependants, adults, payment) ==
    LET obligations == payment + IF credit = Null THEN 0 ELSE credit
        floor == ResidualFloor(adults, dependants)
        insufficient == [band |-> "INSUFFICIENT_DATA", dsti |-> Null,
                         monthly_obligations |-> obligations,
                         residual_income |-> Null, residual_floor |-> floor]
        dsti == HalfUp(obligations * 10000, income)
        residual == income - obligations
    IN  IF income = Null THEN insufficient
        ELSE IF income <= 0 THEN insufficient
        ELSE [band |-> Worse(DstiBand(dsti), ResidualBand(residual, floor)),
              dsti |-> dsti, monthly_obligations |-> obligations,
              residual_income |-> residual, residual_floor |-> floor]
=============================================================================

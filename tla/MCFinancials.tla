---------------------------- MODULE MCFinancials ----------------------------
(***************************************************************************)
(* A small instance of Financials for TLC: a loan of 1414.52 a month, and  *)
(* incomes at which it is outside the norms, tight because of another      *)
(* credit, at the very edge of comfortable, and none at all.               *)
(***************************************************************************)
EXTENDS Financials, TLC

Body(income, credit, dependants) ==
    [income |-> income, credit |-> credit, dependants |-> dependants]

MCBodies == {Body(Null, Null, 0), Body(428592, Null, 0), Body(480000, 40000, 1),
             Body(0, 40000, 0), Body(320000, Null, 0)}

MCHouseholds == {[payment |-> Null, borrowers |-> 0], [payment |-> 141452, borrowers |-> 2]}

Symmetry == Permutations(Requests)
=============================================================================

---------------------------- MODULE MCCalculator ----------------------------
(***************************************************************************)
(* An instance of Calculator for TLC.  The monthly rates, instalments and  *)
(* present values of these loans are what calculator.py computes for them; *)
(* each p / q reproduces its schedule to the cent.                         *)
(***************************************************************************)
EXTENDS Calculator, Sequences

Values(list) == [k \in 0..Grid |-> list[k + 1]]

Typical ==
    [value |-> 30000000, contribution |-> 6000000, term |-> 240, annual |-> 400,
     region |-> "FLANDERS", is_first_home |-> TRUE,
     p |-> 475, q |-> 145094, instalment |-> 144533,
     pv |-> Values(<<34653112, 28925722, 24494777, 21023719, 18271312, 16062860, 14270562, 12799998, 11580723,
                    10559682, 9696534, 8960333, 8327120, 7778187, 7298804, 6877273, 6504233>>)]
Tiny ==
    [value |-> 1000000, contribution |-> 934000, term |-> 360, annual |-> 2000,
     region |-> "WALLONIA", is_first_home |-> FALSE,
     p |-> 2263, q |-> 147817, instalment |-> 1015,
     pv |-> Values(<<364850, 279561, 220638, 178907, 148627, 126133, 109047, 95793, 85308,
                    76863, 69950, 64207, 59370, 55248, 51698, 48609, 45900>>)]
Free ==
    [value |-> 1000000, contribution |-> 900000, term |-> 12, annual |-> 0,
     region |-> "BRUSSELS", is_first_home |-> TRUE,
     p |-> 0, q |-> 1, instalment |-> 8333,
     pv |-> Values(<<99990, 98991, 98022, 97083, 96171, 95286, 94426, 93590, 92778,
                    91987, 91217, 90468, 89738, 89026, 88332, 87656, 86996>>)]
Largest ==
    [value |-> 1000000000, contribution |-> 0, term |-> 360, annual |-> 350,
     region |-> "BRUSSELS", is_first_home |-> TRUE,
     p |-> 161, q |-> 56080, instalment |-> 4459845,
     pv |-> Values(<<1603131730, 1228377061, 969470340, 786108506, 653057926, 554223749, 479147919, 420908312, 374838469,
                    337735119, 307359987, 282121744, 260869843, 242758856, 227157856, 213589000, 201685300>>)]
Steep ==
    [value |-> 1000000, contribution |-> 0, term |-> 359, annual |-> 1999,
     region |-> "WALLONIA", is_first_home |-> TRUE,
     p |-> 2509, q |-> 163961, instalment |-> 15368,
     pv |-> Values(<<5508845, 4224037, 3335578, 2705850, 2248594, 1908734, 1650450, 1450011, 1291408,
                    1163645, 1059030, 972096, 898886, 836490, 782739, 735988, 694973>>)]
EatenByFees ==
    [value |-> 1000000, contribution |-> 940000, term |-> 12, annual |-> 500,
     region |-> "FLANDERS", is_first_home |-> FALSE,
     p |-> 516, q |-> 126653, instalment |-> 5133,
     pv |-> Values(<<61592, 60977, 60380, 59801, 59240, 58695, 58165, 57650, 57149,
                    56662, 56188, 55727, 55277, 54839, 54411, 53994, 53588>>)]

\* Requests that are turned down, each for one bound it crosses.
Refused ==
    {[Free EXCEPT !.contribution = 1000000], [Free EXCEPT !.contribution = 1000001],
     [Free EXCEPT !.value = 999999], [Largest EXCEPT !.value = 1000000001],
     [Free EXCEPT !.term = 11], [Typical EXCEPT !.term = 361],
     [Typical EXCEPT !.annual = -1], [Typical EXCEPT !.annual = 2001]}

MCInputs == {Typical, Tiny, Free, Largest, Steep, EatenByFees} \cup Refused
=============================================================================

----------------------------- MODULE MCPayment -----------------------------
(***************************************************************************)
(* Small instances of Payment for TLC, and the properties of the payment   *)
(* subsystem.                                                              *)
(***************************************************************************)
EXTENDS Payment, TLC

CONSTANTS u1, u2, c1, c2, d1, d2, w1, w2, monthly

Price(amount, days) == [amount |-> amount, days |-> days]
Defaults == [p \in Plans |-> IF p = monthly THEN Price(10, 1) ELSE Price(20, 4)]

\* Tables: none of the plans has a row, and every plan of the list is at its
\* default; the monthly plan has other days at the same price; the other plan
\* is one cent cheaper than the monthly one; it is at the price of the monthly
\* one, so that the list is not used.
NoRows == {[p \in Plans |-> None]}
MonthlyTables == NoRows \cup {[p \in Plans |-> Price(10, 3)]}
TwoPlanTables ==
    {[p \in Plans |-> IF p = monthly THEN None ELSE Price(9, 3)],
     [p \in Plans |-> IF p = monthly THEN None ELSE Price(10, 5)]}

\* Order 1 was written before plans were recorded.
OneLegacy == [o \in OrderIds |->
    IF o = 1 THEN [user |-> u1, chan |-> c1, plan |-> None, amount |-> 10, days |-> 0, created |-> 0]
             ELSE None]
NoLegacy == [o \in OrderIds |-> None]
OwnDevice == [d \in Devices |-> IF d = d1 THEN u1 ELSE u2]
Rounded == {0, -1, -2}
Exact == {0}
Handlers == Permutations(Workers)

=============================================================================

---------------------------- MODULE PlanPricing ----------------------------
(***************************************************************************)
(* Which plan costs what: the part of biz/payment.go that turns the table  *)
(* novel_vip_plan into the price list orders are made from, and an amount  *)
(* back into a plan.  A table holds at most one enabled row of a plan and  *)
(* a currency (uk_plan_currency); two administrators who run CreatePlan or *)
(* UpdatePlan at once may leave any such table behind, since both look for *)
(* a twin before they write.                                               *)
(***************************************************************************)
EXTENDS Integers

CONSTANTS
    Plans,         \* planOrder
    DefaultPlans,  \* defaultPlans and planDays, in USD
    None           \* no row, no plan, no notification

Offer == [amount: Nat \ {0}, days: Nat \ {0}]
Table == [Plans -> Offer \cup {None}]

\* No two plans of a list have the same price.
Unambiguous(list) ==
    \A p, q \in DOMAIN list : list[p].amount = list[q].amount => p = q

ASSUME PricingAssumption ==
    /\ DefaultPlans \in [Plans -> Offer]
    /\ Unambiguous(DefaultPlans)
    /\ None \notin Offer

-----------------------------------------------------------------------------
NoList == [p \in {} |-> None]
Rows(table) == [p \in {q \in Plans : table[q] # None} |-> table[p]]

\* USD: the defaults stand in for the rows that are missing.
Filled(table, usd) ==
    IF usd THEN [p \in Plans |-> IF table[p] = None THEN DefaultPlans[p] ELSE table[p]]
           ELSE Rows(table)

\* A list with two plans at one price is not used.
PlansFromRows(table, usd) ==
    IF Unambiguous(Filled(table, usd)) THEN Filled(table, usd)
    ELSE IF usd THEN DefaultPlans ELSE NoList

\* planForAmounts: the plan that costs this much.
PlanFor(list, cents) ==
    IF \E p \in DOMAIN list : list[p].amount = cents
    THEN CHOOSE p \in DOMAIN list : list[p].amount = cents
    ELSE None

\* What ListPublicPlans shows: the rows, or the defaults in their place.
PublicPlans(table, usd) ==
    IF usd /\ \A p \in Plans : table[p] = None THEN DefaultPlans ELSE Rows(table)

\* What CreatePlan and UpdatePlan check: no other row at this price.
NoTwin(table) == Unambiguous(Rows(table))

=============================================================================

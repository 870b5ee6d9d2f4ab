------------------------- MODULE PlanPricingProofs -------------------------
(***************************************************************************)
(* Proofs about PlanPricing, for every table of plans: the table may hold  *)
(* any prices, since administrators write it and nothing serialises them.  *)
(* The argument is by cases on Unambiguous(Filled(...)): either the list   *)
(* passes the test of plansFromRows, or the list that replaces it does.    *)
(***************************************************************************)
EXTENDS PlanPricing, TLAPS

LEMMA FilledType ==
    ASSUME NEW table \in Table
    PROVE  /\ Filled(table, TRUE) \in [Plans -> Offer]
           /\ DOMAIN Filled(table, FALSE) = {p \in Plans : table[p] # None}
           /\ \A p \in DOMAIN Filled(table, FALSE) : Filled(table, FALSE)[p] \in Offer
<1>1. \A p \in Plans : DefaultPlans[p] \in Offer /\ (table[p] \in Offer \/ table[p] = None)
  BY PricingAssumption DEF Table
<1>2. Filled(table, TRUE) \in [Plans -> Offer]
  BY <1>1 DEF Filled
<1>3. /\ DOMAIN Rows(table) = {p \in Plans : table[p] # None}
      /\ \A p \in DOMAIN Rows(table) : Rows(table)[p] \in Offer
  BY <1>1 DEF Rows
<1> QED
  BY <1>2, <1>3 DEF Filled

LEMMA NoListIsUnambiguous == Unambiguous(NoList) /\ DOMAIN NoList = {}
  BY DEF Unambiguous, NoList

\* In USD every plan is sold, whatever the table holds.
LEMMA PricesAreOffers ==
    ASSUME NEW table \in Table
    PROVE  PlansFromRows(table, TRUE) \in [Plans -> Offer]
  BY FilledType, PricingAssumption DEF PlansFromRows

\* effectivePlans never returns a list with two plans at one price, however
\* administrators raced over the table: the list the table gives is replaced
\* when it is ambiguous, and what replaces it is not.
THEOREM PricesAreUnique ==
    \A table \in Table, usd \in BOOLEAN : Unambiguous(PlansFromRows(table, usd))
<1> SUFFICES ASSUME NEW table \in Table, NEW usd \in BOOLEAN
             PROVE  Unambiguous(PlansFromRows(table, usd))
  OBVIOUS
<1>1. CASE Unambiguous(Filled(table, usd))
  BY <1>1 DEF PlansFromRows
<1>2. CASE ~Unambiguous(Filled(table, usd)) /\ usd
  <2>1. PlansFromRows(table, usd) = DefaultPlans
    BY <1>2 DEF PlansFromRows
  <2> QED
    BY <2>1, PricingAssumption
<1>3. CASE ~Unambiguous(Filled(table, usd)) /\ ~usd
  <2>1. PlansFromRows(table, usd) = NoList
    BY <1>3 DEF PlansFromRows
  <2> QED
    BY <2>1, NoListIsUnambiguous
<1> QED
  BY <1>1, <1>2, <1>3

\* Webhook finds the plan of an order that was written before plans were
\* recorded by its price alone (planForAmounts): for the lists effectivePlans
\* returns, the plan it finds is the one that was sold, never another one.
THEOREM PlanForInverts ==
    \A table \in Table, usd \in BOOLEAN :
        \A p \in DOMAIN PlansFromRows(table, usd) :
            PlanFor(PlansFromRows(table, usd), PlansFromRows(table, usd)[p].amount) = p
<1> SUFFICES ASSUME NEW table \in Table, NEW usd \in BOOLEAN,
                    NEW p \in DOMAIN PlansFromRows(table, usd)
             PROVE  PlanFor(PlansFromRows(table, usd),
                            PlansFromRows(table, usd)[p].amount) = p
  OBVIOUS
<1> DEFINE list == PlansFromRows(table, usd)
           found == CHOOSE q \in DOMAIN list : list[q].amount = list[p].amount
<1>1. Unambiguous(list)
  BY PricesAreUnique
<1>2. found \in DOMAIN list /\ list[found].amount = list[p].amount
  OBVIOUS
<1>3. p \in DOMAIN list
  OBVIOUS
<1>4. found = p
  <2> HIDE DEF list, found
  <2> QED
    BY <1>1, <1>2, <1>3 DEF Unambiguous
<1>5. PlanFor(list, list[p].amount) = found
  BY DEF PlanFor
<1> QED
  BY <1>4, <1>5

\* What the page of the plans shows is what an order costs: ListPublicPlans and
\* effectivePlans agree on every plan they list.  In CNY it takes no more than
\* the administration's own rule, no two rows at one price (CreatePlan,
\* UpdatePlan); in USD that rule is not enough, because a row may take the
\* price of a default it does not see, and the list has to pass the test of
\* plansFromRows.
THEOREM ListedIsSold ==
    \A table \in Table, usd \in BOOLEAN :
        (IF usd THEN Unambiguous(Filled(table, TRUE)) ELSE NoTwin(table)) =>
            \A p \in DOMAIN PublicPlans(table, usd) :
                /\ p \in DOMAIN PlansFromRows(table, usd)
                /\ PlansFromRows(table, usd)[p] = PublicPlans(table, usd)[p]
<1> SUFFICES ASSUME NEW table \in Table, NEW usd \in BOOLEAN,
                    IF usd THEN Unambiguous(Filled(table, TRUE)) ELSE NoTwin(table),
                    NEW p \in DOMAIN PublicPlans(table, usd)
             PROVE  /\ p \in DOMAIN PlansFromRows(table, usd)
                    /\ PlansFromRows(table, usd)[p] = PublicPlans(table, usd)[p]
  OBVIOUS
<1>1. CASE ~usd
  <2>1. PlansFromRows(table, usd) = Rows(table) /\ PublicPlans(table, usd) = Rows(table)
    BY <1>1 DEF PlansFromRows, Filled, NoTwin, PublicPlans
  <2> QED
    BY <2>1
<1>2. CASE usd /\ \A q \in Plans : table[q] = None
  <2>1. PublicPlans(table, usd) = DefaultPlans
    BY <1>2 DEF PublicPlans
  <2>2. PlansFromRows(table, usd) = [q \in Plans |-> DefaultPlans[q]]
    BY <1>2 DEF PlansFromRows, Filled
  <2>3. DefaultPlans = [q \in Plans |-> DefaultPlans[q]]
    BY PricingAssumption
  <2> QED
    BY <2>1, <2>2, <2>3
<1>3. CASE usd /\ ~ \A q \in Plans : table[q] = None
  <2>1. PublicPlans(table, usd) = Rows(table)
    BY <1>3 DEF PublicPlans
  <2>2. p \in Plans /\ table[p] # None /\ PublicPlans(table, usd)[p] = table[p]
    BY <2>1 DEF Rows
  <2>3. PlansFromRows(table, usd) =
          [q \in Plans |-> IF table[q] = None THEN DefaultPlans[q] ELSE table[q]]
    BY <1>3 DEF PlansFromRows, Filled
  <2> QED
    BY <2>2, <2>3
<1> QED
  BY <1>1, <1>2, <1>3

=============================================================================

--------------------------- MODULE PaymentProofs ---------------------------
(***************************************************************************)
(* Proofs about Payment, for every number of users, orders, channels and   *)
(* concurrent handlers.                                                    *)
(*                                                                         *)
(* The argument rests on the row lock of the order.  A worker past the     *)
(* conditional UPDATE holds it, so the order it claimed is still unsettled *)
(* (ClaimHolds) and no other worker claims it (OneClaim).  At the commit   *)
(* the order is therefore marked and granted for the first time, in one    *)
(* step, on the strength of a charge that passed amountOK when it was      *)
(* loaded (EventsHold) and that the order row, which never changes after   *)
(* its insertion, still matches.                                           *)
(***************************************************************************)
EXTENDS Payment, PlanPricingProofs, FiniteSetTheorems

\* Rows exist exactly for the orders that have a status.
RowsExist == \A o \in OrderIds : status[o] # "none" => order[o] \in Order

\* A charge refers to an order that was inserted, at the channel of the order.
ChargesMatch ==
    \A c \in charges : /\ status[c.order] # "none"
                       /\ c.chan = order[c.order].chan

\* A session or a checkout in progress refers to an inserted order.
SessionsExist ==
    /\ \A o \in sessions : status[o] # "none"
    /\ \A d \in Devices : create[d].at = "checkout" =>
          create[d].order \in OrderIds /\ status[create[d].order] # "none"
    /\ \A d \in Devices : create[d].at # "idle" =>
          create[d].chan \in Channels /\ create[d].plan \in Plans
    /\ \A d \in Devices : query[d] # 0 => status[query[d]] # "none"

\* What a worker carries is a genuine charge that covers its order.
EventsHold ==
    \A w \in Workers : hook[w].at # "idle" =>
        /\ hook[w].event \in Covering
        /\ hook[w].days > 0
        /\ order[hook[w].event.order].plan # None =>
              hook[w].days = order[hook[w].event.order].days
        /\ hook[w].at = "extended" => hook[w].end >= hook[w].stamp + hook[w].days

Claimed == {"claimed", "read", "extended"}

\* The order a worker has claimed is not settled yet ...
ClaimHolds ==
    \A w \in Workers : hook[w].at \in Claimed => status[hook[w].event.order] \in Settleable

\* ... and nobody else has claimed it.
OneClaim ==
    \A v, w \in Workers :
        /\ hook[v].at \in Claimed /\ hook[w].at \in Claimed
        /\ hook[v].event.order = hook[w].event.order
        => v = w

Core ==
    /\ RowsExist
    /\ ChargesMatch
    /\ EventsHold
    /\ ClaimHolds
    /\ OneClaim
    /\ PaidIffGranted
    /\ NoUnpaidGrant
    /\ AckedIsPaid
    /\ GrantHonoursSale

IInv == TypeOK /\ SessionsExist /\ Core

-----------------------------------------------------------------------------
\* Every list that may be read offers every plan.
LEMMA OffersType == \A l \in Offers : l \in [Plans -> Offer]
<1>1. \A table \in Tables : PlansFromRows(table, TRUE) \in [Plans -> Offer]
  BY PaymentAssumption, PricesAreOffers
<1>2. DefaultPlans \in [Plans -> Offer]
  BY PricingAssumption
<1> QED
  BY <1>1, <1>2 DEF Offers, Lists

LEMMA EffectiveOffers == TypeOK => EffectivePlans \subseteq Offers
  BY DEF TypeOK, EffectivePlans, Offers

(* The records that handlers carry. *)

LEMMA RestingCalls ==
    NoCreate \in CreateCall /\ NoHook \in HookCall /\ NoAdmin \in AdminCall
  BY PaymentAssumption DEF NoCreate, NoHook, NoAdmin, CreateCall, HookCall, AdminCall

LEMMA ProceedType ==
    ASSUME NEW d \in Devices, create[d] \in CreateCall,
           NEW step \in {"insert", "checkout"}, NEW o \in 0..MaxOrders
    PROVE  Proceed(d, step, o) \in CreateCall
  BY DEF Proceed, CreateCall

LEMMA ContinueType ==
    ASSUME NEW w \in Workers, hook[w] \in HookCall,
           NEW step \in {"claimed", "read", "extended"}, NEW seen \in Nat, NEW end \in Nat
    PROVE  Continue(w, step, seen, end) \in HookCall
  BY DEF Continue, HookCall

\* CreditEnd: the membership grows by the days that were bought, counted from
\* the settlement and from what was owned before.
LEMMA CreditEndBounds ==
    ASSUME NEW stamp \in Nat, NEW seen \in Nat, NEW days \in Nat
    PROVE  /\ CreditEnd(stamp, seen, days) \in Nat
           /\ CreditEnd(stamp, seen, days) >= stamp + days
           /\ CreditEnd(stamp, seen, days) >= seen + days
  BY DEF CreditEnd

-----------------------------------------------------------------------------
LEMMA TypeStep == IInv /\ [Next]_vars => TypeOK'
<1> SUFFICES ASSUME IInv, [Next]_vars PROVE TypeOK'
  OBVIOUS
<1> USE PaymentAssumption
<1>t. TypeOK /\ SessionsExist /\ EventsHold /\ RowsExist /\ ChargesMatch
  BY DEF IInv, Core
<1>1. ASSUME Tick PROVE TypeOK'
  BY <1>1, <1>t DEF Tick, TypeOK, catalogue, channel, settlement
<1>2. ASSUME NEW d \in Devices, NEW p \in Plans, NEW ch \in Channels, CreatePick(d, p, ch)
      PROVE  TypeOK'
  <2>1. \A l \in EffectivePlans : l[p] \in Offer
    BY <1>t, EffectiveOffers, OffersType
  <2>2. create'[d] \in CreateCall
    BY <1>2, <1>t, <2>1 DEF CreatePick, CreateCall, Offer, TypeOK
  <2> QED
    BY <1>2, <1>t, <2>2 DEF CreatePick, TypeOK, catalogue, channel, settlement
<1>3. ASSUME NEW d \in Devices, CreateReuse(d) PROVE TypeOK'
  <2>1. PICK o \in OrderIds : create' = [create EXCEPT ![d] = Proceed(d, "checkout", o)]
    BY <1>3 DEF CreateReuse, Reusable
  <2>2. Proceed(d, "checkout", o) \in CreateCall
    BY <1>t, ProceedType DEF TypeOK, OrderIds
  <2> QED
    BY <1>3, <1>t, <2>1, <2>2 DEF CreateReuse, TypeOK, catalogue, channel, settlement
<1>4. ASSUME NEW d \in Devices, CreateMiss(d) PROVE TypeOK'
  <2>1. Proceed(d, "insert", 0) \in CreateCall
    BY <1>t, ProceedType DEF TypeOK
  <2> QED
    BY <1>4, <1>t, <2>1 DEF CreateMiss, TypeOK, catalogue, channel, settlement
<1>5. ASSUME NEW d \in Devices, CreateInsert(d) PROVE TypeOK'
  <2>1. PICK o \in OrderIds :
          /\ order' = [order EXCEPT ![o] = NewOrder(d)]
          /\ status' = [status EXCEPT ![o] = "pending"]
          /\ create' = [create EXCEPT ![d] = Proceed(d, "checkout", o)]
    BY <1>5 DEF CreateInsert
  <2>2. Proceed(d, "checkout", o) \in CreateCall
    BY <1>t, ProceedType DEF TypeOK, OrderIds
  <2>3. NewOrder(d) \in Order
    BY <1>5, <1>t DEF NewOrder, Order, SessionsExist, CreateInsert, TypeOK, CreateCall
  <2> QED
    BY <1>5, <1>t, <2>1, <2>2, <2>3 DEF CreateInsert, TypeOK, catalogue, channel, settlement
<1>6. ASSUME NEW d \in Devices, CreateCheckout(d) PROVE TypeOK'
  BY <1>6, <1>t, RestingCalls DEF CreateCheckout, SessionsExist, TypeOK, catalogue, settlement
<1>7. ASSUME NEW d \in Devices, CreateFail(d) PROVE TypeOK'
  BY <1>7, <1>t, RestingCalls DEF CreateFail, TypeOK, catalogue, channel, settlement
<1>8. ASSUME NEW d \in Devices, NEW o \in OrderIds, QueryOverdue(d, o) PROVE TypeOK'
  BY <1>8, <1>t DEF QueryOverdue, OrderIds, TypeOK, catalogue, channel, settlement
<1>9. ASSUME NEW d \in Devices, QueryClose(d) PROVE TypeOK'
  <2>1. query[d] \in OrderIds
    BY <1>9, <1>t DEF QueryClose, TypeOK, OrderIds
  <2>2. Closed(query[d]) \in {"none", "pending", "paid", "closed"}
    BY <2>1, <1>t DEF Closed, TypeOK
  <2> QED
    BY <1>9, <1>t, <2>1, <2>2 DEF QueryClose, TypeOK, catalogue, channel, settlement
<1>10. ASSUME NEW o \in OrderIds, NEW slip \in Slips, Pay(o, slip) PROVE TypeOK'
  <2>1. order[o] \in Order
    BY <1>10, <1>t DEF Pay, SessionsExist, RowsExist
  <2>2. [order |-> o, chan |-> order[o].chan, amount |-> order[o].amount + slip] \in Event
    BY <2>1 DEF Order, Event
  <2> QED
    BY <1>10, <1>t, <2>2 DEF Pay, TypeOK, catalogue, settlement
<1>11. ASSUME NEW w \in Workers, NEW c \in charges, HookAckPaid(w, c) PROVE TypeOK'
  BY <1>11, <1>t DEF HookAckPaid, TypeOK, catalogue, channel
<1>12. ASSUME NEW w \in Workers, NEW c \in charges, HookLoad(w, c) PROVE TypeOK'
  <2>1. c \in Event /\ order[c.order] \in Order
    BY <1>12, <1>t DEF HookLoad, Accepts, TypeOK, RowsExist, Event
  <2>3. ASSUME NEW l \in EffectivePlans PROVE CreditDays(l, c.order, c.amount) \in Nat
    <3>0. l \in [Plans -> Offer]
      BY <1>t, EffectiveOffers, OffersType
    <3>1. CASE order[c.order].plan # None
      BY <2>1, <3>1 DEF CreditDays, Order
    <3>2. CASE order[c.order].plan = None
      <4>1. \A p \in Plans : l[p].days \in Nat
        BY <3>0 DEF Offer
      <4>2. PlanFor(l, c.amount) # None => PlanFor(l, c.amount) \in Plans
        BY <3>0 DEF PlanFor
      <4> QED
        BY <3>2, <4>1, <4>2 DEF CreditDays
    <3> QED
      BY <3>1, <3>2
  <2>4. now \in Nat
    BY <1>t DEF TypeOK
  <2>5. hook'[w] \in HookCall
    BY <1>12, <1>t, <2>1, <2>3, <2>4 DEF HookLoad, HookCall, TypeOK
  <2> QED
    BY <1>12, <1>t, <2>5 DEF HookLoad, TypeOK, catalogue, channel
<1>13. ASSUME NEW w \in Workers, HookClaim(w) PROVE TypeOK'
  <2>1. Continue(w, "claimed", 0, 0) \in HookCall
    BY <1>t, ContinueType DEF TypeOK
  <2> QED
    BY <1>13, <1>t, <2>1 DEF HookClaim, TypeOK, catalogue, channel
<1>14. ASSUME NEW w \in Workers, HookClaimed(w) PROVE TypeOK'
  <2>1. hook[w].event \in Event
    BY <1>14, <1>t DEF HookClaimed, EventsHold, Covering, TypeOK
  <2> QED
    BY <1>14, <1>t, <2>1, RestingCalls DEF HookClaimed, TypeOK, catalogue, channel
<1>15. ASSUME NEW w \in Workers, HookReadUser(w) PROVE TypeOK'
  <2>1. hook[w].event \in charges /\ hook[w].event \in Event
    BY <1>15, <1>t DEF HookReadUser, EventsHold, Covering, TypeOK
  <2>2. order[hook[w].event.order].user \in Users
    BY <2>1, <1>t DEF ChargesMatch, RowsExist, Event, Order
  <2>3. Continue(w, "read", vip[order[hook[w].event.order].user], 0) \in HookCall
    BY <1>t, <2>2, ContinueType DEF TypeOK
  <2> QED
    BY <1>15, <1>t, <2>3 DEF HookReadUser, TypeOK, catalogue, channel
<1>16. ASSUME NEW w \in Workers, HookExtend(w) PROVE TypeOK'
  <2>1. hook[w].stamp \in Nat /\ hook[w].seen \in Nat /\ hook[w].days \in Nat
    BY <1>t DEF TypeOK, HookCall
  <2>2. Continue(w, "extended", hook[w].seen,
                 CreditEnd(hook[w].stamp, hook[w].seen, hook[w].days)) \in HookCall
    BY <1>t, <2>1, ContinueType, CreditEndBounds DEF TypeOK
  <2> QED
    BY <1>16, <1>t, <2>2 DEF HookExtend, TypeOK, catalogue, channel
<1>17. ASSUME NEW w \in Workers, Commit(w),
              acked' \subseteq Event, faults' \in Nat PROVE TypeOK'
  <2> DEFINE o == hook[w].event.order
             g == [user |-> order[o].user, start |-> hook[w].stamp,
                   end |-> hook[w].end, days |-> hook[w].days]
  <2>1. hook[w].event \in charges /\ hook[w].event \in Event /\ o \in OrderIds
    BY <1>17, <1>t DEF Commit, EventsHold, Covering, TypeOK, Event
  <2>2. order[o].user \in Users
    BY <2>1, <1>t DEF ChargesMatch, RowsExist, Order
  <2>3. hook[w].stamp \in Nat /\ hook[w].end \in Nat /\ hook[w].days \in Nat
    BY <1>t DEF TypeOK, HookCall
  <2>4. g \in Grant
    BY <2>2, <2>3 DEF Grant
  <2>5. /\ status' = [status EXCEPT ![o] = "paid"]
        /\ vip' = [vip EXCEPT ![order[o].user] = hook[w].end]
        /\ grant' = [grant EXCEPT ![o] = g]
        /\ hook' = [hook EXCEPT ![w] = NoHook]
        /\ UNCHANGED <<now, order, query, create, catalogue, channel>>
    BY <1>17 DEF Commit
  <2> HIDE DEF o, g
  <2>6. /\ status' \in [OrderIds -> {"none", "pending", "paid", "closed"}]
        /\ grant' \in [OrderIds -> Grant \cup {None}]
        /\ vip' \in [Users -> Nat]
        /\ hook' \in [Workers -> HookCall]
    BY <1>t, <2>1, <2>2, <2>3, <2>4, <2>5, RestingCalls DEF TypeOK
  <2> QED
    BY <1>17, <1>t, <2>5, <2>6 DEF TypeOK, catalogue, channel
<1>18. ASSUME NEW w \in Workers, HookCommit(w) \/ HookCommitUnanswered(w) PROVE TypeOK'
  <2>1. hook[w].event \in Event
    BY <1>18, <1>t DEF HookCommit, HookCommitUnanswered, Commit, EventsHold, Covering, TypeOK
  <2>2. acked' \subseteq Event /\ faults' \in Nat
    BY <1>18, <1>t, <2>1 DEF HookCommit, HookCommitUnanswered, TypeOK
  <2> QED
    BY <1>17, <1>18, <2>2 DEF HookCommit, HookCommitUnanswered
<1>19. ASSUME NEW w \in Workers, HookAbort(w) PROVE TypeOK'
  BY <1>19, <1>t, RestingCalls DEF HookAbort, TypeOK, catalogue, channel
<1>20. ASSUME Administration PROVE TypeOK'
  <2>1. \A i \in Nat, on \in BOOLEAN : [id |-> i, enabled |-> on] \in Row
    BY DEF Row
  <2>3. \A ch \in Channels : provider[ch] # None =>
          provider[ch].id \in Nat /\ provider[ch].enabled \in BOOLEAN
    BY <1>t DEF TypeOK, Row
  <2>4. \A a \in Admins : admin[a].id \in Nat /\ admin[a].enabled \in BOOLEAN
    BY <1>t DEF TypeOK, AdminCall
  <2>5. ASSUME NEW l \in Lists, ChangePrices(l) PROVE TypeOK'
    BY <2>5, <1>t DEF ChangePrices, TypeOK, channel, settlement
  <2>6. ASSUME NEW ch \in Channels, ProviderCreate(ch) PROVE TypeOK'
    <3>1. rows + 1 \in Nat /\ [id |-> rows + 1, enabled |-> TRUE] \in Row
      BY <1>t DEF TypeOK, Row
    <3> QED
      BY <2>6, <1>t, <3>1 DEF ProviderCreate, TypeOK, channel, settlement
  <2>7. ASSUME NEW a \in Admins, NEW ch \in Channels, NEW on \in BOOLEAN,
               ProviderRead(a, ch, on)
        PROVE  TypeOK'
    <3>1. [at |-> "write", chan |-> ch, id |-> provider[ch].id, enabled |-> on] \in AdminCall
      BY <2>7, <2>3 DEF AdminCall, ProviderRead
    <3> QED
      BY <2>7, <1>t, <3>1 DEF ProviderRead, TypeOK, channel, settlement
  <2>8. ASSUME NEW a \in Admins, NEW ch \in Channels, ProviderDeleteCheck(a, ch)
        PROVE  TypeOK'
    <3>1. [at |-> "delete", chan |-> ch, id |-> provider[ch].id, enabled |-> FALSE] \in AdminCall
      BY <2>8, <2>3 DEF AdminCall, ProviderDeleteCheck
    <3> QED
      BY <2>8, <1>t, <3>1 DEF ProviderDeleteCheck, TypeOK, channel, settlement
  <2>9. ASSUME NEW a \in Admins, ProviderWrite(a) PROVE TypeOK'
    BY <2>9, <1>t, <2>1, <2>4, RestingCalls DEF ProviderWrite, TypeOK, channel, settlement
  <2>10. ASSUME NEW a \in Admins, ProviderDelete(a) PROVE TypeOK'
    BY <2>10, <1>t, RestingCalls DEF ProviderDelete, TypeOK, channel, settlement
  <2>11. ASSUME NEW a \in Admins, NEW ch \in Channels, ProviderToggle(a, ch)
         PROVE  TypeOK'
    <3>1. (~provider[ch].enabled) \in BOOLEAN
      OBVIOUS
    <3> QED
      BY <2>7, <2>11, <3>1, Zenon DEF ProviderToggle
  <2>12. ASSUME NEW a \in Admins, NEW ch \in Channels, ProviderUpdate(a, ch)
         PROVE  TypeOK'
    BY <2>7, <2>12, Zenon DEF ProviderUpdate
  <2> QED
    BY <1>20, <2>5, <2>6, <2>8, <2>9, <2>10, <2>11, <2>12 DEF Administration
<1>21. ASSUME UNCHANGED vars PROVE TypeOK'
  BY <1>21, <1>t DEF vars, TypeOK
<1> QED
  BY <1>1, <1>2, <1>3, <1>4, <1>5, <1>6, <1>7, <1>8, <1>9, <1>10, <1>11, <1>12, <1>13,
     <1>14, <1>15, <1>16, <1>18, <1>19, <1>20, <1>21 DEF Next, Device, Hook

-----------------------------------------------------------------------------
LEMMA SessionStep == IInv /\ [Next]_vars => SessionsExist'
<1> SUFFICES ASSUME IInv, [Next]_vars PROVE SessionsExist'
  OBVIOUS
<1>t. TypeOK /\ SessionsExist
  BY DEF IInv
<1> USE DEF SessionsExist
\* Steps that leave the orders, the sessions and the devices alone.
<1>q. ASSUME UNCHANGED <<status, sessions, create, query>> PROVE SessionsExist'
  BY <1>q, <1>t
<1>1. ASSUME NEW d \in Devices, NEW p \in Plans, NEW ch \in Channels, CreatePick(d, p, ch)
      PROVE  SessionsExist'
  BY <1>1, <1>t DEF CreatePick, TypeOK, channel
<1>2. ASSUME NEW d \in Devices, CreateReuse(d) PROVE SessionsExist'
  BY <1>2, <1>t DEF CreateReuse, Reusable, Proceed, TypeOK, channel
<1>3. ASSUME NEW d \in Devices, CreateMiss(d) PROVE SessionsExist'
  BY <1>3, <1>t DEF CreateMiss, Proceed, TypeOK, channel
<1>4. ASSUME NEW d \in Devices, CreateInsert(d) PROVE SessionsExist'
  BY <1>4, <1>t DEF CreateInsert, Proceed, TypeOK, channel
<1>5. ASSUME NEW d \in Devices, CreateCheckout(d) PROVE SessionsExist'
  BY <1>5, <1>t DEF CreateCheckout, NoCreate, TypeOK
<1>6. ASSUME NEW d \in Devices, CreateFail(d) PROVE SessionsExist'
  BY <1>6, <1>t DEF CreateFail, NoCreate, TypeOK, channel
<1>7. ASSUME NEW d \in Devices, NEW o \in OrderIds, QueryOverdue(d, o) PROVE SessionsExist'
  BY <1>7, <1>t DEF QueryOverdue, TypeOK, channel
<1>8. ASSUME NEW d \in Devices, QueryClose(d) PROVE SessionsExist'
  BY <1>8, <1>t DEF QueryClose, Closed, TypeOK, channel
<1>9. ASSUME NEW w \in Workers, Commit(w) PROVE SessionsExist'
  BY <1>9, <1>t DEF Commit, TypeOK, channel
<1>10. ASSUME NEW w \in Workers, Hook(w) PROVE SessionsExist'
  BY <1>10, <1>9, <1>q DEF Hook, HookAckPaid, HookLoad, HookClaim, HookClaimed, HookReadUser,
     HookExtend, HookCommit, HookCommitUnanswered, HookAbort, channel
<1>11. ASSUME Administration PROVE SessionsExist'
  BY <1>11, <1>q DEF Administration, ChangePrices, ProviderCreate, ProviderToggle, ProviderUpdate,
     ProviderRead, ProviderWrite, ProviderDeleteCheck, ProviderDelete, channel
<1>12. ASSUME NEW o \in OrderIds, NEW slip \in Slips, Pay(o, slip) PROVE SessionsExist'
  BY <1>12, <1>q DEF Pay
<1>13. ASSUME Tick \/ UNCHANGED vars PROVE SessionsExist'
  BY <1>13, <1>q DEF Tick, vars, channel
<1> HIDE DEF SessionsExist
<1> QED
  BY <1>1, <1>2, <1>3, <1>4, <1>5, <1>6, <1>7, <1>8, <1>10, <1>11, <1>12, <1>13 DEF Next, Device

-----------------------------------------------------------------------------
LEMMA CoreStep == IInv /\ [Next]_vars => Core'
<1> SUFFICES ASSUME IInv, [Next]_vars PROVE Core'
  OBVIOUS
<1>t. /\ TypeOK /\ SessionsExist
      /\ RowsExist /\ ChargesMatch /\ EventsHold /\ ClaimHolds /\ OneClaim
      /\ PaidIffGranted /\ NoUnpaidGrant /\ AckedIsPaid /\ GrantHonoursSale
  BY DEF IInv, Core
<1>e. \A c \in charges : c.order \in OrderIds /\ order[c.order] \in Order /\ status[c.order] # "none"
  BY <1>t DEF TypeOK, Event, ChargesMatch, RowsExist
<1>h. \A w \in Workers : hook[w].at # "idle" => hook[w].event \in charges
  BY <1>t DEF EventsHold, Covering
\* Steps that do not touch orders, charges and settlements.
<1>q. ASSUME UNCHANGED <<order, status, charges, grant, acked, hook>> PROVE Core'
  BY <1>q, <1>t DEF Core, RowsExist, ChargesMatch, EventsHold, ClaimHolds, OneClaim,
     PaidIffGranted, NoUnpaidGrant, AckedIsPaid, GrantHonoursSale, Covering
\* Steps of a single worker that settle nothing.
<1>w. ASSUME NEW w \in Workers, UNCHANGED <<order, status, charges, grant>>,
             \A v \in Workers : v # w => hook'[v] = hook[v],
             hook'[w].at = "idle" \/
               /\ hook'[w].event = hook[w].event
               /\ hook'[w].days = hook[w].days
               /\ hook[w].at # "idle"
               /\ hook'[w].at \in Claimed
               /\ hook'[w].at = "extended" => hook'[w].end >= hook'[w].stamp + hook'[w].days
               /\ hook[w].at \notin Claimed =>
                     /\ status[hook[w].event.order] \in Settleable
                     /\ ~OrderLocked(hook[w].event.order),
             AckedIsPaid'
      PROVE  Core'
  <2>1. RowsExist' /\ ChargesMatch' /\ PaidIffGranted' /\ NoUnpaidGrant' /\ GrantHonoursSale'
    BY <1>w, <1>t DEF RowsExist, ChargesMatch, PaidIffGranted, NoUnpaidGrant, GrantHonoursSale, Covering
  <2>2. Covering' = Covering
    BY <1>w DEF Covering
  <2>3. EventsHold'
    BY <1>w, <1>t, <2>2 DEF EventsHold
  <2>4. ClaimHolds'
    BY <1>w, <1>t DEF ClaimHolds, Claimed, Settleable
  <2>5. OneClaim'
    BY <1>w, <1>t DEF OneClaim, Claimed, OrderLocked, LocksOrder
  <2> QED
    BY <1>w, <2>1, <2>3, <2>4, <2>5 DEF Core
<1>1. ASSUME NEW d \in Devices, CreateInsert(d) PROVE Core'
  <2>1. PICK o \in OrderIds :
          /\ status[o] = "none"
          /\ order' = [order EXCEPT ![o] = NewOrder(d)]
          /\ status' = [status EXCEPT ![o] = "pending"]
    BY <1>1 DEF CreateInsert
  <2>2. UNCHANGED <<charges, grant, acked, hook>>
    BY <1>1 DEF CreateInsert, channel, settlement
  <2>3. \A x \in OrderIds : x # o => order'[x] = order[x] /\ status'[x] = status[x]
    BY <2>1, <1>t DEF TypeOK
  <2>4. order'[o] \in Order /\ status'[o] = "pending"
    <3>1. NewOrder(d) \in Order
      BY <1>1, <1>t, PaymentAssumption
      DEF NewOrder, Order, SessionsExist, CreateInsert, TypeOK, CreateCall
    <3> QED
      BY <2>1, <3>1, <1>t DEF TypeOK
  <2>5. \A c \in charges : order'[c.order] = order[c.order] /\ status'[c.order] = status[c.order]
    BY <1>e, <2>1, <2>3
  <2>6. Covering' = Covering
    BY <2>2, <2>5 DEF Covering
  <2>7. RowsExist' /\ ChargesMatch'
    BY <1>t, <2>2, <2>3, <2>4, <2>5 DEF RowsExist, ChargesMatch
  <2>8. EventsHold'
    BY <1>t, <1>h, <2>2, <2>5, <2>6 DEF EventsHold
  <2>9. ClaimHolds' /\ OneClaim'
    BY <1>t, <1>h, <2>2, <2>5 DEF ClaimHolds, OneClaim, Claimed
  <2>10. PaidIffGranted' /\ AckedIsPaid'
    BY <1>t, <2>1, <2>2, <2>3, <2>4, <2>5 DEF PaidIffGranted, AckedIsPaid
  <2>11. NoUnpaidGrant' /\ GrantHonoursSale'
    BY <1>t, <2>2, <2>3, <2>4, <2>6 DEF NoUnpaidGrant, GrantHonoursSale
  <2> QED
    BY <2>7, <2>8, <2>9, <2>10, <2>11 DEF Core
<1>2. ASSUME NEW d \in Devices, QueryClose(d) PROVE Core'
  <2>1. query[d] \in OrderIds
    BY <1>2, <1>t DEF QueryClose, TypeOK, OrderIds
  <2>2. UNCHANGED <<order, charges, grant, acked, hook>>
    BY <1>2 DEF QueryClose, channel, settlement
  <2>3. \A x \in OrderIds : status'[x] = status[x] \/ (status[x] = "pending" /\ status'[x] = "closed")
    BY <1>2, <2>1, <1>t DEF QueryClose, Closed, TypeOK
  <2>4. Covering' = Covering
    BY <2>2 DEF Covering
  <2>5. RowsExist' /\ ChargesMatch' /\ PaidIffGranted' /\ NoUnpaidGrant' /\ GrantHonoursSale'
    BY <1>t, <1>e, <2>2, <2>3, <2>4
    DEF RowsExist, ChargesMatch, PaidIffGranted, NoUnpaidGrant, GrantHonoursSale
  <2>6. EventsHold' /\ OneClaim'
    BY <1>t, <2>2, <2>4 DEF EventsHold, OneClaim
  <2>7. ClaimHolds' /\ AckedIsPaid'
    BY <1>t, <1>e, <1>h, <2>2, <2>3 DEF ClaimHolds, AckedIsPaid, Settleable, Claimed
  <2> QED
    BY <2>5, <2>6, <2>7 DEF Core
<1>3. ASSUME NEW o \in OrderIds, NEW slip \in Slips, Pay(o, slip) PROVE Core'
  <2>1. UNCHANGED <<order, status, grant, acked, hook>> /\ charges \subseteq charges'
    BY <1>3 DEF Pay, settlement
  <2>2. \A c \in charges' : c \in charges \/ (c.order = o /\ c.chan = order[o].chan)
    BY <1>3 DEF Pay
  <2>3. status[o] # "none"
    BY <1>3, <1>t DEF Pay, SessionsExist
  <2>4. Covering \subseteq Covering'
    BY <2>1 DEF Covering
  <2>5. ChargesMatch' /\ RowsExist' /\ PaidIffGranted' /\ GrantHonoursSale'
    BY <1>t, <2>1, <2>2, <2>3 DEF ChargesMatch, RowsExist, PaidIffGranted, GrantHonoursSale
  <2>6. EventsHold' /\ ClaimHolds' /\ OneClaim'
    BY <1>t, <2>1, <2>4 DEF EventsHold, ClaimHolds, OneClaim
  <2>7. NoUnpaidGrant' /\ AckedIsPaid'
    BY <1>t, <2>1, <2>4 DEF NoUnpaidGrant, AckedIsPaid
  <2> QED
    BY <2>5, <2>6, <2>7 DEF Core
<1>4. ASSUME NEW w \in Workers, NEW c \in charges, HookAckPaid(w, c) PROVE Core'
  <2>1. UNCHANGED <<order, status, charges, grant, hook>>
    BY <1>4 DEF HookAckPaid, channel
  <2>2. AckedIsPaid'
    BY <1>4, <1>t, <2>1 DEF HookAckPaid, AckedIsPaid
  <2>3. Covering' = Covering
    BY <2>1 DEF Covering
  <2> QED
    BY <1>t, <2>1, <2>2, <2>3 DEF Core, RowsExist, ChargesMatch, EventsHold, ClaimHolds, OneClaim,
       PaidIffGranted, NoUnpaidGrant, GrantHonoursSale
<1>5. ASSUME NEW w \in Workers, NEW c \in charges, HookLoad(w, c) PROVE Core'
  <2>1. UNCHANGED <<order, status, charges, grant, acked>>
    BY <1>5 DEF HookLoad, channel
  <2>2. /\ hook'[w].at = "loaded" /\ hook'[w].event = c
        /\ \E l \in EffectivePlans : /\ hook'[w].days = CreditDays(l, c.order, c.amount)
                                     /\ CreditDays(l, c.order, c.amount) > 0
        /\ \A v \in Workers : v # w => hook'[v] = hook[v]
    BY <1>5, <1>t DEF HookLoad, TypeOK
  <2>3. c \in Covering
    BY <1>5, <1>e, <1>t DEF HookLoad, Accepts, AmountOK, Covering, TypeOK, Event, Order
  <2>4. /\ hook'[w].days > 0
        /\ order[c.order].plan # None => hook'[w].days = order[c.order].days
    BY <2>2 DEF CreditDays
  <2>5. Covering' = Covering
    BY <2>1 DEF Covering
  <2>6. EventsHold'
    BY <1>t, <2>1, <2>2, <2>3, <2>4, <2>5 DEF EventsHold
  <2>7. ClaimHolds' /\ OneClaim'
    BY <1>t, <2>1, <2>2 DEF ClaimHolds, OneClaim, Claimed
  <2> QED
    BY <1>t, <2>1, <2>5, <2>6, <2>7 DEF Core, RowsExist, ChargesMatch,
       PaidIffGranted, NoUnpaidGrant, AckedIsPaid, GrantHonoursSale
<1>6. ASSUME NEW w \in Workers, HookClaim(w) PROVE Core'
  BY <1>6, <1>w, <1>t DEF HookClaim, Continue, Claimed, TypeOK, channel, AckedIsPaid
<1>7. ASSUME NEW w \in Workers, HookClaimed(w) PROVE Core'
  <2>1. hook[w].event \in charges /\ status[hook[w].event.order] = "paid"
    BY <1>7, <1>h, <1>e, <1>t DEF HookClaimed, Settleable, TypeOK
  <2>2. AckedIsPaid'
    BY <1>7, <2>1, <1>t DEF HookClaimed, AckedIsPaid, channel
  <2> QED
    BY <1>7, <1>w, <1>t, <2>2 DEF HookClaimed, NoHook, TypeOK, channel
<1>8. ASSUME NEW w \in Workers, HookReadUser(w) PROVE Core'
  BY <1>8, <1>w, <1>t DEF HookReadUser, Continue, Claimed, TypeOK, channel, AckedIsPaid
<1>9. ASSUME NEW w \in Workers, HookExtend(w) PROVE Core'
  <2>1. hook[w].stamp \in Nat /\ hook[w].seen \in Nat /\ hook[w].days \in Nat
    BY <1>t DEF TypeOK, HookCall
  <2>2. CreditEnd(hook[w].stamp, hook[w].seen, hook[w].days) >= hook[w].stamp + hook[w].days
    BY <2>1, CreditEndBounds
  <2> QED
    BY <1>9, <1>w, <1>t, <2>2 DEF HookExtend, Continue, Claimed, TypeOK, channel, AckedIsPaid
<1>10. ASSUME NEW w \in Workers, Commit(w), acked' \subseteq acked \cup {hook[w].event} PROVE Core'
  <2> DEFINE o == hook[w].event.order
  <2>1. /\ hook[w].at = "extended" /\ hook[w].event \in charges /\ o \in OrderIds
        /\ hook[w].event \in Covering /\ status[o] \in Settleable
    BY <1>10, <1>t, <1>h, <1>e DEF Commit, EventsHold, ClaimHolds, Claimed
  <2>2. UNCHANGED <<order, charges>>
    BY <1>10 DEF Commit, channel
  <2>3. status'[o] = "paid" /\ \A x \in OrderIds : x # o => status'[x] = status[x]
    BY <1>10, <1>t, <2>1 DEF Commit, TypeOK
  <2>4. /\ grant'[o] = [user |-> order[o].user, start |-> hook[w].stamp,
                        end |-> hook[w].end, days |-> hook[w].days]
        /\ \A x \in OrderIds : x # o => grant'[x] = grant[x]
    BY <1>10, <1>t, <2>1 DEF Commit, TypeOK
  <2>5. grant'[o] \in Grant
    <3>1. hook[w].stamp \in Nat /\ hook[w].end \in Nat /\ hook[w].days \in Nat
      BY <1>t DEF TypeOK, HookCall
    <3>2. order[o].user \in Users
      BY <2>1, <1>e DEF Order
    <3> QED
      BY <2>4, <3>1, <3>2 DEF Grant
  <2>6. hook'[w].at = "idle" /\ \A v \in Workers : v # w => hook'[v] = hook[v]
    BY <1>10, <1>t DEF Commit, NoHook, TypeOK
  <2>7. Covering' = Covering
    BY <2>2 DEF Covering
  <2>8. RowsExist' /\ ChargesMatch'
    BY <1>t, <1>e, <2>1, <2>2, <2>3 DEF RowsExist, ChargesMatch, Settleable
  <2>9. EventsHold'
    BY <1>t, <2>2, <2>6, <2>7 DEF EventsHold
  <2>10. ClaimHolds'
    <3>1. \A v \in Workers : v # w /\ hook[v].at \in Claimed =>
             hook[v].event.order \in OrderIds /\ hook[v].event.order # o
      BY <1>t, <1>h, <1>e, <2>1 DEF OneClaim, Claimed
    <3> QED
      BY <1>t, <2>3, <2>6, <3>1 DEF ClaimHolds, Claimed
  <2>11. OneClaim'
    BY <1>t, <2>6 DEF OneClaim, Claimed
  <2>12. PaidIffGranted'
    BY <1>t, <2>1, <2>3, <2>4, <2>5, PaymentAssumption DEF PaidIffGranted
  <2>13. NoUnpaidGrant'
    BY <1>t, <2>1, <2>2, <2>3, <2>7 DEF NoUnpaidGrant, ChargesMatch, Covering
  <2>14. AckedIsPaid'
    BY <1>10, <1>t, <1>e, <2>1, <2>2, <2>3 DEF AckedIsPaid
  <2>15. GrantHonoursSale'
    BY <1>t, <2>1, <2>2, <2>3, <2>4 DEF GrantHonoursSale, EventsHold
  <2> QED
    BY <2>8, <2>9, <2>10, <2>11, <2>12, <2>13, <2>14, <2>15 DEF Core
<1>11. ASSUME NEW w \in Workers, HookCommit(w) \/ HookCommitUnanswered(w) PROVE Core'
  BY <1>10, <1>11 DEF HookCommit, HookCommitUnanswered
<1>12. ASSUME NEW w \in Workers, HookAbort(w) PROVE Core'
  BY <1>12, <1>w, <1>t DEF HookAbort, NoHook, TypeOK, channel, AckedIsPaid
<1>13. ASSUME NEW d \in Devices, Device(d) PROVE Core'
  BY <1>13, <1>1, <1>2, <1>q DEF Device, CreatePick, CreateReuse, CreateMiss, CreateCheckout,
     CreateFail, QueryOverdue, channel, settlement
<1>14. ASSUME Administration PROVE Core'
  BY <1>14, <1>q DEF Administration, ChangePrices, ProviderCreate, ProviderToggle, ProviderUpdate,
     ProviderRead, ProviderWrite, ProviderDeleteCheck, ProviderDelete, channel, settlement
<1>15. ASSUME Tick \/ UNCHANGED vars PROVE Core'
  BY <1>15, <1>q DEF Tick, vars, channel, settlement
<1> QED
  BY <1>3, <1>4, <1>5, <1>6, <1>7, <1>8, <1>9, <1>11, <1>12, <1>13, <1>14, <1>15 DEF Next, Hook

-----------------------------------------------------------------------------
LEMMA InitInv == Init => IInv
<1> SUFFICES ASSUME Init PROVE IInv
  OBVIOUS
<1> USE PaymentAssumption
<1>1. TypeOK
  <2>1. provider \in [Channels -> Row \cup {None}]
    BY DEF Init, Row
  <2>2. create \in [Devices -> CreateCall] /\ hook \in [Workers -> HookCall]
        /\ admin \in [Admins -> AdminCall]
    BY RestingCalls DEF Init
  <2>3. status \in [OrderIds -> {"none", "pending", "paid", "closed"}]
    BY DEF Init
  <2>4. vip \in [Users -> Nat] /\ query \in [Devices -> 0..MaxOrders] /\ sessions \subseteq OrderIds
    BY DEF Init
  <2>5. order \in [OrderIds -> Order \cup {None}] /\ grant \in [OrderIds -> Grant \cup {None}]
    BY DEF Init
  <2>6. now \in 0..MaxNow /\ offer \in Lists /\ rows \in Nat /\ faults \in Nat
        /\ charges \subseteq Event /\ acked \subseteq Event
    BY DEF Init
  <2> QED
    BY <2>1, <2>2, <2>3, <2>4, <2>5, <2>6 DEF TypeOK
<1>2. SessionsExist
  BY DEF Init, SessionsExist, NoCreate
<1>3. RowsExist /\ ChargesMatch /\ AckedIsPaid
  BY DEF Init, RowsExist, ChargesMatch, AckedIsPaid
<1>4. EventsHold /\ ClaimHolds /\ OneClaim
  BY DEF Init, EventsHold, ClaimHolds, OneClaim, Claimed, NoHook
<1>5. PaidIffGranted /\ NoUnpaidGrant /\ GrantHonoursSale
  BY DEF Init, PaidIffGranted, NoUnpaidGrant, GrantHonoursSale
<1> QED
  BY <1>1, <1>2, <1>3, <1>4, <1>5 DEF IInv, Core

LEMMA Invariance == Spec => []IInv
<1>1. IInv /\ [Next]_vars => IInv'
  BY TypeStep, SessionStep, CoreStep DEF IInv
<1> QED
  BY InitInv, <1>1, PTL DEF Spec

-----------------------------------------------------------------------------
\* Type correctness of the payment subsystem: its four tables, the channel and
\* the handlers in flight.
THEOREM TypeCorrect == Spec => []TypeOK
<1>1. IInv => TypeOK
  BY DEF IInv
<1> QED
  BY Invariance, <1>1, PTL

\* settle() is all or nothing: whatever statement fails and whatever callbacks
\* overlap, an order is paid exactly when its membership row exists.
THEOREM SettlementAtomic == Spec => []PaidIffGranted
<1>1. IInv => PaidIffGranted
  BY DEF IInv, Core
<1> QED
  BY Invariance, <1>1, PTL

\* Webhook and settle() never grant a membership that nobody paid for.
THEOREM GrantsArePaid == Spec => []NoUnpaidGrant
<1>1. IInv => NoUnpaidGrant
  BY DEF IInv, Core
<1> QED
  BY Invariance, <1>1, PTL

\* Webhook answers "success" only once the order is paid.
THEOREM AcksAreSettled == Spec => []AckedIsPaid
<1>1. IInv => AckedIsPaid
  BY DEF IInv, Core
<1> QED
  BY Invariance, <1>1, PTL

\* The days an order was sold with are the days that Webhook credits, whatever
\* administrators did to the price list in between.
THEOREM SalesAreHonoured == Spec => []GrantHonoursSale
<1>1. IInv => GrantHonoursSale
  BY DEF IInv, Core
<1> QED
  BY Invariance, <1>1, PTL

-----------------------------------------------------------------------------
(* What a step may do to orders, charges and grants: nothing, except for the *)
(* insertion of an order, a payment and a commit.                            *)

\* The orders, charges, grants and memberships are as they were.
Quiet == UNCHANGED <<order, status, charges, grant, vip>>

LEMMA StepKinds ==
    [Next]_vars =>
      \/ Quiet
      \/ \E d \in Devices : CreateInsert(d) \/ QueryClose(d)
      \/ \E o \in OrderIds, slip \in Slips : Pay(o, slip)
      \/ \E w \in Workers : Commit(w)
<1> SUFFICES ASSUME [Next]_vars
             PROVE  \/ Quiet
                    \/ \E d \in Devices : CreateInsert(d) \/ QueryClose(d)
                    \/ \E o \in OrderIds, slip \in Slips : Pay(o, slip)
                    \/ \E w \in Workers : Commit(w)
  OBVIOUS
<1>1. ASSUME Tick \/ UNCHANGED vars PROVE Quiet
  BY <1>1 DEF Tick, vars, Quiet, channel, settlement
<1>2. ASSUME NEW d \in Devices, Device(d) PROVE Quiet \/ CreateInsert(d) \/ QueryClose(d)
  BY <1>2 DEF Device, Quiet, CreatePick, CreateReuse, CreateMiss, CreateCheckout, CreateFail,
     QueryOverdue, channel, settlement
<1>3. ASSUME NEW w \in Workers, Hook(w) PROVE Quiet \/ Commit(w)
  BY <1>3 DEF Hook, Quiet, HookAckPaid, HookLoad, HookClaim, HookClaimed, HookReadUser, HookExtend,
     HookCommit, HookCommitUnanswered, HookAbort, channel
<1>4. ASSUME Administration PROVE Quiet
  BY <1>4 DEF Quiet, Administration, ChangePrices, ProviderCreate, ProviderToggle, ProviderUpdate,
     ProviderRead, ProviderWrite, ProviderDeleteCheck, ProviderDelete, channel, settlement
<1> QED
  BY <1>1, <1>2, <1>3, <1>4 DEF Next

\* A late GetOrder, a repeated callback or a concurrent settlement never takes
\* back a payment, nor rewrites the membership row that came with it.
THEOREM PaymentsAreFinal == Spec => PaidIsFinal
<1> DEFINE Final == \A o \in OrderIds : status[o] = "paid" =>
                      status'[o] = "paid" /\ grant'[o] = grant[o]
<1>1. IInv /\ [Next]_vars => Final
  <2> SUFFICES ASSUME IInv, [Next]_vars, NEW o \in OrderIds, status[o] = "paid"
               PROVE  status'[o] = "paid" /\ grant'[o] = grant[o]
    OBVIOUS
  <2>t. TypeOK /\ PaidIffGranted
    BY DEF IInv, Core
  <2>1. CASE Quiet
    BY <2>1 DEF Quiet
  <2>2. ASSUME NEW d \in Devices, CreateInsert(d) \/ QueryClose(d)
        PROVE  status'[o] = "paid" /\ grant'[o] = grant[o]
    <3>1. grant' = grant
      BY <2>2 DEF CreateInsert, QueryClose, settlement
    <3>2. status'[o] = "paid"
      BY <2>2, <2>t DEF CreateInsert, QueryClose, Closed, TypeOK
    <3> QED
      BY <3>1, <3>2
  <2>3. ASSUME NEW x \in OrderIds, NEW slip \in Slips, Pay(x, slip)
        PROVE  status'[o] = "paid" /\ grant'[o] = grant[o]
    BY <2>3 DEF Pay, settlement
  <2>4. ASSUME NEW w \in Workers, Commit(w)
        PROVE  status'[o] = "paid" /\ grant'[o] = grant[o]
    <3>1. hook[w].event.order # o
      BY <2>4, <2>t DEF Commit, PaidIffGranted
    <3> QED
      BY <2>4, <2>t, <3>1 DEF Commit, TypeOK
  <2> QED
    BY StepKinds, <2>1, <2>2, <2>3, <2>4
<1>2. IInv /\ [Next]_vars => [Final]_vars
  BY <1>1
<1> QED
  BY Invariance, <1>2, PTL DEF Spec, PaidIsFinal

-----------------------------------------------------------------------------
(* The refinement. *)

LEMMA LedgerInit == Init => Ledger!Init
<1> SUFFICES ASSUME Init PROVE Ledger!Init
  OBVIOUS
<1>1. Covering = {}
  BY DEF Init, Covering
<1>2. {c.order : c \in Covering} = {}
  BY <1>1
<1> QED
  BY <1>2 DEF Init, Ledger!Init

LEMMA LedgerStep == IInv /\ [Next]_vars => [Ledger!Next]_(Ledger!ledger)
<1> SUFFICES ASSUME IInv, [Next]_vars PROVE [Ledger!Next]_(Ledger!ledger)
  OBVIOUS
<1>t. TypeOK /\ SessionsExist /\ RowsExist /\ ChargesMatch /\ EventsHold /\ PaidIffGranted
  BY DEF IInv, Core
<1>e. \A c \in charges : c.order \in OrderIds /\ order[c.order] \in Order /\ status[c.order] # "none"
  BY <1>t DEF TypeOK, Event, ChargesMatch, RowsExist
<1>s. ASSUME UNCHANGED <<grant, vip>>, Covering' = Covering PROVE UNCHANGED Ledger!ledger
  BY <1>s DEF Ledger!ledger
<1>1. CASE Quiet
  BY <1>1, <1>s DEF Quiet, Covering
<1>2. ASSUME NEW d \in Devices, CreateInsert(d) PROVE UNCHANGED Ledger!ledger
  <2>1. UNCHANGED <<charges, grant, vip>>
    BY <1>2 DEF CreateInsert, channel, settlement
  <2>2. \A c \in charges : order'[c.order] = order[c.order]
    BY <1>2, <1>e, <1>t DEF CreateInsert, TypeOK
  <2>3. Covering' = Covering
    BY <2>1, <2>2 DEF Covering
  <2> QED
    BY <2>1, <2>3, <1>s
<1>3. ASSUME NEW d \in Devices, QueryClose(d) PROVE UNCHANGED Ledger!ledger
  BY <1>3, <1>s DEF QueryClose, Covering, channel, settlement
<1>4. ASSUME NEW o \in OrderIds, NEW slip \in Slips, Pay(o, slip)
      PROVE  [Ledger!Next]_(Ledger!ledger)
  <2> DEFINE new == [order |-> o, chan |-> order[o].chan, amount |-> order[o].amount + slip]
  <2>1. UNCHANGED <<order, grant, vip>> /\ charges' = charges \cup {new}
    BY <1>4 DEF Pay, settlement
  <2>2. new.order = o
    OBVIOUS
  <2> HIDE DEF new
  <2>3. Covering' = Covering \/ Covering' = Covering \cup {new}
    BY <2>1 DEF Covering
  <2>4. CASE Covering' = Covering
    BY <2>1, <2>4, <1>s
  <2>5. CASE Covering' = Covering \cup {new}
    <3>1. {c.order : c \in Covering}' = {c.order : c \in Covering} \cup {o}
      BY <2>2, <2>5
    <3>2. CASE o \notin {c.order : c \in Covering}
      BY <2>1, <3>1, <3>2 DEF Ledger!Charge, Ledger!Next
    <3>3. CASE o \in {c.order : c \in Covering}
      <4>1. {c.order : c \in Covering}' = {c.order : c \in Covering}
        BY <3>1, <3>3
      <4> QED
        BY <2>1, <4>1 DEF Ledger!ledger
    <3> QED
      BY <3>2, <3>3
  <2> QED
    BY <2>3, <2>4, <2>5
<1>5. ASSUME NEW w \in Workers, Commit(w) PROVE Ledger!Next
  <2> DEFINE o == hook[w].event.order
             u == order[o].user
             t == hook[w].stamp
             n == hook[w].days
             e == hook[w].end
             g == [user |-> u, start |-> t, end |-> e, days |-> n]
  <2>1. hook[w].at = "extended" /\ hook[w].event \in Covering /\ e >= t + n
    BY <1>5, <1>t DEF Commit, EventsHold
  <2>2. o \in OrderIds /\ u \in Users
    BY <2>1, <1>e DEF Covering, Order
  <2>3. /\ grant[o] = None
        /\ grant' = [grant EXCEPT ![o] = g]
        /\ vip' = [vip EXCEPT ![u] = e]
        /\ UNCHANGED <<order, charges>>
    BY <1>5 DEF Commit, channel
  <2>4. Covering' = Covering
    BY <2>3 DEF Covering
  <2>5. o \in {c.order : c \in Covering}
    BY <2>1
  <2>6. grant'[o] = g
    BY <2>2, <2>3, <1>t DEF TypeOK
  <2>7. g \in Grant
    <3>1. t \in Nat /\ e \in Nat /\ n \in Nat
      BY <1>t DEF TypeOK, HookCall
    <3> QED
      BY <2>2, <3>1 DEF Grant
  <2>8. grant'[o] # None
    BY <2>6, <2>7, PaymentAssumption
  <2>9. grant'[o].start = t /\ grant'[o].days = n /\ grant'[o].end = e
    BY <2>6
  <2> HIDE DEF o, u, t, n, e
  <2>10. Ledger!Settle(o, u, t, n, e)
    BY <2>1, <2>3, <2>4, <2>5 DEF Ledger!Settle
  <2> QED
    BY <2>2, <2>8, <2>9, <2>10 DEF Ledger!Next
<1> QED
  BY StepKinds, <1>1, <1>2, <1>3, <1>4, <1>5

\* The payment subsystem keeps the ledger's promise: money first, one grant per
\* order for good, and never fewer days than were sold.
THEOREM KeepsLedger == Spec => LedgerSpec
  BY Invariance, LedgerInit, LedgerStep, PTL DEF Spec, LedgerSpec, Ledger!Spec

-----------------------------------------------------------------------------
(* Prices.  A device carries a price and days of one list, fixed when it     *)
(* picked the plan; a worker carries, for an order without a plan, the days  *)
(* of the plan that costs exactly what was paid.                             *)

QuotesHold ==
    \A d \in Devices : create[d].at # "idle" =>
        \E l \in Offers : l[create[d].plan] = [amount |-> create[d].amount, days |-> create[d].days]

IsPrice(cents, days) ==
    \E l \in Offers, p \in Plans : l[p].amount = cents /\ l[p].days = days

LegacyPriced ==
    \A w \in Workers : hook[w].at # "idle" /\ order[hook[w].event.order].plan = None =>
        IsPrice(hook[w].event.amount, hook[w].days)

Pricing == QuotesHold /\ SoldFromOneList /\ LegacyPriced /\ LegacyGrantIsPriced

LEMMA QuotesStep == IInv /\ QuotesHold /\ [Next]_vars => QuotesHold'
<1> SUFFICES ASSUME IInv, QuotesHold, [Next]_vars PROVE QuotesHold'
  OBVIOUS
<1>t. TypeOK /\ SessionsExist
  BY DEF IInv
<1>q. ASSUME UNCHANGED create PROVE QuotesHold'
  BY <1>q DEF QuotesHold, Offers, Lists
<1>d. ASSUME NEW d \in Devices, \A e \in Devices : e # d => create'[e] = create[e],
             \/ create'[d].at = "idle"
             \/ \E l \in Offers :
                   l[create'[d].plan] = [amount |-> create'[d].amount, days |-> create'[d].days]
      PROVE  QuotesHold'
  BY <1>d DEF QuotesHold, Offers, Lists
<1>1. ASSUME NEW d \in Devices, NEW p \in Plans, NEW ch \in Channels, CreatePick(d, p, ch)
      PROVE  QuotesHold'
  <2>0. PICK l \in EffectivePlans :
          create' = [create EXCEPT ![d] =
            [at |-> "picked", plan |-> p, chan |-> ch, amount |-> l[p].amount,
             days |-> l[p].days, order |-> 0]]
    BY <1>1 DEF CreatePick
  <2>1. /\ create'[d].plan = p /\ create'[d].amount = l[p].amount
        /\ create'[d].days = l[p].days
        /\ \A e \in Devices : e # d => create'[e] = create[e]
    BY <2>0, <1>t DEF TypeOK
  <2>2. l \in Offers /\ l[p] = [amount |-> l[p].amount, days |-> l[p].days]
    BY <1>t, EffectiveOffers, OffersType DEF Offer
  <2> QED
    BY <1>d, <2>1, <2>2
<1>2. ASSUME NEW d \in Devices, NEW step, NEW o, create[d].at # "idle",
             create' = [create EXCEPT ![d] = Proceed(d, step, o)]
      PROVE  QuotesHold'
  <2>1. /\ create'[d].plan = create[d].plan /\ create'[d].amount = create[d].amount
        /\ create'[d].days = create[d].days
        /\ \A e \in Devices : e # d => create'[e] = create[e]
    BY <1>2, <1>t DEF Proceed, TypeOK
  <2> QED
    BY <1>2, <1>d, <2>1 DEF QuotesHold
<1>3. ASSUME NEW d \in Devices, CreateReuse(d) PROVE QuotesHold'
  BY <1>3, <1>2 DEF CreateReuse
<1>4. ASSUME NEW d \in Devices, CreateMiss(d) PROVE QuotesHold'
  BY <1>4, <1>2 DEF CreateMiss
<1>5. ASSUME NEW d \in Devices, CreateInsert(d) PROVE QuotesHold'
  BY <1>5, <1>2 DEF CreateInsert
<1>6. ASSUME NEW d \in Devices, CreateCheckout(d) \/ CreateFail(d) PROVE QuotesHold'
  <2>1. create'[d].at = "idle" /\ \A e \in Devices : e # d => create'[e] = create[e]
    BY <1>6, <1>t DEF CreateCheckout, CreateFail, NoCreate, TypeOK
  <2> QED
    BY <1>d, <2>1
<1>7. ASSUME NEW d \in Devices, QueryClose(d) \/ \E o \in OrderIds : QueryOverdue(d, o)
      PROVE  QuotesHold'
  BY <1>7, <1>q DEF QueryClose, QueryOverdue
<1>8. ASSUME Tick \/ Administration \/ (\E o \in OrderIds, slip \in Slips : Pay(o, slip))
               \/ UNCHANGED vars
      PROVE  QuotesHold'
  BY <1>8, <1>q DEF Tick, Pay, vars, Administration, ChangePrices, ProviderCreate, ProviderToggle,
     ProviderUpdate, ProviderRead, ProviderWrite, ProviderDeleteCheck, ProviderDelete
<1>9. ASSUME NEW w \in Workers, Hook(w) PROVE QuotesHold'
  BY <1>9, <1>q DEF Hook, HookAckPaid, HookLoad, HookClaim, HookClaimed, HookReadUser, HookExtend,
     HookCommit, HookCommitUnanswered, HookAbort, Commit
<1> QED
  BY <1>1, <1>3, <1>4, <1>5, <1>6, <1>7, <1>8, <1>9 DEF Next, Device

\* The statements of a settlement leave what the worker carries alone.
LEMMA WorkerSteps ==
    ASSUME IInv, NEW w \in Workers, Hook(w)
    PROVE  \A v \in Workers :
             \/ hook'[v].at = "idle"
             \/ /\ hook[v].at # "idle"
                /\ hook'[v].event = hook[v].event /\ hook'[v].days = hook[v].days
             \/ \E c \in charges : v = w /\ HookLoad(w, c)
<1>t. TypeOK
  BY DEF IInv
<1>1. ASSUME NEW v \in Workers, v # w PROVE hook'[v] = hook[v]
  BY <1>1, <1>t DEF Hook, HookAckPaid, HookLoad, HookClaim, HookClaimed, HookReadUser, HookExtend,
     HookCommit, HookCommitUnanswered, HookAbort, Commit, TypeOK
<1>2. CASE \E c \in charges : HookAckPaid(w, c)
  BY <1>1, <1>2 DEF HookAckPaid
<1>3. CASE HookClaim(w) \/ HookReadUser(w) \/ HookExtend(w)
  <2>1. /\ hook[w].at # "idle"
        /\ hook'[w].event = hook[w].event /\ hook'[w].days = hook[w].days
    BY <1>3, <1>t DEF HookClaim, HookReadUser, HookExtend, Continue, TypeOK
  <2> QED
    BY <1>1, <2>1
<1>4. CASE HookClaimed(w) \/ HookCommit(w) \/ HookCommitUnanswered(w) \/ HookAbort(w)
  <2>1. hook'[w].at = "idle"
    BY <1>4, <1>t DEF HookClaimed, HookCommit, HookCommitUnanswered, HookAbort, Commit, NoHook, TypeOK
  <2> QED
    BY <1>1, <2>1
<1>5. CASE \E c \in charges : HookLoad(w, c)
  BY <1>1, <1>5
<1> QED
  BY <1>2, <1>3, <1>4, <1>5 DEF Hook

LEMMA LegacyStep == IInv /\ LegacyPriced /\ [Next]_vars => LegacyPriced'
<1> SUFFICES ASSUME IInv, LegacyPriced, [Next]_vars PROVE LegacyPriced'
  OBVIOUS
<1>t. TypeOK /\ SessionsExist /\ RowsExist /\ ChargesMatch /\ EventsHold
  BY DEF IInv, Core
<1>q. ASSUME UNCHANGED <<order, hook>> PROVE LegacyPriced'
  BY <1>q DEF LegacyPriced, IsPrice, Offers, Lists
<1>1. ASSUME NEW d \in Devices, CreateInsert(d) PROVE LegacyPriced'
  <2>1. UNCHANGED hook
    BY <1>1 DEF CreateInsert, settlement
  <2>2. \A v \in Workers : hook[v].at # "idle" =>
          /\ hook[v].event.order \in OrderIds
          /\ status[hook[v].event.order] # "none"
    BY <1>t DEF EventsHold, Covering, ChargesMatch, TypeOK, Event
  <2>3. \A v \in Workers : hook[v].at # "idle" =>
          order'[hook[v].event.order] = order[hook[v].event.order]
    BY <1>1, <1>t, <2>2 DEF CreateInsert, TypeOK
  <2> QED
    BY <2>1, <2>3 DEF LegacyPriced, IsPrice, Offers, Lists
<1>2. ASSUME NEW w \in Workers, Hook(w) PROVE LegacyPriced'
  <2>1. UNCHANGED order
    BY <1>2 DEF Hook, HookAckPaid, HookLoad, HookClaim, HookClaimed, HookReadUser, HookExtend,
       HookCommit, HookCommitUnanswered, HookAbort, Commit
  <2>2. ASSUME NEW c \in charges, HookLoad(w, c), order[c.order].plan = None
        PROVE  IsPrice(hook'[w].event.amount, hook'[w].days)
    <3>1. PICK l \in EffectivePlans :
            /\ hook'[w].event = c
            /\ hook'[w].days = CreditDays(l, c.order, c.amount) /\ hook'[w].days > 0
      BY <2>2, <1>t DEF HookLoad, TypeOK
    <3> DEFINE p == PlanFor(l, c.amount)
    <3>2. p # None /\ hook'[w].days = l[p].days
      BY <2>2, <3>1 DEF CreditDays
    <3>3. l \in Offers /\ DOMAIN l = Plans
      BY <1>t, EffectiveOffers, OffersType
    <3>4. p \in Plans /\ l[p].amount = c.amount
      BY <3>2, <3>3 DEF PlanFor
    <3> QED
      BY <3>1, <3>2, <3>3, <3>4 DEF IsPrice
  <2>3. \A v \in Workers : hook'[v].at # "idle" /\ order[hook'[v].event.order].plan = None =>
          IsPrice(hook'[v].event.amount, hook'[v].days)
    <3> SUFFICES ASSUME NEW v \in Workers, hook'[v].at # "idle",
                        order[hook'[v].event.order].plan = None
                 PROVE  IsPrice(hook'[v].event.amount, hook'[v].days)
      OBVIOUS
    <3>1. CASE /\ hook[v].at # "idle"
               /\ hook'[v].event = hook[v].event /\ hook'[v].days = hook[v].days
      BY <3>1 DEF LegacyPriced
    <3>2. ASSUME NEW c \in charges, v = w, HookLoad(w, c)
          PROVE  IsPrice(hook'[v].event.amount, hook'[v].days)
      <4>1. hook'[w].event = c
        BY <3>2, <1>t DEF HookLoad, TypeOK
      <4> QED
        BY <2>2, <3>2, <4>1
    <3> QED
      BY <1>2, WorkerSteps, <3>1, <3>2
  <2> QED
    BY <2>1, <2>3 DEF LegacyPriced, IsPrice, Offers, Lists
<1>3. ASSUME NEW d \in Devices, Device(d) PROVE LegacyPriced'
  BY <1>3, <1>1, <1>q DEF Device, CreatePick, CreateReuse, CreateMiss, CreateCheckout, CreateFail,
     QueryOverdue, QueryClose, settlement
<1>4. ASSUME Tick \/ Administration \/ (\E o \in OrderIds, slip \in Slips : Pay(o, slip))
               \/ UNCHANGED vars
      PROVE  LegacyPriced'
  BY <1>4, <1>q DEF Tick, Pay, vars, Administration, ChangePrices, ProviderCreate, ProviderToggle,
     ProviderUpdate, ProviderRead, ProviderWrite, ProviderDeleteCheck, ProviderDelete, settlement
<1> QED
  BY <1>2, <1>3, <1>4 DEF Next

LEMMA SoldStep ==
    IInv /\ QuotesHold /\ SoldFromOneList /\ [Next]_vars => SoldFromOneList'
<1> SUFFICES ASSUME IInv, QuotesHold, SoldFromOneList, [Next]_vars PROVE SoldFromOneList'
  OBVIOUS
<1>t. TypeOK
  BY DEF IInv
<1>q. ASSUME UNCHANGED order, \A o \in OrderIds : status'[o] # "none" => status[o] # "none"
      PROVE  SoldFromOneList'
  BY <1>q DEF SoldFromOneList, Offers, Lists
<1>1. CASE Quiet
  BY <1>1, <1>q DEF Quiet
<1>2. ASSUME NEW d \in Devices, CreateInsert(d) PROVE SoldFromOneList'
  <2>1. PICK o \in OrderIds :
          /\ order' = [order EXCEPT ![o] = NewOrder(d)]
          /\ status' = [status EXCEPT ![o] = "pending"]
    BY <1>2 DEF CreateInsert
  <2>2. order'[o] = NewOrder(d) /\ \A x \in OrderIds : x # o => order'[x] = order[x] /\ status'[x] = status[x]
    BY <2>1, <1>t DEF TypeOK
  <2>3. PICK l \in Offers :
          l[create[d].plan] = [amount |-> create[d].amount, days |-> create[d].days]
    BY <1>2 DEF QuotesHold, CreateInsert
  <2>4. l[order'[o].plan] = [amount |-> order'[o].amount, days |-> order'[o].days]
    BY <2>2, <2>3 DEF NewOrder
  <2> QED
    BY <2>2, <2>4 DEF SoldFromOneList, Offers, Lists
<1>3. ASSUME NEW d \in Devices, QueryClose(d) PROVE SoldFromOneList'
  BY <1>3, <1>q, <1>t DEF QueryClose, Closed, TypeOK
<1>4. ASSUME NEW o \in OrderIds, NEW slip \in Slips, Pay(o, slip) PROVE SoldFromOneList'
  BY <1>4, <1>q DEF Pay
<1>5. ASSUME NEW w \in Workers, Commit(w) PROVE SoldFromOneList'
  <2>1. status[hook[w].event.order] # "none"
    BY <1>5 DEF Commit, IInv, Core, EventsHold, Covering, ChargesMatch
  <2> QED
    BY <1>5, <1>q, <1>t, <2>1 DEF Commit, TypeOK
<1> QED
  BY StepKinds, <1>1, <1>2, <1>3, <1>4, <1>5

LEMMA LegacyGrantStep ==
    IInv /\ LegacyPriced /\ LegacyGrantIsPriced /\ [Next]_vars => LegacyGrantIsPriced'
<1> SUFFICES ASSUME IInv, LegacyPriced, LegacyGrantIsPriced, [Next]_vars
             PROVE  LegacyGrantIsPriced'
  OBVIOUS
<1>t. TypeOK /\ EventsHold /\ PaidIffGranted
  BY DEF IInv, Core
<1>q. ASSUME charges \subseteq charges',
             \A o \in OrderIds : status'[o] = "paid" =>
                /\ status[o] = "paid" /\ order'[o] = order[o] /\ grant'[o] = grant[o]
      PROVE  LegacyGrantIsPriced'
  <2> SUFFICES ASSUME NEW o \in OrderIds, status'[o] = "paid", order'[o].plan = None
               PROVE  \E c \in charges', l \in Offers, p \in Plans :
                        c.order = o /\ l[p].amount = c.amount /\ l[p].days = grant'[o].days
    BY DEF LegacyGrantIsPriced, Offers, Lists
  <2>1. PICK c \in charges, l \in Offers, p \in Plans :
          c.order = o /\ l[p].amount = c.amount /\ l[p].days = grant[o].days
    BY <1>q DEF LegacyGrantIsPriced
  <2> QED
    BY <1>q, <2>1
<1>1. CASE Quiet
  BY <1>1, <1>q DEF Quiet
<1>2. ASSUME NEW d \in Devices, CreateInsert(d) PROVE LegacyGrantIsPriced'
  BY <1>2, <1>q, <1>t DEF CreateInsert, TypeOK, channel, settlement
<1>3. ASSUME NEW d \in Devices, QueryClose(d) PROVE LegacyGrantIsPriced'
  BY <1>3, <1>q, <1>t DEF QueryClose, Closed, TypeOK, channel, settlement
<1>4. ASSUME NEW o \in OrderIds, NEW slip \in Slips, Pay(o, slip) PROVE LegacyGrantIsPriced'
  BY <1>4, <1>q DEF Pay, settlement
<1>5. ASSUME NEW w \in Workers, Commit(w) PROVE LegacyGrantIsPriced'
  <2> DEFINE o == hook[w].event.order
  <2>1. /\ hook[w].event \in charges /\ o \in OrderIds
        /\ order[o].plan = None => IsPrice(hook[w].event.amount, hook[w].days)
    BY <1>5, <1>t DEF Commit, EventsHold, Covering, TypeOK, Event, LegacyPriced
  <2>2. /\ grant'[o].days = hook[w].days
        /\ \A x \in OrderIds : x # o => status'[x] = status[x] /\ grant'[x] = grant[x]
        /\ UNCHANGED <<order, charges>>
    BY <1>5, <1>t, <2>1 DEF Commit, TypeOK, channel
  <2> HIDE DEF o
  <2>3. order[o].plan = None =>
          \E c \in charges, l \in Offers, p \in Plans :
            c.order = o /\ l[p].amount = c.amount /\ l[p].days = grant'[o].days
    BY <2>1, <2>2 DEF IsPrice, o
  <2> SUFFICES ASSUME NEW x \in OrderIds, status'[x] = "paid", order'[x].plan = None
               PROVE  \E c \in charges', l \in Offers, p \in Plans :
                        c.order = x /\ l[p].amount = c.amount /\ l[p].days = grant'[x].days
    BY DEF LegacyGrantIsPriced, Offers, Lists
  <2>4. CASE x = o
    BY <2>2, <2>3, <2>4
  <2>5. CASE x # o
    BY <2>2, <2>5 DEF LegacyGrantIsPriced
  <2> QED
    BY <2>4, <2>5
<1> QED
  BY StepKinds, <1>1, <1>2, <1>3, <1>4, <1>5

LEMMA PricingInit == Init => Pricing
<1> SUFFICES ASSUME Init PROVE Pricing
  OBVIOUS
<1>1. QuotesHold /\ LegacyPriced
  BY DEF Init, QuotesHold, LegacyPriced, NoCreate, NoHook
<1>2. SoldFromOneList /\ LegacyGrantIsPriced
  BY PaymentAssumption DEF Init, SoldFromOneList, LegacyGrantIsPriced
<1> QED
  BY <1>1, <1>2 DEF Pricing

LEMMA PricingInvariance == Spec => []Pricing
<1>1. IInv /\ Pricing /\ [Next]_vars => Pricing'
  BY QuotesStep, LegacyStep, SoldStep, LegacyGrantStep DEF Pricing
<1> QED
  BY Invariance, PricingInit, <1>1, PTL DEF Spec

\* CreateOrder reads the plan, looks for an order to reuse and inserts one in
\* three statements, and administrators rewrite the list in between; still an
\* order never combines the price of one list with the days of another.
THEOREM OrdersAreSoldFromOneList == Spec => []SoldFromOneList
<1>1. Pricing => SoldFromOneList
  BY DEF Pricing
<1> QED
  BY PricingInvariance, <1>1, PTL

\* Webhook settles an order that carries no plan only at a price some list has,
\* and for the days of that plan in that list.
THEOREM LegacyGrantsArePriced == Spec => []LegacyGrantIsPriced
<1>1. Pricing => LegacyGrantIsPriced
  BY DEF Pricing
<1> QED
  BY PricingInvariance, <1>1, PTL

-----------------------------------------------------------------------------
(* Reuse of pending orders. *)

\* One device per user, and no pending twins at the start.
OneDeviceEach == \A d, e \in Devices : Owner[d] = Owner[e] => d = e
LegacyApart ==
    \A o, x \in OrderIds :
        /\ LegacyOrders[o] # None /\ LegacyOrders[x] # None
        /\ LegacyOrders[o].user = LegacyOrders[x].user
        /\ LegacyOrders[o].chan = LegacyOrders[x].chan
        /\ LegacyOrders[o].amount = LegacyOrders[x].amount
        => o = x

\* A handler that is about to insert has found nothing to reuse, and nobody
\* has inserted such an order since.
MissesHold == \A d \in Devices : create[d].at = "insert" => Reusable(d) = {}

LEMMA MissesStep == OneDeviceEach /\ IInv /\ MissesHold /\ [Next]_vars => MissesHold'
<1> SUFFICES ASSUME OneDeviceEach, IInv, MissesHold, [Next]_vars PROVE MissesHold'
  OBVIOUS
<1>t. TypeOK /\ ClaimHolds /\ EventsHold
  BY DEF IInv, Core
\* No order becomes pending, and no device comes to insert.
<1>q. ASSUME UNCHANGED order, \A o \in OrderIds : status'[o] = "pending" => status[o] = "pending",
             \A d \in Devices : create'[d].at = "insert" => create'[d] = create[d]
      PROVE  MissesHold'
  BY <1>q DEF MissesHold, Reusable
<1>1. ASSUME NEW d \in Devices,
             \/ \E p \in Plans, ch \in Channels : CreatePick(d, p, ch)
             \/ CreateReuse(d) \/ CreateCheckout(d) \/ CreateFail(d)
      PROVE  MissesHold'
  <2>1. create'[d].at # "insert" /\ \A e \in Devices : e # d => create'[e] = create[e]
    BY <1>1, <1>t DEF CreatePick, CreateReuse, CreateCheckout, CreateFail, Proceed, NoCreate, TypeOK
  <2>2. UNCHANGED <<order, status>>
    BY <1>1 DEF CreatePick, CreateReuse, CreateCheckout, CreateFail
  <2> QED
    BY <1>q, <2>1, <2>2
<1>2. ASSUME NEW d \in Devices, CreateMiss(d) PROVE MissesHold'
  <2>1. /\ Reusable(d) = {}
        /\ create'[d].chan = create[d].chan /\ create'[d].plan = create[d].plan
        /\ create'[d].amount = create[d].amount
        /\ \A e \in Devices : e # d => create'[e] = create[e]
        /\ UNCHANGED <<order, status>>
    BY <1>2, <1>t DEF CreateMiss, Proceed, TypeOK
  <2> QED
    BY <2>1 DEF MissesHold, Reusable
<1>3. ASSUME NEW d \in Devices, CreateInsert(d) PROVE MissesHold'
  <2>1. PICK o \in OrderIds :
          /\ order' = [order EXCEPT ![o] = NewOrder(d)]
          /\ status' = [status EXCEPT ![o] = "pending"]
          /\ create' = [create EXCEPT ![d] = Proceed(d, "checkout", o)]
    BY <1>3 DEF CreateInsert
  <2>2. /\ order'[o].user = Owner[d]
        /\ create'[d].at # "insert"
        /\ \A e \in Devices : e # d => create'[e] = create[e]
        /\ \A x \in OrderIds : x # o => order'[x] = order[x] /\ status'[x] = status[x]
    BY <2>1, <1>t DEF NewOrder, Proceed, TypeOK
  <2>3. \A e \in Devices : e # d => Owner[e] # Owner[d]
    BY DEF OneDeviceEach
  <2>4. ASSUME NEW e \in Devices, create'[e].at = "insert" PROVE Reusable(e)' = {}
    <3>1. e # d /\ create'[e] = create[e] /\ Reusable(e) = {}
      BY <2>2, <2>4 DEF MissesHold
    <3> QED
      BY <2>2, <2>3, <3>1 DEF Reusable
  <2> QED
    BY <2>4 DEF MissesHold
<1>4. ASSUME NEW d \in Devices, QueryClose(d) \/ \E o \in OrderIds : QueryOverdue(d, o)
      PROVE  MissesHold'
  BY <1>4, <1>q, <1>t DEF QueryClose, QueryOverdue, Closed, TypeOK
<1>5. ASSUME NEW w \in Workers, Hook(w) PROVE MissesHold'
  <2>1. UNCHANGED <<order, create>>
    BY <1>5 DEF Hook, HookAckPaid, HookLoad, HookClaim, HookClaimed, HookReadUser, HookExtend,
       HookCommit, HookCommitUnanswered, HookAbort, Commit
  <2>2. \A o \in OrderIds : status'[o] = "pending" => status[o] = "pending"
    BY <1>5, <1>t DEF Hook, HookAckPaid, HookLoad, HookClaim, HookClaimed, HookReadUser, HookExtend,
       HookCommit, HookCommitUnanswered, HookAbort, Commit, TypeOK
  <2> QED
    BY <1>q, <2>1, <2>2
<1>6. ASSUME Tick \/ Administration \/ (\E o \in OrderIds, slip \in Slips : Pay(o, slip))
               \/ UNCHANGED vars
      PROVE  MissesHold'
  BY <1>6, <1>q DEF Tick, Pay, vars, Administration, ChangePrices, ProviderCreate, ProviderToggle,
     ProviderUpdate, ProviderRead, ProviderWrite, ProviderDeleteCheck, ProviderDelete
<1> QED
  BY <1>1, <1>2, <1>3, <1>4, <1>5, <1>6 DEF Next, Device

LEMMA OnePendingStep == IInv /\ MissesHold /\ OnePending /\ [Next]_vars => OnePending'
<1> SUFFICES ASSUME IInv, MissesHold, OnePending, [Next]_vars PROVE OnePending'
  OBVIOUS
<1>t. TypeOK /\ SessionsExist
  BY DEF IInv
<1>q. ASSUME UNCHANGED order, \A o \in OrderIds : status'[o] = "pending" => status[o] = "pending"
      PROVE  OnePending'
  BY <1>q DEF OnePending
<1>1. CASE Quiet
  BY <1>1, <1>q DEF Quiet
<1>2. ASSUME NEW d \in Devices, CreateInsert(d) PROVE OnePending'
  <2>1. PICK o \in OrderIds :
          /\ order' = [order EXCEPT ![o] = NewOrder(d)]
          /\ status' = [status EXCEPT ![o] = "pending"]
    BY <1>2 DEF CreateInsert
  <2>2. order'[o] = NewOrder(d) /\ \A x \in OrderIds : x # o => order'[x] = order[x] /\ status'[x] = status[x]
    BY <2>1, <1>t DEF TypeOK
  <2>3. Reusable(d) = {}
    BY <1>2 DEF MissesHold, CreateInsert
  <2>4. \A x \in OrderIds : x # o /\ status'[x] = "pending" =>
          ~ /\ order'[x].user = order'[o].user /\ order'[x].chan = order'[o].chan
            /\ order'[x].plan = order'[o].plan /\ order'[x].amount = order'[o].amount
    BY <2>2, <2>3 DEF Reusable, NewOrder
  <2> QED
    BY <2>2, <2>4 DEF OnePending
<1>3. ASSUME NEW d \in Devices, QueryClose(d) PROVE OnePending'
  BY <1>3, <1>q, <1>t DEF QueryClose, Closed, TypeOK
<1>4. ASSUME NEW o \in OrderIds, NEW slip \in Slips, Pay(o, slip) PROVE OnePending'
  BY <1>4, <1>q DEF Pay
<1>5. ASSUME NEW w \in Workers, Commit(w) PROVE OnePending'
  BY <1>5, <1>q, <1>t DEF Commit, TypeOK
<1> QED
  BY StepKinds, <1>1, <1>2, <1>3, <1>4, <1>5

\* CreateOrder reuses what is pending: as long as a user runs one of them at a
\* time, closing, failing and paying in between never leaves him with two
\* pending orders for the same plan, channel and price.
THEOREM PendingIsReused ==
    ASSUME OneDeviceEach, LegacyApart
    PROVE  Spec => []OnePending
<1>1. Init => MissesHold /\ OnePending
  <2> SUFFICES ASSUME Init PROVE MissesHold /\ OnePending
    OBVIOUS
  <2>1. MissesHold
    BY DEF Init, MissesHold, NoCreate
  <2>2. OnePending
    BY DEF Init, OnePending, LegacyApart
  <2> QED
    BY <2>1, <2>2
<1>2. IInv /\ MissesHold /\ OnePending /\ [Next]_vars => MissesHold' /\ OnePending'
  BY MissesStep, OnePendingStep
<1> QED
  BY Invariance, <1>1, <1>2, PTL DEF Spec

-----------------------------------------------------------------------------
(* A user with several CreateOrder at once.  Both may look for a pending     *)
(* order before either has inserted one, so twins do arise; but every        *)
(* handler that is about to insert found none, and it inserts once, so there *)
(* is room for what the handlers of the user will insert.                    *)

Purchase == [user: Users, chan: Channels, plan: Plans \cup {None}, amount: Nat]
PurchaseOf(o) == [user |-> order[o].user, chan |-> order[o].chan,
                  plan |-> order[o].plan, amount |-> order[o].amount]
Wanted(d) == [user |-> Owner[d], chan |-> create[d].chan,
              plan |-> create[d].plan, amount |-> create[d].amount]

PendingFor(k) == {o \in OrderIds : status[o] = "pending" /\ PurchaseOf(o) = k}
Inserting(k) == {d \in Devices : create[d].at = "insert" /\ Wanted(d) = k}
DevicesOf(u) == {d \in Devices : Owner[d] = u}

\* There is a handler for every order that is pending or about to be.
RoomLeft ==
    \A k \in Purchase : Inserting(k) # {} =>
        Cardinality(PendingFor(k)) + Cardinality(Inserting(k)) <= Cardinality(DevicesOf(k.user))

\* However often lookups miss, inserts fail and orders are closed in between,
\* a user never has more pending orders for one purchase than handlers; one
\* may be left of a handler that is gone.
PendingPerHandler ==
    \A o \in OrderIds : status[o] = "pending" =>
        \/ Cardinality(PendingFor(PurchaseOf(o))) <= 1
        \/ Cardinality(PendingFor(PurchaseOf(o))) <= Cardinality(DevicesOf(order[o].user))

PurchasesBounded ==
    \A k \in Purchase : \/ Cardinality(PendingFor(k)) <= 1
                        \/ Cardinality(PendingFor(k)) <= Cardinality(DevicesOf(k.user))

LEMMA FiniteOrders ==
    ASSUME NEW k
    PROVE  IsFiniteSet(PendingFor(k)) /\ Cardinality(PendingFor(k)) \in Nat
<1>1. IsFiniteSet(OrderIds)
  BY FS_Interval, PaymentAssumption DEF OrderIds
<1>2. PendingFor(k) \subseteq OrderIds
  BY DEF PendingFor
<1>3. IsFiniteSet(PendingFor(k))
  BY <1>1, <1>2, FS_Subset
<1> QED
  BY <1>3, FS_CardinalityType

LEMMA FiniteInserting ==
    ASSUME IsFiniteSet(Devices), NEW k
    PROVE  /\ IsFiniteSet(Inserting(k)) /\ Cardinality(Inserting(k)) \in Nat
           /\ IsFiniteSet(DevicesOf(k.user)) /\ Cardinality(DevicesOf(k.user)) \in Nat
           /\ Cardinality(Inserting(k)) <= Cardinality(DevicesOf(k.user))
<1>1. Inserting(k) \subseteq DevicesOf(k.user)
  BY DEF Inserting, DevicesOf, Wanted
<1>2. DevicesOf(k.user) \subseteq Devices
  BY DEF DevicesOf
<1>3. IsFiniteSet(DevicesOf(k.user))
  BY <1>2, FS_Subset
<1> QED
  BY <1>1, <1>3, FS_Subset, FS_CardinalityType

LEMMA RoomStep ==
    IsFiniteSet(Devices) /\ IInv /\ RoomLeft /\ PurchasesBounded /\ [Next]_vars
       => RoomLeft' /\ PurchasesBounded'
<1> SUFFICES ASSUME IsFiniteSet(Devices), IInv, RoomLeft, PurchasesBounded, [Next]_vars
             PROVE  RoomLeft' /\ PurchasesBounded'
  OBVIOUS
<1>t. TypeOK
  BY DEF IInv
<1> DEFINE Fits(k) ==
             /\ Inserting(k)' # {} =>
                   Cardinality(PendingFor(k)') + Cardinality(Inserting(k)')
                      <= Cardinality(DevicesOf(k.user))
             /\ \/ Cardinality(PendingFor(k)') <= 1
                \/ Cardinality(PendingFor(k)') <= Cardinality(DevicesOf(k.user))
\* Nothing more is pending or about to be.
<1>m. ASSUME NEW k \in Purchase, PendingFor(k)' \subseteq PendingFor(k),
             Inserting(k)' \subseteq Inserting(k)
      PROVE  Fits(k)
  <2>1. Cardinality(PendingFor(k)') \in Nat /\ Cardinality(PendingFor(k)') <= Cardinality(PendingFor(k))
    BY <1>m, FiniteOrders, FS_Subset, FS_CardinalityType
  <2>2. Cardinality(Inserting(k)') \in Nat /\ Cardinality(Inserting(k)') <= Cardinality(Inserting(k))
    BY <1>m, FiniteInserting, FS_Subset, FS_CardinalityType
  <2>3. Inserting(k)' # {} => Inserting(k) # {}
    BY <1>m
  <2>4. Cardinality(PendingFor(k)) \in Nat /\ Cardinality(Inserting(k)) \in Nat
        /\ Cardinality(DevicesOf(k.user)) \in Nat
    BY FiniteOrders, FiniteInserting
  <2> QED
    BY <2>1, <2>2, <2>3, <2>4 DEF RoomLeft, PurchasesBounded
<1>q. ASSUME UNCHANGED order, \A o \in OrderIds : status'[o] = "pending" => status[o] = "pending",
             \A d \in Devices : create'[d].at = "insert" => create'[d] = create[d],
             NEW k \in Purchase
      PROVE  Fits(k)
  <2>1. PendingFor(k)' \subseteq PendingFor(k)
    BY <1>q DEF PendingFor, PurchaseOf
  <2>2. Inserting(k)' \subseteq Inserting(k)
    BY <1>q DEF Inserting, Wanted
  <2> QED
    BY <1>m, <2>1, <2>2
<1>1. ASSUME NEW d \in Devices,
             \/ \E p \in Plans, ch \in Channels : CreatePick(d, p, ch)
             \/ CreateReuse(d) \/ CreateCheckout(d) \/ CreateFail(d),
             NEW k \in Purchase
      PROVE  Fits(k)
  <2>1. create'[d].at # "insert" /\ \A e \in Devices : e # d => create'[e] = create[e]
    BY <1>1, <1>t DEF CreatePick, CreateReuse, CreateCheckout, CreateFail, Proceed, NoCreate, TypeOK
  <2>2. UNCHANGED <<order, status>>
    BY <1>1 DEF CreatePick, CreateReuse, CreateCheckout, CreateFail
  <2> HIDE DEF Fits
  <2> QED
    BY <1>q, <2>1, <2>2
<1>2. ASSUME NEW d \in Devices, CreateMiss(d), NEW k \in Purchase PROVE Fits(k)
  <2>1. /\ Reusable(d) = {}
        /\ create'[d].chan = create[d].chan /\ create'[d].plan = create[d].plan
        /\ create'[d].amount = create[d].amount
        /\ \A e \in Devices : e # d => create'[e] = create[e]
        /\ UNCHANGED <<order, status>>
    BY <1>2, <1>t DEF CreateMiss, Proceed, TypeOK
  <2>2. PendingFor(k)' = PendingFor(k)
    BY <2>1 DEF PendingFor, PurchaseOf
  <2>3. CASE k = Wanted(d)
    <3>1. PendingFor(k)' = {}
      BY <2>1, <2>2, <2>3 DEF PendingFor, PurchaseOf, Reusable, Wanted
    <3>2. Inserting(k)' \subseteq DevicesOf(k.user)
      BY DEF Inserting, DevicesOf, Wanted
    <3>3. Cardinality(Inserting(k)') <= Cardinality(DevicesOf(k.user))
          /\ Cardinality(Inserting(k)') \in Nat /\ Cardinality(DevicesOf(k.user)) \in Nat
      BY <3>2, FiniteInserting, FS_Subset, FS_CardinalityType
    <3>4. Cardinality(PendingFor(k)') = 0
      BY <3>1, FS_EmptySet
    <3> QED
      BY <3>3, <3>4
  <2>4. CASE k # Wanted(d)
    <3>1. Wanted(d)' = Wanted(d)
      BY <2>1 DEF Wanted
    <3>2. Inserting(k)' \subseteq Inserting(k)
      BY <2>1, <2>4, <3>1 DEF Inserting, Wanted
    <3> QED
      BY <1>m, <2>2, <3>2
  <2> QED
    BY <2>3, <2>4
<1>3. ASSUME NEW d \in Devices, CreateInsert(d), NEW k \in Purchase PROVE Fits(k)
  <2>1. PICK o \in OrderIds :
          /\ status[o] = "none"
          /\ order' = [order EXCEPT ![o] = NewOrder(d)]
          /\ status' = [status EXCEPT ![o] = "pending"]
          /\ create' = [create EXCEPT ![d] = Proceed(d, "checkout", o)]
    BY <1>3 DEF CreateInsert
  <2>2. /\ PurchaseOf(o)' = Wanted(d)
        /\ status'[o] = "pending"
        /\ create[d].at = "insert" /\ create'[d].at # "insert"
        /\ \A e \in Devices : e # d => create'[e] = create[e]
        /\ \A x \in OrderIds : x # o => order'[x] = order[x] /\ status'[x] = status[x]
    BY <1>3, <2>1, <1>t DEF CreateInsert, NewOrder, Proceed, TypeOK, PurchaseOf, Wanted
  <2>3. Inserting(k)' = Inserting(k) \ {d}
    BY <2>2 DEF Inserting, Wanted
  <2>4. CASE k = Wanted(d)
    <3>1. PendingFor(k)' = PendingFor(k) \cup {o} /\ o \notin PendingFor(k)
      BY <2>1, <2>2, <2>4 DEF PendingFor, PurchaseOf
    <3>2. d \in Inserting(k)
      BY <2>2, <2>4 DEF Inserting
    <3>3. Cardinality(PendingFor(k)') = Cardinality(PendingFor(k)) + 1
      BY <3>1, FiniteOrders, FS_AddElement
    <3>4. Cardinality(Inserting(k)') = Cardinality(Inserting(k)) - 1
      BY <2>3, <3>2, FiniteInserting, FS_RemoveElement
    <3>5. Cardinality(PendingFor(k)) + Cardinality(Inserting(k)) <= Cardinality(DevicesOf(k.user))
      BY <3>2 DEF RoomLeft
    <3>6. Cardinality(Inserting(k)') \in Nat
      BY <2>3, FiniteInserting, FS_RemoveElement, FS_CardinalityType
    <3>7. Cardinality(PendingFor(k)) \in Nat /\ Cardinality(Inserting(k)) \in Nat
          /\ Cardinality(DevicesOf(k.user)) \in Nat
      BY FiniteOrders, FiniteInserting
    <3> QED
      BY <3>3, <3>4, <3>5, <3>6, <3>7
  <2>5. CASE k # Wanted(d)
    <3>1. PendingFor(k)' \subseteq PendingFor(k)
      BY <2>2, <2>5 DEF PendingFor, PurchaseOf
    <3> QED
      BY <1>m, <2>3, <3>1
  <2> QED
    BY <2>4, <2>5
<1>4. ASSUME NEW d \in Devices, QueryClose(d) \/ (\E o \in OrderIds : QueryOverdue(d, o)),
             NEW k \in Purchase
      PROVE  Fits(k)
  <2> HIDE DEF Fits
  <2> QED
    BY <1>4, <1>q, <1>t DEF QueryClose, QueryOverdue, Closed, TypeOK
<1>5. ASSUME NEW w \in Workers, Hook(w), NEW k \in Purchase PROVE Fits(k)
  <2>1. UNCHANGED <<order, create>>
    BY <1>5 DEF Hook, HookAckPaid, HookLoad, HookClaim, HookClaimed, HookReadUser, HookExtend,
       HookCommit, HookCommitUnanswered, HookAbort, Commit
  <2>2. \A o \in OrderIds : status'[o] = "pending" => status[o] = "pending"
    BY <1>5, <1>t DEF Hook, HookAckPaid, HookLoad, HookClaim, HookClaimed, HookReadUser, HookExtend,
       HookCommit, HookCommitUnanswered, HookAbort, Commit, TypeOK
  <2> HIDE DEF Fits
  <2> QED
    BY <1>q, <2>1, <2>2
<1>6. ASSUME Tick \/ Administration \/ (\E o \in OrderIds, slip \in Slips : Pay(o, slip))
               \/ UNCHANGED vars,
             NEW k \in Purchase
      PROVE  Fits(k)
  <2>1. UNCHANGED <<order, status, create>>
    BY <1>6 DEF Tick, Pay, vars, Administration, ChangePrices, ProviderCreate, ProviderToggle,
       ProviderUpdate, ProviderRead, ProviderWrite, ProviderDeleteCheck, ProviderDelete
  <2> HIDE DEF Fits
  <2> QED
    BY <1>q, <2>1
<1>7. \A k \in Purchase : Fits(k)
  <2> HIDE DEF Fits
  <2> QED
    BY <1>1, <1>2, <1>3, <1>4, <1>5, <1>6 DEF Next, Device
<1> QED
  BY <1>7 DEF RoomLeft, PurchasesBounded, DevicesOf

\* With any number of CreateOrder at once, a user's pending orders for one
\* plan, channel and price never outnumber his handlers.
THEOREM PendingOrdersAreBounded ==
    ASSUME IsFiniteSet(Devices), LegacyApart
    PROVE  Spec => []PendingPerHandler
<1>1. Init => RoomLeft /\ PurchasesBounded
  <2> SUFFICES ASSUME Init PROVE RoomLeft /\ PurchasesBounded
    OBVIOUS
  <2>1. \A k \in Purchase : Inserting(k) = {}
    BY DEF Init, Inserting, NoCreate
  <2>2. ASSUME NEW k \in Purchase PROVE Cardinality(PendingFor(k)) <= 1
    <3>1. \A o, x \in PendingFor(k) : o = x
      BY DEF PendingFor, PurchaseOf, Init, LegacyApart
    <3>2. PendingFor(k) = {} \/ \E o : PendingFor(k) = {o}
      BY <3>1
    <3>3. Cardinality(PendingFor(k)) = 0 \/ Cardinality(PendingFor(k)) = 1
      <4>1. CASE PendingFor(k) = {}
        BY <4>1, FS_EmptySet
      <4>2. ASSUME NEW o, PendingFor(k) = {o} PROVE Cardinality(PendingFor(k)) = 1
        BY <4>2, FS_Singleton
      <4> QED
        BY <3>2, <4>1, <4>2
    <3> QED
      BY <3>3
  <2> QED
    BY <2>1, <2>2 DEF RoomLeft, PurchasesBounded
<1>2. IInv /\ PurchasesBounded => PendingPerHandler
  <2> SUFFICES ASSUME IInv, PurchasesBounded, NEW o \in OrderIds, status[o] = "pending"
               PROVE  \/ Cardinality(PendingFor(PurchaseOf(o))) <= 1
                      \/ Cardinality(PendingFor(PurchaseOf(o))) <= Cardinality(DevicesOf(order[o].user))
    BY DEF PendingPerHandler
  <2>1. PurchaseOf(o) \in Purchase /\ PurchaseOf(o).user = order[o].user
    BY DEF PurchaseOf, Purchase, Order, IInv, Core, RowsExist
  <2> QED
    BY <2>1 DEF PurchasesBounded
<1>3. IInv /\ RoomLeft /\ PurchasesBounded /\ [Next]_vars => RoomLeft' /\ PurchasesBounded'
  BY RoomStep
<1> QED
  BY Invariance, <1>1, <1>2, <1>3, PTL DEF Spec

-----------------------------------------------------------------------------
(* Nothing ends in a refusal or a standstill. *)

\* What covers its order is accepted, and an order with a plan is worth the
\* days of a list, which are never none.
LEMMA CoveringIsAccepted == IInv /\ Pricing => NeverRefused
<1> SUFFICES ASSUME IInv, Pricing, NEW c \in Covering,
                    order[c.order].plan # None, Verifiable(c.chan)
             PROVE  /\ Accepts(c)
                    /\ \A list \in EffectivePlans : CreditDays(list, c.order, c.amount) > 0
  BY DEF NeverRefused
<1> DEFINE o == c.order
<1>t. TypeOK /\ ChargesMatch /\ RowsExist /\ SoldFromOneList
  BY DEF IInv, Core, Pricing
<1>1. /\ c \in charges /\ o \in OrderIds /\ status[o] # "none"
      /\ order[o] \in Order /\ order[o].chan = c.chan
  BY <1>t DEF Covering, TypeOK, Event, ChargesMatch, RowsExist
<1>2. order[o].amount \in Nat /\ order[o].days \in Nat /\ order[o].plan \in Plans
  BY <1>1 DEF Order
<1>3. c.amount \in order[o].amount - 1 .. order[o].amount + 1
  BY DEF Covering
<1>4. AmountOK(order[o].amount, c.amount)
  BY <1>2, <1>3 DEF AmountOK
<1>5. Accepts(c)
  BY <1>1, <1>4 DEF Accepts
<1>6. PICK l \in Offers : l[order[o].plan] = [amount |-> order[o].amount, days |-> order[o].days]
  BY <1>1, <1>t DEF SoldFromOneList
<1>7. l[order[o].plan] \in Offer
  BY <1>2, OffersType
<1>8. order[o].days > 0
  BY <1>2, <1>6, <1>7 DEF Offer
<1>9. \A list \in EffectivePlans : CreditDays(list, o, c.amount) = order[o].days
  BY DEF CreditDays
<1> QED
  BY <1>5, <1>8, <1>9

\* Locks are taken in one order, the order row before the user row, and the
\* user row is the last one: its holder waits for nothing, and its membership
\* row is not there yet.
LEMMA SomeoneGoesOn == IInv => NoStandstill
<1> SUFFICES ASSUME IInv, NEW w \in Workers, hook[w].at # "idle"
             PROVE  \E v \in Workers : GoesOn(v)
  BY DEF NoStandstill
<1>t. TypeOK /\ EventsHold /\ ClaimHolds /\ PaidIffGranted
  BY DEF IInv, Core
<1>1. ASSUME NEW v \in Workers, hook[v].at = "extended" PROVE GoesOn(v)
  <2>1. hook[v].event.order \in OrderIds
    BY <1>1, <1>t DEF EventsHold, Covering, TypeOK, Event
  <2>2. status[hook[v].event.order] # "paid"
    BY <1>1, <1>t DEF ClaimHolds, Claimed, Settleable
  <2> QED
    BY <1>1, <1>t, <2>1, <2>2 DEF GoesOn, PaidIffGranted
<1>2. ASSUME NEW v \in Workers, hook[v].at = "claimed" PROVE GoesOn(v)
  BY <1>2 DEF GoesOn
<1>3. ASSUME NEW v \in Workers, hook[v].at = "read", \A x \in Workers : hook[x].at # "extended"
      PROVE  GoesOn(v)
  BY <1>3 DEF GoesOn, UserLocked, LocksUser
<1>4. ASSUME hook[w].at = "loaded",
             \A x \in Workers : hook[x].at \notin {"claimed", "read", "extended"}
      PROVE  GoesOn(w)
  BY <1>4 DEF GoesOn, OrderLocked, LocksOrder
<1>5. hook[w].at \in {"loaded", "claimed", "read", "extended"}
  BY <1>t DEF TypeOK, HookCall
<1> QED
  BY <1>1, <1>2, <1>3, <1>4, <1>5

\* As long as its notification can be verified, a charge that covers its order
\* can lead to its membership, and settle() never deadlocks on its way there.
THEOREM NothingIsStuck == Spec => []NoDeadEnd
<1>1. IInv /\ Pricing => NoDeadEnd
  BY CoveringIsAccepted, SomeoneGoesOn DEF NoDeadEnd
<1> QED
  BY Invariance, PricingInvariance, <1>1, PTL

-----------------------------------------------------------------------------
(* Membership adds up.  settle() reads what its user owns and later writes   *)
(* an absolute end, so nothing is lost exactly as long as no other           *)
(* settlement for this user is between the two: what was read is then still  *)
(* what the user owns.                                                       *)

\* A settlement that has read the membership of u and not yet committed.
Extending(w, u) ==
    hook[w].at \in {"read", "extended"} /\ order[hook[w].event.order].user = u

\* Settlements of one user do not overlap there; those of different users,
\* and repeated notifications of any order, still may.
Alone == \A v, w \in Workers, u \in Users : Extending(v, u) /\ Extending(w, u) => v = w

\* What a worker has read is still what its user owns, and what it is about to
\* write adds the days to that.
SeenHolds ==
    \A w \in Workers :
        /\ hook[w].at \in {"read", "extended"} =>
              hook[w].seen = vip[order[hook[w].event.order].user]
        /\ hook[w].at = "extended" => hook[w].end >= hook[w].seen + hook[w].days

\* A user owns at least what each of his grants ends with.
GrantsAreOwned ==
    \A o \in OrderIds : grant[o] # None => grant[o].end <= vip[grant[o].user]

\* No day is sold twice: the days that two orders give a user, counted back
\* from their ends, do not overlap.
NoDayTwice ==
    \A o, x \in OrderIds :
        o # x /\ grant[o] # None /\ grant[x] # None /\ grant[o].user = grant[x].user =>
            \/ grant[o].end + grant[x].days <= grant[x].end
            \/ grant[x].end + grant[o].days <= grant[o].end

Stacked == SeenHolds /\ GrantsAreOwned /\ NoDayTwice

\* The order that a worker settles keeps its row.
LEMMA SettledOrdersStay ==
    ASSUME IInv, [Next]_vars, NEW w \in Workers, hook[w].at # "idle"
    PROVE  /\ hook[w].event.order \in OrderIds
           /\ order[hook[w].event.order] \in Order
           /\ order'[hook[w].event.order] = order[hook[w].event.order]
<1> DEFINE o == hook[w].event.order
<1>t. TypeOK /\ RowsExist /\ ChargesMatch /\ EventsHold
  BY DEF IInv, Core
<1>1. o \in OrderIds /\ status[o] # "none" /\ order[o] \in Order
  BY <1>t DEF EventsHold, Covering, ChargesMatch, TypeOK, Event, RowsExist
<1>2. ASSUME NEW d \in Devices, CreateInsert(d) PROVE order'[o] = order[o]
  BY <1>1, <1>2, <1>t DEF CreateInsert, TypeOK
<1>3. ASSUME NEW d \in Devices, QueryClose(d) PROVE order'[o] = order[o]
  BY <1>3 DEF QueryClose
<1>4. ASSUME NEW x \in OrderIds, NEW slip \in Slips, Pay(x, slip) PROVE order'[o] = order[o]
  BY <1>4 DEF Pay
<1>5. ASSUME NEW v \in Workers, Commit(v) PROVE order'[o] = order[o]
  BY <1>5 DEF Commit
<1>6. CASE Quiet
  BY <1>1, <1>6 DEF Quiet
<1> QED
  BY StepKinds, <1>1, <1>2, <1>3, <1>4, <1>5, <1>6

\* Only a worker changes what workers carry, and only its own.
LEMMA HookKinds ==
    [Next]_vars =>
      \/ UNCHANGED <<hook, vip, grant>>
      \/ \E w \in Workers :
            Commit(w) \/ HookReadUser(w) \/ HookExtend(w)
            \/ (/\ UNCHANGED <<vip, grant>>
                /\ \E h : hook' = [hook EXCEPT ![w] = h] /\ h.at \in {"idle", "loaded", "claimed"})
<1> SUFFICES ASSUME [Next]_vars
             PROVE  \/ UNCHANGED <<hook, vip, grant>>
                    \/ \E w \in Workers :
                          Commit(w) \/ HookReadUser(w) \/ HookExtend(w)
                          \/ (/\ UNCHANGED <<vip, grant>>
                              /\ \E h : hook' = [hook EXCEPT ![w] = h] /\ h.at \in {"idle", "loaded", "claimed"})
  OBVIOUS
<1> DEFINE Else(w) == /\ UNCHANGED <<vip, grant>>
                      /\ \E h : hook' = [hook EXCEPT ![w] = h] /\ h.at \in {"idle", "loaded", "claimed"}
<1>1. ASSUME NEW w \in Workers, NEW c \in charges, HookLoad(w, c) PROVE Else(w)
  <2> DEFINE L(l) == [at |-> "loaded", event |-> c, days |-> CreditDays(l, c.order, c.amount),
                      stamp |-> now, seen |-> 0, end |-> 0]
  <2>0. PICK l \in EffectivePlans : hook' = [hook EXCEPT ![w] = L(l)]
    BY <1>1 DEF HookLoad
  <2> DEFINE h == L(l)
  <2>1. h.at = "loaded"
    OBVIOUS
  <2>2. hook' = [hook EXCEPT ![w] = h] /\ UNCHANGED <<vip, grant>>
    BY <1>1, <2>0 DEF HookLoad
  <2> HIDE DEF h
  <2> QED
    BY <2>1, <2>2
<1>2. ASSUME NEW w \in Workers, HookClaim(w) PROVE Else(w)
  <2>1. Continue(w, "claimed", 0, 0).at = "claimed"
    BY DEF Continue
  <2> QED
    BY <1>2, <2>1 DEF HookClaim
<1>3. ASSUME NEW w \in Workers, HookClaimed(w) \/ HookAbort(w) PROVE Else(w)
  <2>1. NoHook.at = "idle"
    BY DEF NoHook
  <2> QED
    BY <1>3, <2>1 DEF HookClaimed, HookAbort
<1>4. ASSUME NEW w \in Workers, HookCommit(w) \/ HookCommitUnanswered(w) PROVE Commit(w)
  BY <1>4 DEF HookCommit, HookCommitUnanswered
<1>5. ASSUME NEW w \in Workers, NEW c \in charges, HookAckPaid(w, c) PROVE UNCHANGED <<hook, vip, grant>>
  BY <1>5 DEF HookAckPaid
<1>6. ASSUME NEW d \in Devices, Device(d) PROVE UNCHANGED <<hook, vip, grant>>
  BY <1>6 DEF Device, CreatePick, CreateReuse, CreateMiss, CreateInsert, CreateCheckout,
     CreateFail, QueryOverdue, QueryClose, settlement
<1>7. ASSUME Tick \/ Administration \/ (\E o \in OrderIds, slip \in Slips : Pay(o, slip))
               \/ UNCHANGED vars
      PROVE  UNCHANGED <<hook, vip, grant>>
  BY <1>7 DEF Tick, Pay, vars, Administration, ChangePrices, ProviderCreate, ProviderToggle,
     ProviderUpdate, ProviderRead, ProviderWrite, ProviderDeleteCheck, ProviderDelete, settlement
<1> HIDE DEF Else
<1>8. ASSUME NEW w \in Workers, Hook(w)
      PROVE  \/ UNCHANGED <<hook, vip, grant>>
             \/ Commit(w) \/ HookReadUser(w) \/ HookExtend(w) \/ Else(w)
  BY <1>8, <1>1, <1>2, <1>3, <1>4, <1>5 DEF Hook
<1>9. \/ UNCHANGED <<hook, vip, grant>>
      \/ \E w \in Workers : Commit(w) \/ HookReadUser(w) \/ HookExtend(w) \/ Else(w)
  BY <1>6, <1>7, <1>8 DEF Next
<1> QED
  BY <1>9 DEF Else

LEMMA SeenStep == IInv /\ Alone /\ SeenHolds /\ [Next]_vars => SeenHolds'
<1> SUFFICES ASSUME IInv, Alone, SeenHolds, [Next]_vars PROVE SeenHolds'
  OBVIOUS
<1>t. TypeOK
  BY DEF IInv
<1>o. \A v \in Workers : hook[v].at # "idle" =>
        /\ hook[v].event.order \in OrderIds
        /\ order[hook[v].event.order] \in Order
        /\ order'[hook[v].event.order] = order[hook[v].event.order]
  BY SettledOrdersStay
\* What holds for one worker after the step.
<1> DEFINE Good(v) ==
      /\ hook'[v].at \in {"read", "extended"} =>
            hook'[v].seen = vip'[order'[hook'[v].event.order].user]
      /\ hook'[v].at = "extended" => hook'[v].end >= hook'[v].seen + hook'[v].days
<1>k. ASSUME NEW v \in Workers, hook'[v] = hook[v],
             hook[v].at \in {"read", "extended"} =>
                vip'[order[hook[v].event.order].user] = vip[order[hook[v].event.order].user]
      PROVE  Good(v)
  BY <1>k, <1>o DEF SeenHolds
<1>1. ASSUME UNCHANGED <<hook, vip>>, NEW v \in Workers PROVE Good(v)
  BY <1>1, <1>k
<1>2. ASSUME NEW w \in Workers, HookReadUser(w), NEW v \in Workers PROVE Good(v)
  <2>1. CASE v # w
    BY <1>2, <2>1, <1>k, <1>t DEF HookReadUser, TypeOK
  <2>2. CASE v = w
    <3>1. /\ hook'[w].at = "read" /\ hook'[w].event = hook[w].event
          /\ hook'[w].seen = vip[order[hook[w].event.order].user]
          /\ vip' = vip
      BY <1>2, <1>t DEF HookReadUser, Continue, TypeOK
    <3>2. hook[w].at # "idle"
      BY <1>2 DEF HookReadUser
    <3> QED
      BY <2>2, <3>1, <3>2, <1>o
  <2> QED
    BY <2>1, <2>2
<1>3. ASSUME NEW w \in Workers, HookExtend(w), NEW v \in Workers PROVE Good(v)
  <2>1. CASE v # w
    BY <1>3, <2>1, <1>k, <1>t DEF HookExtend, TypeOK
  <2>2. CASE v = w
    <3>1. /\ hook'[w].at = "extended" /\ hook'[w].event = hook[w].event
          /\ hook'[w].seen = hook[w].seen /\ hook'[w].days = hook[w].days
          /\ hook'[w].end = CreditEnd(hook[w].stamp, hook[w].seen, hook[w].days)
          /\ vip' = vip
      BY <1>3, <1>t DEF HookExtend, Continue, TypeOK
    <3>2. hook[w].at = "read"
      BY <1>3 DEF HookExtend
    <3>3. hook[w].seen = vip[order[hook[w].event.order].user]
      BY <3>2 DEF SeenHolds
    <3>4. hook'[w].end >= hook'[w].seen + hook'[w].days
      BY <3>1, <1>t, CreditEndBounds DEF TypeOK, HookCall
    <3> QED
      BY <2>2, <3>1, <3>2, <3>3, <3>4, <1>o
  <2> QED
    BY <2>1, <2>2
<1>4. ASSUME NEW w \in Workers, Commit(w), NEW v \in Workers PROVE Good(v)
  <2>1. CASE v = w
    <3>1. hook'[w].at = "idle"
      BY <1>4, <1>t DEF Commit, NoHook, TypeOK
    <3> QED
      BY <2>1, <3>1
  <2>2. CASE v # w
    <3>1. hook'[v] = hook[v]
      BY <1>4, <2>2, <1>t DEF Commit, TypeOK
    <3>2. ASSUME hook[v].at \in {"read", "extended"}
          PROVE  order[hook[v].event.order].user # order[hook[w].event.order].user
      BY <1>4, <2>2, <3>2, <1>o DEF Alone, Extending, Commit, Order
    <3>3. ASSUME hook[v].at \in {"read", "extended"}
          PROVE  vip'[order[hook[v].event.order].user] = vip[order[hook[v].event.order].user]
      BY <1>4, <3>2, <3>3, <1>t, <1>o DEF Commit, TypeOK, Order
    <3> QED
      BY <1>k, <3>1, <3>3
  <2> QED
    BY <2>1, <2>2
<1>5. ASSUME NEW w \in Workers, UNCHANGED <<vip, grant>>, NEW h, hook' = [hook EXCEPT ![w] = h],
             h.at \in {"idle", "loaded", "claimed"}, NEW v \in Workers
      PROVE  Good(v)
  <2>1. CASE v = w
    BY <1>5, <2>1, <1>t DEF TypeOK
  <2>2. CASE v # w
    BY <1>5, <2>2, <1>k, <1>t DEF TypeOK
  <2> QED
    BY <2>1, <2>2
<1> HIDE DEF Good
<1>6. \A v \in Workers : Good(v)
  BY HookKinds, <1>1, <1>2, <1>3, <1>4, <1>5
<1> QED
  BY <1>6 DEF SeenHolds, Good

LEMMA OwnedStep ==
    IInv /\ SeenHolds /\ GrantsAreOwned /\ [Next]_vars => GrantsAreOwned'
<1> SUFFICES ASSUME IInv, SeenHolds, GrantsAreOwned, [Next]_vars PROVE GrantsAreOwned'
  OBVIOUS
<1>t. TypeOK
  BY DEF IInv
<1>1. ASSUME UNCHANGED <<vip, grant>> PROVE GrantsAreOwned'
  BY <1>1 DEF GrantsAreOwned
<1>2. ASSUME NEW w \in Workers, Commit(w) PROVE GrantsAreOwned'
  <2> DEFINE o == hook[w].event.order
             u == order[o].user
             e == hook[w].end
             g == [user |-> u, start |-> hook[w].stamp, end |-> e, days |-> hook[w].days]
  <2>1. /\ o \in OrderIds /\ u \in Users
        /\ e \in Nat /\ hook[w].seen \in Nat /\ hook[w].days \in Nat
    BY <1>2, <1>t, SettledOrdersStay DEF Commit, TypeOK, HookCall, Order
  <2>2. e >= vip[u]
    BY <1>2, <1>t, <2>1 DEF Commit, SeenHolds, TypeOK
  <2>3. /\ grant' = [grant EXCEPT ![o] = g]
        /\ vip' = [vip EXCEPT ![u] = e]
    BY <1>2 DEF Commit
  <2>4. g.user = u /\ g.end = e
    OBVIOUS
  <2> HIDE DEF o, u, e, g
  <2>5. vip'[u] = e /\ grant'[o] = g
    BY <2>1, <2>3, <1>t DEF TypeOK
  <2>6. ASSUME NEW x \in OrderIds, x # o, grant'[x] # None
        PROVE  grant'[x].end <= vip'[grant'[x].user]
    <3>1. grant'[x] = grant[x] /\ grant[x] \in Grant
      BY <2>3, <2>6, <1>t DEF TypeOK
    <3>2. grant[x].end <= vip[grant[x].user] /\ grant[x].user \in Users /\ grant[x].end \in Nat
      BY <2>6, <3>1 DEF GrantsAreOwned, Grant
    <3>3. vip'[grant[x].user] >= vip[grant[x].user]
      BY <2>1, <2>2, <2>3, <3>2, <1>t DEF TypeOK
    <3>4. vip'[grant[x].user] \in Nat /\ vip[grant[x].user] \in Nat
      BY <2>1, <2>3, <3>2, <1>t DEF TypeOK
    <3> QED
      BY <3>1, <3>2, <3>3, <3>4
  <2>7. grant'[o].end <= vip'[grant'[o].user]
    BY <2>1, <2>4, <2>5
  <2> QED
    BY <2>6, <2>7 DEF GrantsAreOwned
<1>3. ASSUME NEW w \in Workers, HookReadUser(w) \/ HookExtend(w) PROVE UNCHANGED <<vip, grant>>
  BY <1>3 DEF HookReadUser, HookExtend
<1> QED
  BY HookKinds, <1>1, <1>2, <1>3

LEMMA NoDayTwiceStep ==
    IInv /\ SeenHolds /\ GrantsAreOwned /\ NoDayTwice /\ [Next]_vars => NoDayTwice'
<1> SUFFICES ASSUME IInv, SeenHolds, GrantsAreOwned, NoDayTwice, [Next]_vars PROVE NoDayTwice'
  OBVIOUS
<1>t. TypeOK
  BY DEF IInv
<1>1. ASSUME UNCHANGED <<vip, grant>> PROVE NoDayTwice'
  BY <1>1 DEF NoDayTwice
<1>2. ASSUME NEW w \in Workers, Commit(w) PROVE NoDayTwice'
  <2> DEFINE o == hook[w].event.order
             u == order[o].user
             n == hook[w].days
             e == hook[w].end
             g == [user |-> u, start |-> hook[w].stamp, end |-> e, days |-> n]
  <2>1. /\ o \in OrderIds /\ u \in Users
        /\ e \in Nat /\ hook[w].seen \in Nat /\ n \in Nat
    BY <1>2, <1>t, SettledOrdersStay DEF Commit, TypeOK, HookCall, Order
  <2>2. e >= vip[u] + n
    BY <1>2, <1>t, <2>1 DEF Commit, SeenHolds, TypeOK
  <2>3. /\ grant' = [grant EXCEPT ![o] = g]
        /\ g.user = u /\ g.end = e /\ g.days = n
    BY <1>2 DEF Commit
  <2> HIDE DEF o, u, n, e, g
  <2>4. grant'[o] = g
    BY <2>1, <2>3, <1>t DEF TypeOK
  <2>5. ASSUME NEW x \in OrderIds, x # o, grant'[x] # None, grant'[x].user = u
        PROVE  grant'[x].end + n <= e
    <3>1. grant'[x] = grant[x] /\ grant[x] \in Grant
      BY <2>3, <2>5, <1>t DEF TypeOK
    <3>2. grant[x].end <= vip[u] /\ grant[x].end \in Nat /\ vip[u] \in Nat
      BY <2>1, <2>5, <3>1, <1>t DEF GrantsAreOwned, Grant, TypeOK
    <3> QED
      BY <2>1, <2>2, <3>1, <3>2
  <2>6. \A x \in OrderIds : x # o => grant'[x] = grant[x]
    BY <2>3, <1>t DEF TypeOK
  <2>7. \A x, y \in OrderIds :
          x # y /\ grant'[x] # None /\ grant'[y] # None /\ grant'[x].user = grant'[y].user =>
             \/ grant'[x].end + grant'[y].days <= grant'[y].end
             \/ grant'[y].end + grant'[x].days <= grant'[x].end
    <3> SUFFICES ASSUME NEW x \in OrderIds, NEW y \in OrderIds,
                        x # y, grant'[x] # None, grant'[y] # None, grant'[x].user = grant'[y].user
                 PROVE  \/ grant'[x].end + grant'[y].days <= grant'[y].end
                        \/ grant'[y].end + grant'[x].days <= grant'[x].end
      OBVIOUS
    <3>1. CASE x = o
      BY <2>3, <2>4, <2>5, <3>1
    <3>2. CASE y = o
      BY <2>3, <2>4, <2>5, <3>2
    <3>3. CASE x # o /\ y # o
      BY <2>6, <3>3 DEF NoDayTwice
    <3> QED
      BY <3>1, <3>2, <3>3
  <2> QED
    BY <2>7 DEF NoDayTwice
<1>3. ASSUME NEW w \in Workers, HookReadUser(w) \/ HookExtend(w) PROVE UNCHANGED <<vip, grant>>
  BY <1>3 DEF HookReadUser, HookExtend
<1> QED
  BY HookKinds, <1>1, <1>2, <1>3

LEMMA StackedInvariance == Spec /\ []Alone => []Stacked
<1>1. Init => Stacked
  <2> SUFFICES ASSUME Init PROVE Stacked
    OBVIOUS
  <2>1. SeenHolds
    BY DEF Init, SeenHolds, NoHook
  <2>2. GrantsAreOwned /\ NoDayTwice
    BY DEF Init, GrantsAreOwned, NoDayTwice
  <2> QED
    BY <2>1, <2>2 DEF Stacked
<1>2. IInv /\ Alone /\ Stacked /\ [Next]_vars => Stacked'
  BY SeenStep, OwnedStep, NoDayTwiceStep DEF Stacked
<1> QED
  BY Invariance, <1>1, <1>2, PTL DEF Spec

\* A new grant ends no sooner than what its user owned, plus its days.
LEMMA NewGrantsStack ==
    ASSUME IInv, SeenHolds, [Next]_vars,
           NEW o \in OrderIds, grant[o] = None, grant'[o] # None
    PROVE  /\ grant'[o].end >= vip[grant'[o].user] + grant'[o].days
           /\ vip'[grant'[o].user] = grant'[o].end
           /\ grant'[o].user \in Users
<1>t. TypeOK
  BY DEF IInv
<1>1. CASE UNCHANGED <<vip, grant>>
  BY <1>1
<1>2. ASSUME NEW w \in Workers, Commit(w)
      PROVE  /\ grant'[o].end >= vip[grant'[o].user] + grant'[o].days
             /\ vip'[grant'[o].user] = grant'[o].end
             /\ grant'[o].user \in Users
  <2> DEFINE x == hook[w].event.order
             u == order[x].user
             n == hook[w].days
             e == hook[w].end
             g == [user |-> u, start |-> hook[w].stamp, end |-> e, days |-> n]
  <2>1. /\ x \in OrderIds /\ u \in Users
        /\ e \in Nat /\ hook[w].seen \in Nat /\ n \in Nat
    BY <1>2, <1>t, SettledOrdersStay DEF Commit, TypeOK, HookCall, Order
  <2>2. e >= vip[u] + n
    BY <1>2, <1>t, <2>1 DEF Commit, SeenHolds, TypeOK
  <2>3. /\ grant' = [grant EXCEPT ![x] = g]
        /\ vip' = [vip EXCEPT ![u] = e]
        /\ g.user = u /\ g.end = e /\ g.days = n
    BY <1>2 DEF Commit
  <2> HIDE DEF x, u, n, e, g
  <2>4. x = o
    BY <2>3, <1>t DEF TypeOK
  <2>5. grant'[o] = g /\ vip'[u] = e
    BY <2>1, <2>3, <2>4, <1>t DEF TypeOK
  <2> QED
    BY <2>1, <2>2, <2>3, <2>5
<1>3. ASSUME NEW w \in Workers, HookReadUser(w) \/ HookExtend(w) PROVE UNCHANGED <<vip, grant>>
  BY <1>3 DEF HookReadUser, HookExtend
<1> QED
  BY HookKinds, <1>1, <1>2, <1>3

\* A step of the ledger that settles an order adds to what is owned.
LEMMA StackingLedgerStep ==
    IInv /\ SeenHolds /\ [Next]_vars => [Ledger!StackingNext]_(Ledger!ledger)
<1> SUFFICES ASSUME IInv, SeenHolds, [Next]_vars
             PROVE  [Ledger!StackingNext]_(Ledger!ledger)
  OBVIOUS
<1>t. TypeOK
  BY DEF IInv
<1>1. [Ledger!Next]_(Ledger!ledger)
  BY LedgerStep
<1>2. ASSUME NEW o \in OrderIds, Ledger!Charge(o) PROVE Ledger!StackingNext
  BY <1>2 DEF Ledger!StackingNext
<1>3. ASSUME NEW o \in OrderIds, NEW u \in Users, grant'[o] # None,
             Ledger!Settle(o, u, grant'[o].start, grant'[o].days, grant'[o].end)
      PROVE  Ledger!StackingNext
  <2> DEFINE g == [user |-> u, start |-> grant'[o].start, end |-> grant'[o].end, days |-> grant'[o].days]
  <2>1. grant[o] = None /\ grant' = [grant EXCEPT ![o] = g]
    BY <1>3 DEF Ledger!Settle
  <2>2. grant'[o] = g /\ g.user = u
    BY <2>1, <1>t DEF TypeOK
  <2> HIDE DEF g
  <2>3. grant'[o].user = u
    BY <2>2
  <2>4. grant'[o].end >= vip[u] + grant'[o].days
    BY <1>3, <2>1, <2>3, NewGrantsStack
  <2> QED
    BY <1>3, <2>4 DEF Ledger!StackingNext
<1> QED
  BY <1>1, <1>2, <1>3 DEF Ledger!Next

\* VIP time is stackable, as settle() says it is, while no two settlements of
\* one user overlap between the read of his membership and the commit: the
\* subsystem then implements the stacking ledger, for any number of users,
\* orders and callbacks at work.
THEOREM KeepsStackingLedger == Spec /\ []Alone => StackingLedger
<1>1. Stacked => SeenHolds
  BY DEF Stacked
<1> QED
  BY Invariance, StackedInvariance, <1>1, LedgerInit, StackingLedgerStep, PTL
  DEF Spec, StackingLedger, Ledger!StackingSpec

\* The same, settlement by settlement: what the buyer owned before is not lost.
THEOREM DaysStackAlone == Spec /\ []Alone => DaysStack
<1> DEFINE Adds == \A o \in OrderIds : grant[o] = None /\ grant'[o] # None =>
                     vip'[grant'[o].user] >= vip[grant'[o].user] + grant'[o].days
<1>1. IInv /\ SeenHolds /\ [Next]_vars => Adds
  <2> SUFFICES ASSUME IInv, SeenHolds, [Next]_vars,
                      NEW o \in OrderIds, grant[o] = None, grant'[o] # None
               PROVE  vip'[grant'[o].user] >= vip[grant'[o].user] + grant'[o].days
    OBVIOUS
  <2> QED
    BY NewGrantsStack
<1>2. Stacked => SeenHolds
  BY DEF Stacked
<1>3. IInv /\ SeenHolds /\ [Next]_vars => [Adds]_vars
  BY <1>1
<1> QED
  BY Invariance, StackedInvariance, <1>2, <1>3, PTL DEF Spec, DaysStack

\* Seen from the end: the days of two orders of a user never overlap, so all
\* the days that were sold are there, however many orders he settles.
THEOREM NoDayIsSoldTwice == Spec /\ []Alone => []NoDayTwice
<1>1. Stacked => NoDayTwice
  BY DEF Stacked
<1> QED
  BY StackedInvariance, <1>1, PTL

\* A server that works on one callback at a time keeps the stacking ledger
\* without any assumption about what the channel sends.
THEOREM OneWorkerStacks ==
    ASSUME \A v, w \in Workers : v = w
    PROVE  Spec => StackingLedger
<1>1. Alone
  BY DEF Alone
<1> QED
  BY <1>1, KeepsStackingLedger, PTL

=============================================================================

------------------------------ MODULE Payment ------------------------------
(***************************************************************************)
(* The payment subsystem: biz/payment.go with the four tables it works on. *)
(*                                                                         *)
(*   CreateOrder  a handler that reads the enabled channels and the price  *)
(*                list, looks for a pending order to reuse, inserts one    *)
(*                otherwise, and opens a checkout at the channel;          *)
(*   GetOrder     closes an order that stayed unpaid for too long;         *)
(*   Webhook      verifies a notification, reads the order and settles it  *)
(*                in a transaction;                                        *)
(*   Provider*    the administration of the channels.                      *)
(*                                                                         *)
(* Every handler is a sequence of database statements, and handlers        *)
(* interleave between them.  A statement of settle()'s transaction takes   *)
(* the row lock of what it updates and keeps it until commit; its plain    *)
(* SELECT takes none (InnoDB, REPEATABLE READ: the dbresolver "Write"      *)
(* clause picks the primary, it is not FOR UPDATE).  Nothing of the        *)
(* transaction is visible before HookCommit.                               *)
(*                                                                         *)
(* The channel is external: it charges customers, and repeats its          *)
(* notification in any order and any number of times.                      *)
(***************************************************************************)
EXTENDS PlanPricing, FiniteSets

CONSTANTS
    Users,
    Channels,      \* payment channel codes
    GlobalSecret,  \* channels whose webhook secret is in the global config
    Tables,        \* what novel_vip_plan holds over time, in USD
    Devices,       \* concurrent handlers of signed-in users ...
    Owner,         \* ... and whose they are
    Workers,       \* concurrent webhook handlers
    Admins,        \* concurrent administrators
    LegacyOrders,  \* orders that exist at start, written before "plan" existed
    Slips,         \* what a charge may differ from the order's amount
    CloseAfter,    \* pendingCloseAfter
    MaxCharges,    \* charges of one order, a bound like the next ones
    MaxOrders, MaxNow, MaxFaults, MaxRows

OrderIds == 1..MaxOrders
Order == [user: Users, chan: Channels, plan: Plans \cup {None},
          amount: Nat, days: Nat, created: Nat]
Event == [order: OrderIds, chan: Channels, amount: Int]
Grant == [user: Users, start: Nat, end: Nat, days: Nat]
Row == [id: Nat, enabled: BOOLEAN]

ASSUME PaymentAssumption ==
    /\ MaxOrders \in Nat /\ MaxNow \in Nat /\ MaxFaults \in Nat /\ MaxRows \in Nat
    /\ MaxCharges \in Nat
    /\ CloseAfter \in Nat
    /\ GlobalSecret \subseteq Channels
    /\ Owner \in [Devices -> Users]
    /\ Tables \subseteq Table /\ Tables # {}
    /\ LegacyOrders \in [OrderIds -> Order \cup {None}]
    /\ \A o \in OrderIds : LegacyOrders[o] # None => LegacyOrders[o].plan = None
    /\ Slips \subseteq Int
    /\ None \notin Plans \cup Order \cup Row \cup Event \cup Grant

\* The price lists that the table stands for over time.
Lists == {PlansFromRows(table, TRUE) : table \in Tables}

\* The price lists that effectivePlans may ever return.
Offers == Lists \cup {DefaultPlans}

VARIABLES
    now,       \* the clock
    offer,     \* the price list in force
    provider,  \* novel_payment_provider: code -> row
    rows,      \* provider rows ever inserted (their ids)
    order,     \* novel_payment_order: what a row keeps for good ...
    status,    \* ... and its status column
    grant,     \* novel_vip_order by order_no; days is the credited length
    vip,       \* novel_user.vip_expires_at, 0 for NULL
    sessions,  \* orders with an open checkout page at their channel
    charges,   \* money the channel collected
    acked,     \* notifications answered with "success"
    faults,    \* failed settlements so far
    create, query, hook, admin  \* the handlers in flight

vars == <<now, offer, provider, rows, order, status, grant, vip, sessions,
          charges, acked, faults, create, query, hook, admin>>
catalogue == <<offer, provider, rows, admin>>
channel == <<sessions, charges>>
settlement == <<grant, vip, acked, faults, hook>>

NoCreate == [at |-> "idle", plan |-> None, chan |-> None, amount |-> 0,
             days |-> 0, order |-> 0]
NoHook == [at |-> "idle", event |-> None, days |-> 0, stamp |-> 0,
           seen |-> 0, end |-> 0]
NoAdmin == [at |-> "idle", chan |-> None, id |-> 0, enabled |-> FALSE]

CreateCall == [at: {"idle", "picked", "insert", "checkout"},
               plan: Plans \cup {None}, chan: Channels \cup {None},
               amount: Nat, days: Nat, order: 0..MaxOrders]
HookCall == [at: {"idle", "loaded", "claimed", "read", "extended"},
             event: Event \cup {None}, days: Nat, stamp: Nat,
             seen: Nat, end: Nat]
AdminCall == [at: {"idle", "write", "delete"}, chan: Channels \cup {None},
              id: Nat, enabled: BOOLEAN]

\* A handler goes on: what it has fetched so far stays.
Proceed(d, step, o) ==
    [at |-> step, plan |-> create[d].plan, chan |-> create[d].chan,
     amount |-> create[d].amount, days |-> create[d].days, order |-> o]
Continue(w, step, seen, end) ==
    [at |-> step, event |-> hook[w].event, days |-> hook[w].days,
     stamp |-> hook[w].stamp, seen |-> seen, end |-> end]

TypeOK ==
    /\ now \in 0..MaxNow
    /\ offer \in Lists
    /\ provider \in [Channels -> Row \cup {None}]
    /\ rows \in Nat
    /\ order \in [OrderIds -> Order \cup {None}]
    /\ status \in [OrderIds -> {"none", "pending", "paid", "closed"}]
    /\ grant \in [OrderIds -> Grant \cup {None}]
    /\ vip \in [Users -> Nat]
    /\ sessions \subseteq OrderIds
    /\ charges \subseteq Event
    /\ acked \subseteq Event
    /\ faults \in Nat
    /\ create \in [Devices -> CreateCall]
    /\ query \in [Devices -> 0..MaxOrders]
    /\ hook \in [Workers -> HookCall]
    /\ admin \in [Admins -> AdminCall]

-----------------------------------------------------------------------------
(* Row locks, and the pure helpers of payment.go. *)

\* The rows a worker's open transaction has updated.
LocksOrder(w, o) ==
    hook[w].at \in {"claimed", "read", "extended"} /\ hook[w].event.order = o
LocksUser(w, u) ==
    hook[w].at = "extended" /\ order[hook[w].event.order].user = u

OrderLocked(o) == \E w \in Workers : LocksOrder(w, o)
UserLocked(u) == \E w \in Workers : LocksUser(w, u)

\* Mutant: underpayment is never noticed.
AmountOKOneSided(due, got) == got - due <= 1

\* amountOK: rounding at the channel may cost one cent either way.
AmountOK(due, got) == due - got \in -1..1

\* Mutant: closed orders are not opened again.
SettleableOnce == {"pending"}

\* UPDATE ... WHERE status IN (0,3): a closed order that is really paid for
\* after all is opened again.
Settleable == {"pending", "closed"}

\* What effectivePlans may return now: the list in force or, when the query
\* fails, the defaults.
EffectivePlans == {offer, DefaultPlans}

\* Mutants: the price list of today decides; the price of the order is looked
\* up instead of what was paid.
CreditDaysOfToday(list, o, paid) ==
    IF order[o].plan # None THEN list[order[o].plan].days ELSE 0
CreditDaysByDue(list, o, paid) ==
    IF order[o].plan # None
    THEN order[o].days
    ELSE list[CHOOSE p \in Plans : list[p].amount = order[o].amount].days

\* The days a notification is worth: those of the sale, or, for an order
\* written before the plan was recorded, those of the plan that costs exactly
\* what was paid (planForAmounts); 0 when there is none.
CreditDays(list, o, paid) ==
    IF order[o].plan # None
    THEN order[o].days
    ELSE IF PlanFor(list, paid) # None THEN list[PlanFor(list, paid)].days ELSE 0

\* Mutants: an expired membership is extended from its end; an active one is
\* replaced.
CreditEndUnclamped(stamp, seen, days) == seen + days
CreditEndFromNow(stamp, seen, days) == stamp + days

\* Where the membership ends: after what is still owned, if anything is.
CreditEnd(stamp, seen, days) == (IF seen > stamp THEN seen ELSE stamp) + days

\* Webhooks of a channel can be verified: its secret is global or in its row.
Verifiable(ch) == ch \in GlobalSecret \/ provider[ch] # None

-----------------------------------------------------------------------------
Init ==
    /\ now = 0
    /\ offer \in Lists
    /\ provider = [ch \in Channels |-> [id |-> 0, enabled |-> TRUE]]
    /\ rows = 0
    /\ order = LegacyOrders
    /\ status = [o \in OrderIds |-> IF order[o] = None THEN "none" ELSE "pending"]
    /\ grant = [o \in OrderIds |-> None]
    /\ vip = [u \in Users |-> 0]
    /\ sessions = {o \in OrderIds : order[o] # None}
    /\ charges = {}
    /\ acked = {}
    /\ faults = 0
    /\ create = [d \in Devices |-> NoCreate]
    /\ query = [d \in Devices |-> 0]
    /\ hook = [w \in Workers |-> NoHook]
    /\ admin = [a \in Admins |-> NoAdmin]

Tick ==
    /\ now < MaxNow
    /\ now' = now + 1
    /\ UNCHANGED <<order, status, query, create, catalogue, channel, settlement>>

-----------------------------------------------------------------------------
(* CreateOrder. *)

\* enabledProviders, pickProvider (any enabled channel suits some language)
\* and effectivePlans.
CreatePick(d, p, ch) ==
    /\ create[d].at = "idle"
    /\ provider[ch] # None
    /\ provider[ch].enabled
    /\ \E list \in EffectivePlans :
         create' = [create EXCEPT ![d] =
           [at |-> "picked", plan |-> p, chan |-> ch, amount |-> list[p].amount,
            days |-> list[p].days, order |-> 0]]
    /\ UNCHANGED <<now, order, status, query, catalogue, channel, settlement>>

\* Mutant: only a fresh order is reused.
ReusableFresh(d) ==
    {o \in OrderIds :
        /\ status[o] = "pending"
        /\ order[o].created = now
        /\ order[o].user = Owner[d]
        /\ order[o].chan = create[d].chan
        /\ order[o].plan = create[d].plan
        /\ order[o].amount = create[d].amount}

\* Pending orders of the same user, channel, amount and plan.
Reusable(d) ==
    {o \in OrderIds :
        /\ status[o] = "pending"
        /\ order[o].user = Owner[d]
        /\ order[o].chan = create[d].chan
        /\ order[o].plan = create[d].plan
        /\ order[o].amount = create[d].amount}

CreateReuse(d) ==
    /\ create[d].at = "picked"
    /\ \E o \in Reusable(d) :
         /\ \A x \in Reusable(d) : x <= o   \* ORDER BY id DESC
         /\ create' = [create EXCEPT ![d] = Proceed(d, "checkout", o)]
    /\ UNCHANGED <<now, order, status, query, catalogue, channel, settlement>>

CreateMiss(d) ==
    /\ create[d].at = "picked"
    /\ Reusable(d) = {}
    /\ create' = [create EXCEPT ![d] = Proceed(d, "insert", 0)]
    /\ UNCHANGED <<now, order, status, query, catalogue, channel, settlement>>

\* Mutant: the days are read again, after the price.
NewOrderReread(d) ==
    [user |-> Owner[d], chan |-> create[d].chan, plan |-> create[d].plan,
     amount |-> create[d].amount, days |-> offer[create[d].plan].days, created |-> now]

\* The row INSERT writes: price and days are frozen here.
NewOrder(d) ==
    [user |-> Owner[d], chan |-> create[d].chan, plan |-> create[d].plan,
     amount |-> create[d].amount, days |-> create[d].days, created |-> now]

CreateInsert(d) ==
    /\ create[d].at = "insert"
    /\ \E o \in OrderIds :
         /\ status[o] = "none"
         /\ \A x \in OrderIds : status[x] = "none" => o <= x
         /\ order' = [order EXCEPT ![o] = NewOrder(d)]
         /\ status' = [status EXCEPT ![o] = "pending"]
         /\ create' = [create EXCEPT ![d] = Proceed(d, "checkout", o)]
    /\ UNCHANGED <<now, query, catalogue, channel, settlement>>

CreateCheckout(d) ==
    /\ create[d].at = "checkout"
    /\ sessions' = sessions \cup {create[d].order}
    /\ create' = [create EXCEPT ![d] = NoCreate]
    /\ UNCHANGED <<now, order, status, query, charges, catalogue, settlement>>

\* A database error or a refusal by the channel: the order row, if any, stays.
CreateFail(d) ==
    /\ create[d].at # "idle"
    /\ create' = [create EXCEPT ![d] = NoCreate]
    /\ UNCHANGED <<now, order, status, query, catalogue, channel, settlement>>

-----------------------------------------------------------------------------
(* GetOrder: the owner's copy is found overdue (maybeClose), then the row is *)
(* closed if it is still pending.  The reply is the copy.                    *)

Overdue(o) == status[o] = "pending" /\ now - order[o].created > CloseAfter

QueryOverdue(d, o) ==
    /\ query[d] = 0
    /\ status[o] # "none"
    /\ order[o].user = Owner[d]
    /\ Overdue(o)
    /\ query' = [query EXCEPT ![d] = o]
    /\ UNCHANGED <<now, order, status, create, catalogue, channel, settlement>>

\* Mutants: without the condition on status; the wrong status.
ClosedAnyway(o) == "closed"
ClosedAsFailed(o) == IF status[o] = "pending" THEN "failed" ELSE status[o]

\* UPDATE ... SET status = 3 WHERE id = ? AND status = 0
Closed(o) == IF status[o] = "pending" THEN "closed" ELSE status[o]

QueryClose(d) ==
    /\ query[d] # 0
    /\ ~OrderLocked(query[d])
    /\ status' = [status EXCEPT ![query[d]] = Closed(query[d])]
    /\ query' = [query EXCEPT ![d] = 0]
    /\ UNCHANGED <<now, order, create, catalogue, channel, settlement>>

-----------------------------------------------------------------------------
(* The channel: a customer pays on a checkout page that is still open; a    *)
(* reused order has several, and each may be paid (charges of one amount    *)
(* are one here: settle() cannot tell them apart).  The notification can    *)
(* then be delivered at any time, and again.                                *)

Pay(o, slip) ==
    /\ o \in sessions
    /\ Cardinality({c \in charges : c.order = o}) < MaxCharges
    /\ charges' = charges \cup
         {[order |-> o, chan |-> order[o].chan, amount |-> order[o].amount + slip]}
    /\ UNCHANGED <<now, order, status, sessions, query, create, catalogue, settlement>>

-----------------------------------------------------------------------------
(* Webhook and settle.  A refusal (unknown channel, wrong amount, no days)  *)
(* changes nothing and is answered with an error, so the channel repeats    *)
(* the notification; only the deliveries that get further are steps.        *)

\* Mutant: a closed order is refused.
AcceptsOpen(c) ==
    /\ Verifiable(c.chan)
    /\ status[c.order] \in {"pending", "paid"}
    /\ order[c.order].chan = c.chan
    /\ AmountOK(order[c.order].amount, c.amount)

Accepts(c) ==
    /\ Verifiable(c.chan)
    /\ status[c.order] # "none"
    /\ order[c.order].chan = c.chan
    /\ AmountOK(order[c.order].amount, c.amount)

\* if o.Status == 1 { return nil }
HookAckPaid(w, c) ==
    /\ hook[w].at = "idle"
    /\ Accepts(c)
    /\ status[c.order] = "paid"
    /\ acked' = acked \cup {c}
    /\ UNCHANGED <<now, order, status, grant, vip, faults, hook, query, create,
                   catalogue, channel>>

HookLoad(w, c) ==
    /\ hook[w].at = "idle"
    /\ Accepts(c)
    /\ status[c.order] # "paid"
    /\ \E list \in EffectivePlans :
         /\ CreditDays(list, c.order, c.amount) > 0
         /\ hook' = [hook EXCEPT ![w] =
              [at |-> "loaded", event |-> c, days |-> CreditDays(list, c.order, c.amount),
               stamp |-> now, seen |-> 0, end |-> 0]]
    /\ UNCHANGED <<now, order, status, grant, vip, acked, faults, query, create,
                   catalogue, channel>>

\* Mutant: the UPDATE of the order is not part of the transaction.
HookClaimAtOnce(w) ==
    /\ hook[w].at = "loaded"
    /\ ~OrderLocked(hook[w].event.order)
    /\ status[hook[w].event.order] \in Settleable
    /\ status' = [status EXCEPT ![hook[w].event.order] = "paid"]
    /\ hook' = [hook EXCEPT ![w] = Continue(w, "claimed", 0, 0)]
    /\ UNCHANGED <<now, order, grant, vip, acked, faults, query, create,
                   catalogue, channel>>

\* Mutant: the UPDATE has no condition on status.
HookClaimAlways(w) ==
    /\ hook[w].at = "loaded"
    /\ ~OrderLocked(hook[w].event.order)
    /\ hook' = [hook EXCEPT ![w] = Continue(w, "claimed", 0, 0)]
    /\ UNCHANGED <<now, order, status, grant, vip, acked, faults, query, create,
                   catalogue, channel>>

\* The conditional UPDATE of the order hits: its row is locked from here on.
HookClaim(w) ==
    /\ hook[w].at = "loaded"
    /\ ~OrderLocked(hook[w].event.order)
    /\ status[hook[w].event.order] \in Settleable
    /\ hook' = [hook EXCEPT ![w] = Continue(w, "claimed", 0, 0)]
    /\ UNCHANGED <<now, order, status, grant, vip, acked, faults, query, create,
                   catalogue, channel>>

\* It hits nothing: a concurrent callback has settled the order; success.
HookClaimed(w) ==
    /\ hook[w].at = "loaded"
    /\ ~OrderLocked(hook[w].event.order)
    /\ status[hook[w].event.order] \notin Settleable
    /\ acked' = acked \cup {hook[w].event}
    /\ hook' = [hook EXCEPT ![w] = NoHook]
    /\ UNCHANGED <<now, order, status, grant, vip, faults, query, create,
                   catalogue, channel>>

HookReadUser(w) ==
    /\ hook[w].at = "claimed"
    /\ hook' = [hook EXCEPT ![w] =
         Continue(w, "read", vip[order[hook[w].event.order].user], 0)]
    /\ UNCHANGED <<now, order, status, grant, vip, acked, faults, query, create,
                   catalogue, channel>>

HookExtend(w) ==
    /\ hook[w].at = "read"
    /\ ~UserLocked(order[hook[w].event.order].user)
    /\ hook' = [hook EXCEPT ![w] =
         Continue(w, "extended", hook[w].seen,
                  CreditEnd(hook[w].stamp, hook[w].seen, hook[w].days))]
    /\ UNCHANGED <<now, order, status, grant, vip, acked, faults, query, create,
                   catalogue, channel>>

\* The membership row is inserted (its order_no is unique) and everything
\* becomes visible.
Commit(w) ==
    LET o == hook[w].event.order
    IN  /\ hook[w].at = "extended"
        /\ grant[o] = None
        /\ status' = [status EXCEPT ![o] = "paid"]
        /\ vip' = [vip EXCEPT ![order[o].user] = hook[w].end]
        /\ grant' = [grant EXCEPT ![o] =
             [user |-> order[o].user, start |-> hook[w].stamp,
              end |-> hook[w].end, days |-> hook[w].days]]
        /\ hook' = [hook EXCEPT ![w] = NoHook]
        /\ UNCHANGED <<now, order, query, create, catalogue, channel>>

HookCommit(w) ==
    /\ Commit(w)
    /\ acked' = acked \cup {hook[w].event}
    /\ UNCHANGED faults

\* Committed, but the answer to the channel or to the handler is lost.
HookCommitUnanswered(w) ==
    /\ faults < MaxFaults
    /\ Commit(w)
    /\ faults' = faults + 1
    /\ UNCHANGED acked

\* A failed statement, a lost connection or a crash: rolled back, not acked.
HookAbort(w) ==
    /\ faults < MaxFaults
    /\ hook[w].at # "idle"
    /\ hook' = [hook EXCEPT ![w] = NoHook]
    /\ faults' = faults + 1
    /\ UNCHANGED <<now, order, status, grant, vip, acked, query, create,
                   catalogue, channel>>

-----------------------------------------------------------------------------
(* Administration of prices and channels. *)

\* CreatePlan, UpdatePlan and DeletePlan lead from one price list to another.
ChangePrices(l) ==
    /\ offer # l
    /\ offer' = l
    /\ UNCHANGED <<now, order, status, provider, rows, admin, query, create,
                   channel, settlement>>

\* CreateProvider: the code is a unique key.
ProviderCreate(ch) ==
    /\ provider[ch] = None
    /\ rows < MaxRows
    /\ rows' = rows + 1
    /\ provider' = [provider EXCEPT ![ch] = [id |-> rows + 1, enabled |-> TRUE]]
    /\ UNCHANGED <<now, order, status, offer, admin, query, create, channel, settlement>>

\* ToggleProvider writes the opposite of what it read, UpdateProvider what the
\* administrator asked for.
ProviderRead(a, ch, on) ==
    /\ admin[a].at = "idle"
    /\ provider[ch] # None
    /\ admin' = [admin EXCEPT ![a] =
         [at |-> "write", chan |-> ch, id |-> provider[ch].id, enabled |-> on]]
    /\ UNCHANGED <<now, order, status, offer, provider, rows, query, create,
                   channel, settlement>>

ProviderToggle(a, ch) == provider[ch] # None /\ ProviderRead(a, ch, ~provider[ch].enabled)
ProviderUpdate(a, ch) == \E on \in BOOLEAN : ProviderRead(a, ch, on)

\* The row with that id, if it is still there.
IsRow(ch, id) == provider[ch] # None /\ provider[ch].id = id

ProviderWrite(a) ==
    LET ch == admin[a].chan
    IN  /\ admin[a].at = "write"
        /\ provider' = IF IsRow(ch, admin[a].id)
                       THEN [provider EXCEPT ![ch] = [id |-> admin[a].id, enabled |-> admin[a].enabled]]
                       ELSE provider
        /\ admin' = [admin EXCEPT ![a] = NoAdmin]
        /\ UNCHANGED <<now, order, status, offer, rows, query, create, channel, settlement>>

\* DeleteProvider refuses while orders of the channel are pending.
PendingOn(ch) == {o \in OrderIds : status[o] = "pending" /\ order[o].chan = ch}

ProviderDeleteCheck(a, ch) ==
    /\ admin[a].at = "idle"
    /\ provider[ch] # None
    /\ PendingOn(ch) = {}
    /\ admin' = [admin EXCEPT ![a] =
         [at |-> "delete", chan |-> ch, id |-> provider[ch].id, enabled |-> FALSE]]
    /\ UNCHANGED <<now, order, status, offer, provider, rows, query, create,
                   channel, settlement>>

ProviderDelete(a) ==
    LET ch == admin[a].chan
    IN  /\ admin[a].at = "delete"
        /\ provider' = IF IsRow(ch, admin[a].id)
                       THEN [provider EXCEPT ![ch] = None] ELSE provider
        /\ admin' = [admin EXCEPT ![a] = NoAdmin]
        /\ UNCHANGED <<now, order, status, offer, rows, query, create, channel, settlement>>

-----------------------------------------------------------------------------
Device(d) ==
    \/ \E p \in Plans, ch \in Channels : CreatePick(d, p, ch)
    \/ CreateReuse(d)
    \/ CreateMiss(d)
    \/ CreateInsert(d)
    \/ CreateCheckout(d)
    \/ CreateFail(d)
    \/ \E o \in OrderIds : QueryOverdue(d, o)
    \/ QueryClose(d)

Hook(w) ==
    \/ \E c \in charges : HookAckPaid(w, c)
    \/ \E c \in charges : HookLoad(w, c)
    \/ HookClaim(w)
    \/ HookClaimed(w)
    \/ HookReadUser(w)
    \/ HookExtend(w)
    \/ HookCommit(w)
    \/ HookCommitUnanswered(w)
    \/ HookAbort(w)

Administration ==
    \/ \E l \in Lists : ChangePrices(l)
    \/ \E ch \in Channels : ProviderCreate(ch)
    \/ \E a \in Admins, ch \in Channels :
          \/ ProviderToggle(a, ch)
          \/ ProviderUpdate(a, ch)
          \/ ProviderDeleteCheck(a, ch)
    \/ \E a \in Admins : ProviderWrite(a) \/ ProviderDelete(a)

Next ==
    \/ Tick
    \/ \E d \in Devices : Device(d)
    \/ \E o \in OrderIds, slip \in Slips : Pay(o, slip)
    \/ \E w \in Workers : Hook(w)
    \/ Administration

Spec == Init /\ [][Next]_vars

\* The channel repeats a notification until it is answered with success
\* (errEncoder answers failures with a non-2xx status), and a handler that
\* runs goes on; users and administrators need not do anything, and time may
\* stop.
Fairness ==
    /\ \A o \in OrderIds :
          WF_vars(\E c \in charges, w \in Workers :
                     c.order = o /\ (HookLoad(w, c) \/ HookAckPaid(w, c)))
    /\ \A w \in Workers :
          /\ WF_vars(HookClaim(w))
          /\ WF_vars(HookClaimed(w))
          /\ WF_vars(HookReadUser(w))
          /\ WF_vars(HookExtend(w))
          /\ WF_vars(HookCommit(w))

FairSpec == Spec /\ Fairness

-----------------------------------------------------------------------------
(* What must hold.  *)

\* settle() is all or nothing: an order is paid exactly when its membership
\* row exists, whatever statement failed and whatever callbacks overlapped.
PaidIffGranted == \A o \in OrderIds : status[o] = "paid" <=> grant[o] # None

\* The charges that cover their order, up to a cent of rounding.
Covering == {c \in charges : c.amount \in order[c.order].amount - 1 .. order[c.order].amount + 1}

\* Membership is never given away: behind every paid order there is a charge
\* at its own channel over its amount, give or take a cent.
NoUnpaidGrant ==
    \A o \in OrderIds : status[o] = "paid" =>
        \E c \in Covering : c.order = o /\ c.chan = order[o].chan

\* The channel is told "success", and stops repeating itself, only when the
\* order is paid: a charge is never acknowledged and forgotten.
AckedIsPaid == \A c \in acked : c \in charges /\ status[c.order] = "paid"

\* A sale is honoured as it was made: whatever happened to the price list
\* since, the buyer gets the days of the order, from the settlement on.
GrantHonoursSale ==
    \A o \in OrderIds : status[o] = "paid" /\ order[o].plan # None =>
        grant[o].days = order[o].days /\ grant[o].end >= grant[o].start + order[o].days

\* An order written before plans were recorded is settled only at the exact
\* price of a plan, and for that plan's days.
LegacyGrantIsPriced ==
    \A o \in OrderIds : status[o] = "paid" /\ order[o].plan = None =>
        \E c \in charges, l \in Offers, p \in Plans :
            c.order = o /\ l[p].amount = c.amount /\ l[p].days = grant[o].days

\* Price and days of an order come from one price list, never from two.
SoldFromOneList ==
    \A o \in OrderIds : status[o] # "none" /\ order[o].plan # None =>
        \E l \in Offers : l[order[o].plan] = [amount |-> order[o].amount, days |-> order[o].days]

\* A user who runs one CreateOrder at a time has at most one pending order for
\* the same channel, plan and price, also after orders were closed or left
\* without a checkout.
OnePending ==
    \A o, x \in OrderIds :
        /\ status[o] = "pending" /\ status[x] = "pending"
        /\ order[o].user = order[x].user /\ order[o].chan = order[x].chan
        /\ order[o].plan = order[x].plan /\ order[o].amount = order[x].amount
        => o = x

\* The channel is never told "failure" for good: as long as its notification
\* can be verified, a charge that covers its order is accepted and worth some
\* days, whatever prices, channels and GetOrder have done since the sale.
NeverRefused ==
    \A c \in Covering : order[c.order].plan # None /\ Verifiable(c.chan) =>
        /\ Accepts(c)
        /\ status[c.order] = "paid" \/ \A list \in EffectivePlans : CreditDays(list, c.order, c.amount) > 0

\* What a worker can do next without waiting for a lock; the unique key of
\* the membership row has the last word.
GoesOn(w) ==
    LET o == hook[w].event.order
    IN  \/ hook[w].at = "loaded" /\ ~OrderLocked(o)
        \/ hook[w].at = "claimed"
        \/ hook[w].at = "read" /\ ~UserLocked(order[o].user)
        \/ hook[w].at = "extended" /\ grant[o] = None

\* The locks of settle() are never waited for in a circle, and no settlement
\* gets as far as a row that cannot be inserted: while callbacks are at work
\* one of them can go on.
NoStandstill ==
    (\E w \in Workers : hook[w].at # "idle") => \E w \in Workers : GoesOn(w)

\* Nothing stands between a charge and its membership for good.
NoDeadEnd == NeverRefused /\ NoStandstill

\* A paid order stays paid and its membership row is never rewritten, by a
\* late close, a repeated notification or anything else.
PaidIsFinal ==
    [][\A o \in OrderIds : status[o] = "paid" =>
          status'[o] = "paid" /\ grant'[o] = grant[o]]_vars

\* VIP activation is stackable: a settlement leaves its buyer at least what he
\* owned before plus the days he bought.
DaysStack ==
    [][\A o \in OrderIds : grant[o] = None /\ grant'[o] # None =>
          vip'[grant'[o].user] >= vip[grant'[o].user] + grant'[o].days]_vars

\* Who paid gets the membership, although callbacks fail, repeat and overlap
\* and the order may have been closed meanwhile, unless the channel itself is
\* deleted.
ChargedIsActivated ==
    \A o \in OrderIds, ch \in Channels :
        (\E c \in Covering : c.order = o /\ c.chan = ch /\ order[o].plan # None)
        ~> (status[o] = "paid" \/ ~Verifiable(ch))

-----------------------------------------------------------------------------
(* The ledger that this module implements. *)

Ledger == INSTANCE VipLedger WITH
    Orders <- OrderIds, NotGranted <- None,
    charged <- {c.order : c \in Covering}, grant <- grant, expiry <- vip

LedgerSpec == Ledger!Spec
StackingLedger == Ledger!StackingSpec
=============================================================================

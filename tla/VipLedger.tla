----------------------------- MODULE VipLedger -----------------------------
(***************************************************************************)
(* What the payment subsystem promises about money and VIP time, without   *)
(* saying how: orders are charged by a payment channel, a charged order is *)
(* granted at most once and for good, and the grant gives its buyer at     *)
(* least the days that were sold, counted from the moment of settlement.   *)
(*                                                                         *)
(* Spec is what settle() in payment.go guarantees under every interleaving *)
(* of callbacks.  StackingSpec adds the promise of its comment, "VIP       *)
(* activation (stackable)": the days are added after the time the user     *)
(* already owns, so nothing that was bought is lost.                       *)
(***************************************************************************)
EXTENDS Naturals

CONSTANTS
    Orders,     \* order identities
    Users,      \* accounts
    NotGranted  \* the grant of an order that has not been settled

VARIABLES
    charged,    \* orders whose price the channel has collected
    grant,      \* grant[o]: [user, start, end, days] once settled
    expiry      \* expiry[u]: novel_user.vip_expires_at

ledger == <<charged, grant, expiry>>

Init ==
    /\ charged = {}
    /\ grant = [o \in Orders |-> NotGranted]
    /\ expiry = [u \in Users |-> 0]

Charge(o) ==
    /\ o \notin charged
    /\ charged' = charged \cup {o}
    /\ UNCHANGED <<grant, expiry>>

\* Settling o for u at time t with d days of membership until time e.
Settle(o, u, t, d, e) ==
    /\ o \in charged
    /\ grant[o] = NotGranted
    /\ e >= t + d
    /\ grant' = [grant EXCEPT ![o] = [user |-> u, start |-> t, end |-> e, days |-> d]]
    /\ expiry' = [expiry EXCEPT ![u] = e]
    /\ UNCHANGED charged

Next ==
    \/ \E o \in Orders : Charge(o)
    \/ \E o \in Orders, u \in Users :
          LET g == grant'[o]
          IN  grant'[o] # NotGranted /\ Settle(o, u, g.start, g.days, g.end)

\* The stackable step: what the user still owns is extended, never replaced.
StackingNext ==
    \/ \E o \in Orders : Charge(o)
    \/ \E o \in Orders, u \in Users :
          LET g == grant'[o]
          IN  /\ grant'[o] # NotGranted
              /\ g.end >= expiry[u] + g.days
              /\ Settle(o, u, g.start, g.days, g.end)

Spec == Init /\ [][Next]_ledger
StackingSpec == Init /\ [][StackingNext]_ledger

=============================================================================

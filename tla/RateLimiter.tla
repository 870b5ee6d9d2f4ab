---------------------------- MODULE RateLimiter ----------------------------
(***************************************************************************)
(* The limiter of one path: middleware/ratelimit.go.  A request reads the  *)
(* clock, and only then waits for the mutex; under it the address's old    *)
(* hits are pruned by that reading, the request is refused or its reading  *)
(* is noted, and a map with too many addresses is swept.  Every server     *)
(* process has limiters of its own, and only the HTTP server has any.      *)
(***************************************************************************)
EXTENDS Integers, FiniteSets

CONSTANTS
    Requests, Addresses,
    Limit, Window,
    Cap,      \* addresses beyond which the map is swept
    Delay,    \* how long a request waits for the mutex at most
    MaxTime,  \* bound of the model
    None

ASSUME LimiterAssumption ==
    /\ Limit \in Nat \ {0} /\ Window \in Nat \ {0}
    /\ Cap \in Nat /\ Delay \in Nat /\ MaxTime \in Nat
    /\ None \notin [ip: Addresses, at: Nat, verdict: {"ask", "in", "out"}, in: Nat]

VARIABLES
    now,
    seen,  \* the requests whose readings are noted, by address
    call   \* the requests: address, reading, verdict and when it fell

limiter == <<now, seen, call>>

Call == [ip: Addresses, at: Nat, verdict: {"ask", "in", "out"}, in: Nat]
Is(r, verdict) == call[r] # None /\ call[r].verdict = verdict

LimiterTypeOK ==
    /\ now \in Nat
    /\ seen \in [Addresses -> SUBSET Requests]
    /\ call \in [Requests -> Call \cup {None}]
    /\ \A a \in Addresses : \A r \in seen[a] : Is(r, "in") /\ call[r].ip = a

LimiterInit ==
    /\ now = 0
    /\ seen = [a \in Addresses |-> {}]
    /\ call = [r \in Requests |-> None]

-----------------------------------------------------------------------------
Tick ==
    /\ now < MaxTime
    /\ \A r \in Requests : Is(r, "ask") => now - call[r].at < Delay
    /\ now' = now + 1
    /\ UNCHANGED <<seen, call>>

\* time.Now(), before the mutex.
Stamp(r, a) ==
    /\ call[r] = None
    /\ call' = [call EXCEPT ![r] = [ip |-> a, at |-> now, verdict |-> "ask", in |-> now]]
    /\ UNCHANGED <<now, seen>>

\* prune: a key whose hits are all gone is deleted.
Prune(hits, t) == {h \in hits : t - call[h].at < Window}

\* The keys of the map.
Keys(m) == {a \in Addresses : m[a] # {}}

\* Mutant: one more than the limit is admitted.
RoomAtLimit(hits) == Cardinality(hits) <= Limit

Room(hits) == Cardinality(hits) < Limit

\* Mutant: the map is left to grow.
SweepNever(m, t) == m

\* sweep.
Sweep(m, t) ==
    IF Cardinality(Keys(m)) > Cap THEN [a \in Addresses |-> Prune(m[a], t)] ELSE m

\* Mutant: a refused request counts like an admitted one.
RefusedCounts(r, hits) == hits \cup {r}

Refused(r, hits) == hits

\* The critical section.
Allow(r) ==
    LET a == call[r].ip
        hits == Prune(seen[a], call[r].at)
        Decide(v) == call' = [call EXCEPT ![r] =
                         [ip |-> a, at |-> call[r].at, verdict |-> v, in |-> now]]
    IN  /\ Is(r, "ask")
        /\ \/ /\ Room(hits)
              /\ Decide("in")
              /\ seen' = Sweep([seen EXCEPT ![a] = hits \cup {r}], call[r].at)
           \/ /\ ~Room(hits)
              /\ Decide("out")
              /\ seen' = [seen EXCEPT ![a] = Refused(r, hits)]
        /\ UNCHANGED now

LimiterNext ==
    \/ Tick
    \/ \E r \in Requests : Allow(r) \/ \E a \in Addresses : Stamp(r, a)

LimiterSpec == LimiterInit /\ [][LimiterNext]_limiter

-----------------------------------------------------------------------------
(* What must hold. *)

Admitted(a) == {r \in Requests : Is(r, "in") /\ call[r].ip = a}

\* At any time, of any stretch of Window - Delay that ends there, no address
\* has had more than Limit requests admitted in it, in whatever order requests
\* that read the clock got hold of the mutex: so the limit of a path is kept,
\* but for a window that is as much shorter as a request may wait.
WindowHolds ==
    \A a \in Addresses :
        Cardinality({r \in Admitted(a) : now - call[r].in < Window - Delay}) <= Limit

\* Beyond Cap addresses only such are remembered whose last hits lie within
\* Window + Delay of each other: not every address there ever was.
MapIsBounded ==
    Cardinality(Keys(seen)) > Cap =>
        \A a, b \in Keys(seen) : \A h \in seen[a] : \E g \in seen[b] :
            call[h].at - call[g].at < Window + Delay

=============================================================================

---------------------------- MODULE ServerProofs ----------------------------
(***************************************************************************)
(* Proofs about Server and the limiter in it, for every number of          *)
(* requests, addresses and servers, and every limit and window.            *)
(*                                                                         *)
(* Every step of the server is one of the limiter or leaves it alone, so   *)
(* what the limiter keeps is shown for it alone.  A request that is        *)
(* pruned was read at least a window before the reading that prunes it,    *)
(* and no reading is ahead of the clock: so what was admitted within a     *)
(* window is noted (Kept), and no address has more than Limit notes.       *)
(* Since a reading is at most Delay old when it decides, what is noted     *)
(* after a sweep lies within a window and a delay.                         *)
(***************************************************************************)
EXTENDS Server, FiniteSetTheorems, TLAPS

\* No reading is ahead of the clock, and none is used when it is too old.
Clock ==
    \A r \in Requests : call[r] # None =>
        /\ call[r].at <= call[r].in /\ call[r].in <= now
        /\ call[r].in <= call[r].at + Delay
        /\ call[r].verdict = "ask" => now <= call[r].at + Delay

\* What was admitted within a window is noted.
Kept ==
    \A r \in Requests :
        Is(r, "in") /\ now - call[r].at < Window => r \in seen[call[r].ip]

Full == \A a \in Addresses : IsFiniteSet(seen[a]) /\ Cardinality(seen[a]) <= Limit

\* Only so many addresses have asked.
KeysFinite == IsFiniteSet(Keys(seen))

LInv == LimiterTypeOK /\ Clock /\ Kept /\ Full /\ KeysFinite /\ MapIsBounded

-----------------------------------------------------------------------------
(* The limiter. *)

LEMMA CallType ==
    ASSUME LimiterTypeOK, NEW r \in Requests, call[r] # None
    PROVE  /\ call[r] \in Call /\ call[r].ip \in Addresses
           /\ call[r].at \in Nat /\ call[r].in \in Nat
           /\ call[r].verdict \in {"ask", "in", "out"}
  BY DEF LimiterTypeOK, Call

LEMMA TickStep == ASSUME LInv, Tick PROVE LInv'
<1> USE LimiterAssumption
<1>t. LimiterTypeOK /\ Clock /\ Kept /\ Full /\ KeysFinite /\ MapIsBounded
  BY DEF LInv
<1>1. now \in Nat /\ now' = now + 1 /\ UNCHANGED <<seen, call>>
      /\ \A r \in Requests : Is(r, "ask") => now - call[r].at < Delay
  BY <1>t DEF Tick, LimiterTypeOK
<1>2. LimiterTypeOK'
  BY <1>1, <1>t DEF LimiterTypeOK, Is
<1>3. Clock'
  BY <1>1, <1>t, CallType DEF Clock, Is
<1>4. Kept'
  <2> SUFFICES ASSUME NEW r \in Requests, Is(r, "in"), now' - call[r].at < Window
               PROVE  r \in seen[call[r].ip]
    BY <1>1 DEF Kept, Is
  <2>1. call[r].at \in Nat
    BY <1>t, CallType DEF Is
  <2> QED
    BY <1>1, <1>t, <2>1 DEF Kept
<1>5. Full' /\ KeysFinite' /\ MapIsBounded'
  BY <1>1, <1>t DEF Full, KeysFinite, MapIsBounded, Keys
<1> QED
  BY <1>2, <1>3, <1>4, <1>5 DEF LInv

LEMMA StampStep ==
    ASSUME LInv, NEW r \in Requests, NEW a \in Addresses, Stamp(r, a) PROVE LInv'
<1> USE LimiterAssumption
<1> DEFINE new == [ip |-> a, at |-> now, verdict |-> "ask", in |-> now]
<1>t. LimiterTypeOK /\ Clock /\ Kept /\ Full /\ KeysFinite /\ MapIsBounded
  BY DEF LInv
<1>1. /\ call[r] = None /\ call' = [call EXCEPT ![r] = new]
      /\ UNCHANGED <<now, seen>> /\ now \in Nat
  BY <1>t DEF Stamp, LimiterTypeOK
<1>2. new \in Call /\ new.at = now /\ new.in = now /\ new.verdict = "ask"
  BY <1>1 DEF Call
<1>3. call'[r] = new /\ \A q \in Requests \ {r} : call'[q] = call[q]
  BY <1>1, <1>t DEF LimiterTypeOK
<1> HIDE DEF new
<1>4. \A b \in Addresses : \A h \in seen[b] :
        h \in Requests /\ h # r /\ call'[h] = call[h]
  BY <1>1, <1>3, <1>t DEF LimiterTypeOK, Is
<1>5. LimiterTypeOK'
  <2>1. call' \in [Requests -> Call \cup {None}]
    BY <1>1, <1>2, <1>t DEF LimiterTypeOK
  <2> QED
    BY <1>1, <1>4, <1>t, <2>1 DEF LimiterTypeOK, Is
<1>6. Clock'
  <2>1. new.in <= new.at + Delay /\ now <= new.at + Delay /\ new.at <= new.in /\ new.in <= now
    BY <1>1, <1>2
  <2> QED
    BY <1>1, <1>3, <1>t, <2>1 DEF Clock
<1>7. Kept'
  BY <1>1, <1>2, <1>3, <1>t DEF Kept, Is
<1>8. Full' /\ KeysFinite'
  BY <1>1, <1>t DEF Full, KeysFinite, Keys
<1>9. MapIsBounded'
  <2>1. Keys(seen)' = Keys(seen)
    BY <1>1 DEF Keys
  <2> SUFFICES ASSUME Cardinality(Keys(seen)) > Cap,
                      NEW b \in Keys(seen), NEW c \in Keys(seen), NEW h \in seen[b]
               PROVE  \E g \in seen[c] : call'[h].at - call'[g].at < Window + Delay
    BY <1>1, <2>1 DEF MapIsBounded
  <2>2. PICK g \in seen[c] : call[h].at - call[g].at < Window + Delay
    BY <1>t DEF MapIsBounded
  <2>3. call'[h] = call[h] /\ call'[g] = call[g]
    BY <1>4 DEF Keys
  <2> QED
    BY <2>2, <2>3
<1> QED
  BY <1>5, <1>6, <1>7, <1>8, <1>9 DEF LInv

\* What a map may become in the critical section: notes of an address are
\* pruned by a reading t, and the deciding request may be noted.
LEMMA AllowStep == ASSUME LInv, NEW r \in Requests, Allow(r) PROVE LInv'
<1> USE LimiterAssumption
<1> DEFINE a == call[r].ip
           t == call[r].at
           hits == Prune(seen[a], t)
           m == [seen EXCEPT ![a] = hits \cup {r}]
<1>t. LimiterTypeOK /\ Clock /\ Kept /\ Full /\ KeysFinite /\ MapIsBounded
  BY DEF LInv
<1>1. PICK v \in {"in", "out"} :
        /\ call' = [call EXCEPT ![r] = [ip |-> a, at |-> t, verdict |-> v, in |-> now]]
        /\ \/ v = "in" /\ Room(hits) /\ seen' = Sweep(m, t)
           \/ v = "out" /\ ~Room(hits) /\ seen' = [seen EXCEPT ![a] = hits]
        /\ now' = now
  BY DEF Allow, Refused
<1>2. /\ call[r] # None /\ call[r].verdict = "ask" /\ a \in Addresses /\ t \in Nat /\ now \in Nat
      /\ t <= now /\ now <= t + Delay
  BY <1>t, CallType DEF Allow, Is, Clock, LimiterTypeOK
<1>3. /\ call'[r] # None /\ call'[r].ip = a /\ call'[r].at = t /\ call'[r].verdict = v
      /\ call'[r].in = now /\ call' \in [Requests -> Call \cup {None}]
      /\ \A q \in Requests \ {r} : call'[q] = call[q]
  <2>1. [ip |-> a, at |-> t, verdict |-> v, in |-> now] \in Call
    BY <1>2 DEF Call
  <2>2. Call = [ip: Addresses, at: Nat, verdict: {"ask", "in", "out"}, in: Nat]
    BY DEF Call
  <2> QED
    BY <1>1, <1>t, <2>1, <2>2 DEF LimiterTypeOK
<1>4. \A b \in Addresses : \A h \in seen[b] :
        /\ h \in Requests /\ h # r /\ call[h] # None /\ call[h].at \in Nat
        /\ call[h].at <= now /\ call[h].verdict = "in" /\ call[h].ip = b
  <2> SUFFICES ASSUME NEW b \in Addresses, NEW h \in seen[b]
               PROVE  /\ h \in Requests /\ h # r /\ call[h] # None /\ call[h].at \in Nat
                      /\ call[h].at <= now /\ call[h].verdict = "in" /\ call[h].ip = b
    OBVIOUS
  <2>1. h \in Requests /\ call[h] # None /\ call[h].verdict = "in" /\ call[h].ip = b
    BY <1>t DEF LimiterTypeOK, Is
  <2>2. call[h].at \in Nat /\ call[h].in \in Nat
    BY <1>t, <2>1, CallType
  <2> QED
    BY <1>t, <1>2, <2>1, <2>2 DEF Clock
<1>5. hits \subseteq seen[a] /\ \A h \in seen[a] : h \in hits <=> t - call[h].at < Window
  BY DEF Prune
\* The new map, key by key.
<1>6. /\ seen' \in [Addresses -> SUBSET Requests]
      /\ seen'[a] \subseteq hits \cup {r}
      /\ r \in seen'[a] => v = "in"
      /\ \A b \in Addresses \ {a} : seen'[b] \subseteq seen[b]
  <2>1. m \in [Addresses -> SUBSET Requests] /\ m[a] = hits \cup {r}
        /\ \A b \in Addresses \ {a} : m[b] = seen[b]
    BY <1>t, <1>2, <1>5 DEF LimiterTypeOK
  <2> HIDE DEF m
  <2>2. CASE v = "out"
    BY <1>1, <1>t, <1>2, <1>4, <1>5, <2>2 DEF LimiterTypeOK
  <2>3. CASE v = "in"
    <3>1. seen' = Sweep(m, t)
      BY <1>1, <2>3
    <3>2. CASE Cardinality(Keys(m)) > Cap
      <4>1. seen' = [b \in Addresses |-> Prune(m[b], t)]
        BY <3>1, <3>2 DEF Sweep
      <4>2. \A b \in Addresses : Prune(m[b], t) \subseteq m[b]
        BY DEF Prune
      <4>3. \A b \in Addresses : seen'[b] \subseteq m[b]
        BY <4>1, <4>2
      <4>4. seen' \in [Addresses -> SUBSET Requests]
        BY <2>1, <4>1, <4>2
      <4> QED
        BY <1>2, <2>1, <2>3, <4>3, <4>4
    <3>3. CASE ~(Cardinality(Keys(m)) > Cap)
      BY <1>2, <2>1, <2>3, <3>1, <3>3 DEF Sweep
    <3> QED
      BY <3>2, <3>3
  <2> QED
    BY <2>2, <2>3
\* What leaves the map is at least a window older than the reading.
<1>7. /\ \A b \in Addresses : \A h \in seen[b] : h \notin seen'[b] => t - call[h].at >= Window
      /\ v = "in" => r \in seen'[a]
  <2>1. m[a] = hits \cup {r} /\ \A b \in Addresses \ {a} : m[b] = seen[b]
    BY <1>t, <1>2 DEF LimiterTypeOK
  <2>2. \A h \in seen[a] : h \notin hits => t - call[h].at >= Window
    BY <1>2, <1>4, <1>5
  <2>3. CASE v = "out"
    BY <1>1, <1>t, <1>2, <2>2, <2>3 DEF LimiterTypeOK
  <2>4. CASE v = "in"
    <3>1. seen' = Sweep(m, t)
      BY <1>1, <2>4
    <3> HIDE DEF m
    <3>2. CASE Cardinality(Keys(m)) > Cap
      <4>1. seen' = [b \in Addresses |-> Prune(m[b], t)]
        BY <3>1, <3>2 DEF Sweep
      <4>2. \A b \in Addresses : \A h \in m[b] : h \notin seen'[b] => ~(t - call[h].at < Window)
        BY <4>1 DEF Prune
      <4>3. r \in seen'[a]
        BY <1>2, <2>1, <4>1 DEF Prune
      <4> QED
        BY <1>2, <1>4, <2>1, <2>2, <4>2, <4>3
    <3>3. CASE ~(Cardinality(Keys(m)) > Cap)
      BY <1>2, <2>1, <2>2, <3>1, <3>3 DEF Sweep
    <3> QED
      BY <3>2, <3>3
  <2> QED
    BY <2>3, <2>4
<1>8. LimiterTypeOK'
  <2>1. \A b \in Addresses : \A h \in seen'[b] : call'[h] # None /\ call'[h].verdict = "in" /\ call'[h].ip = b
    BY <1>3, <1>4, <1>5, <1>6
  <2>2. now' \in Nat
    BY <1>1, <1>2
  <2> QED
    BY <1>3, <1>6, <2>1, <2>2 DEF LimiterTypeOK, Is
<1>9. Clock'
  <2> SUFFICES ASSUME NEW q \in Requests, call'[q] # None
               PROVE  /\ call'[q].at <= call'[q].in /\ call'[q].in <= now'
                      /\ call'[q].in <= call'[q].at + Delay
                      /\ call'[q].verdict = "ask" => now' <= call'[q].at + Delay
    BY DEF Clock
  <2>1. CASE q = r
    BY <1>1, <1>2, <1>3, <2>1
  <2>2. CASE q # r
    BY <1>1, <1>3, <1>t, <2>2 DEF Clock
  <2> QED
    BY <2>1, <2>2
<1>10. Kept'
  <2> SUFFICES ASSUME NEW q \in Requests, call'[q] # None, call'[q].verdict = "in",
                      now' - call'[q].at < Window
               PROVE  q \in seen'[call'[q].ip]
    BY DEF Kept, Is
  <2>1. CASE q = r
    BY <1>3, <1>7, <2>1
  <2>2. CASE q # r
    <3>1. call'[q] = call[q] /\ call[q].at \in Nat /\ call[q].ip \in Addresses
      BY <1>3, <1>t, <2>2, CallType
    <3>2. q \in seen[call[q].ip]
      BY <1>1, <1>t, <3>1 DEF Kept, Is
    <3>3. t - call[q].at < Window
      BY <1>1, <1>2, <3>1
    <3>4. ~(t - call[q].at >= Window)
      BY <1>2, <3>1, <3>3
    <3> QED
      BY <1>7, <3>1, <3>2, <3>4
  <2> QED
    BY <2>1, <2>2
<1>11. Full'
  <2> SUFFICES ASSUME NEW b \in Addresses
               PROVE  IsFiniteSet(seen'[b]) /\ Cardinality(seen'[b]) <= Limit
    BY DEF Full
  <2>1. IsFiniteSet(seen[b]) /\ Cardinality(seen[b]) <= Limit /\ Cardinality(seen[b]) \in Nat
    BY <1>t, FS_CardinalityType DEF Full
  <2>2. ASSUME NEW T, T \subseteq seen[b]
        PROVE  IsFiniteSet(T) /\ Cardinality(T) \in Nat /\ Cardinality(T) <= Limit
    BY <2>1, <2>2, FS_Subset, FS_CardinalityType
  <2>3. CASE b # a \/ v = "out"
    BY <1>5, <1>6, <2>2, <2>3
  <2>4. CASE b = a /\ v = "in"
    <3>1. IsFiniteSet(hits) /\ Cardinality(hits) \in Nat /\ Cardinality(hits) < Limit
      BY <1>1, <1>5, <2>2, <2>4 DEF Room
    <3>2. r \notin hits
      BY <1>2, <1>4, <1>5
    <3>3. IsFiniteSet(hits \cup {r}) /\ Cardinality(hits \cup {r}) = Cardinality(hits) + 1
      BY <3>1, <3>2, FS_AddElement
    <3>4. Cardinality(hits \cup {r}) <= Limit /\ Cardinality(hits \cup {r}) \in Nat
      BY <3>1, <3>3
    <3> HIDE DEF hits
    <3>5. IsFiniteSet(seen'[a]) /\ Cardinality(seen'[a]) <= Cardinality(hits \cup {r})
      BY <1>6, <3>3, FS_Subset
    <3> QED
      BY <2>4, <3>4, <3>5, FS_CardinalityType
  <2> QED
    BY <2>3, <2>4
<1>12. KeysFinite'
  <2>1. Keys(seen)' \subseteq Keys(seen) \cup {a}
    BY <1>6 DEF Keys
  <2>2. IsFiniteSet(Keys(seen) \cup {a})
    BY <1>t, FS_AddElement DEF KeysFinite
  <2> QED
    BY <2>1, <2>2, FS_Subset DEF KeysFinite
<1>13. MapIsBounded'
  <2> SUFFICES ASSUME Cardinality(Keys(seen)') > Cap,
                      NEW b \in Keys(seen)', NEW c \in Keys(seen)', NEW h \in seen'[b]
               PROVE  \E g \in seen'[c] : call'[h].at - call'[g].at < Window + Delay
    BY DEF MapIsBounded, Keys
  <2>1. b \in Addresses /\ c \in Addresses /\ seen'[c] # {}
    BY DEF Keys
  <2>2. \A d \in Addresses : \A g \in seen'[d] :
          call'[g].at \in Nat /\ call'[g].at <= now /\ call'[g].at = call[g].at
    BY <1>2, <1>3, <1>4, <1>5, <1>6
  \* Where the notes of c were pruned any of them will do.
  <2>3. ASSUME \A g \in seen'[c] : t - call[g].at < Window
        PROVE  \E g \in seen'[c] : call'[h].at - call'[g].at < Window + Delay
    <3>1. PICK g \in seen'[c] : TRUE
      BY <2>1
    <3>2. call'[h].at \in Nat /\ call'[g].at \in Nat /\ call'[h].at <= now
          /\ t - call'[g].at < Window
      BY <2>1, <2>2, <2>3
    <3>3. call'[h].at - call'[g].at < Window + Delay
      BY <1>2, <3>2
    <3> QED
      BY <3>3
  <2>4. \A g \in hits \cup {r} : t - call[g].at < Window
    BY <1>2, <1>4, <1>5
  <2>5. CASE v = "out"
    <3>1. seen' = [seen EXCEPT ![a] = hits]
      BY <1>1, <2>5
    <3>2. CASE c = a
      <4>1. \A g \in seen'[c] : t - call[g].at < Window
        BY <1>2, <1>t, <2>4, <3>1, <3>2 DEF LimiterTypeOK
      <4> QED
        BY <2>3, <4>1
    <3>3. CASE c # a
      <4>1. \A d \in Addresses : seen'[d] \subseteq seen[d]
        BY <1>5, <1>6, <2>5
      <4>2. Keys(seen)' \subseteq Keys(seen)
        BY <4>1 DEF Keys
      <4>3. Cardinality(Keys(seen)) > Cap
        <5>1. Cardinality(Keys(seen)') <= Cardinality(Keys(seen))
          BY <1>t, <4>2, FS_Subset DEF KeysFinite
        <5>2. Cardinality(Keys(seen)) \in Nat /\ Cardinality(Keys(seen)') \in Nat
          BY <1>t, <1>12, FS_CardinalityType DEF KeysFinite
        <5> QED
          BY <5>1, <5>2
      <4>4. h \in seen[b] /\ b \in Keys(seen) /\ c \in Keys(seen)
        BY <2>1, <4>1, <4>2
      <4>5. PICK g \in seen[c] : call[h].at - call[g].at < Window + Delay
        BY <1>t, <4>3, <4>4 DEF MapIsBounded
      <4>6. g \in seen'[c]
        BY <1>t, <2>1, <3>1, <3>3 DEF LimiterTypeOK
      <4> QED
        BY <2>1, <2>2, <4>5, <4>6
    <3> QED
      BY <3>2, <3>3
  <2>6. CASE v = "in"
    <3>1. seen' = Sweep(m, t)
      BY <1>1, <2>6
    <3> HIDE DEF m
    <3>2. Cardinality(Keys(m)) > Cap
      <4> SUFFICES ASSUME ~(Cardinality(Keys(m)) > Cap) PROVE FALSE
        OBVIOUS
      <4>1. seen' = m
        BY <3>1 DEF Sweep
      <4> QED
        BY <4>1 DEF Keys
    <3>3. seen' = [d \in Addresses |-> Prune(m[d], t)]
      BY <3>1, <3>2 DEF Sweep
    <3>4. \A g \in seen'[c] : t - call[g].at < Window
      BY <2>1, <3>3 DEF Prune
    <3> QED
      BY <2>3, <3>4
  <2> QED
    BY <2>5, <2>6
<1> QED
  BY <1>8, <1>9, <1>10, <1>11, <1>12, <1>13 DEF LInv

LEMMA LimiterInvariance == LimiterSpec => []LInv
<1>1. LimiterInit => LInv
  <2> SUFFICES ASSUME LimiterInit PROVE LInv
    OBVIOUS
  <2>1. LimiterTypeOK /\ Clock /\ Kept
    BY DEF LimiterInit, LimiterTypeOK, Clock, Kept, Is
  <2>2. Full
    BY FS_EmptySet, LimiterAssumption DEF LimiterInit, Full
  <2>3. Keys(seen) = {}
    BY DEF LimiterInit, Keys
  <2>4. KeysFinite /\ MapIsBounded
    BY <2>3, FS_EmptySet, LimiterAssumption DEF KeysFinite, MapIsBounded
  <2> QED
    BY <2>1, <2>2, <2>4 DEF LInv
<1>2. LInv /\ [LimiterNext]_limiter => LInv'
  <2>1. LInv /\ UNCHANGED limiter => LInv'
    BY DEF limiter, LInv, LimiterTypeOK, Clock, Kept, Full, KeysFinite, MapIsBounded, Keys, Is
  <2> QED
    BY <2>1, TickStep, StampStep, AllowStep DEF LimiterNext
<1> QED
  BY <1>1, <1>2, PTL DEF LimiterSpec

\* The server only ever uses its limiter as the limiter is meant to be used.
THEOREM ServerLimits == Spec => LimiterSpec
<1>1. Init => LimiterInit
  BY DEF Init
<1>2. [Next]_vars => [LimiterNext]_limiter
  <2>1. ASSUME NEW r \in Requests, Enter(r) \/ Ask(r) PROVE [LimiterNext]_limiter
    BY <2>1 DEF Enter, Ask, LimiterNext
  <2>2. ASSUME NEW r \in Requests, Handle(r) PROVE [LimiterNext]_limiter
    BY <2>2 DEF Handle, Decide, Leave, LimiterNext
  <2>3. ASSUME UNCHANGED vars PROVE [LimiterNext]_limiter
    BY <2>3 DEF vars
  <2> QED
    BY <2>1, <2>2, <2>3 DEF Next, LimiterNext
<1> QED
  BY <1>1, <1>2, PTL DEF Spec, LimiterSpec

\* Allow keeps the limit although requests overtake each other between reading
\* the clock and getting the mutex: no address is let in more than Limit times
\* in a window that is shorter by the longest wait.
THEOREM LimitIsKept == Spec => []WindowHolds
<1>1. LInv => WindowHolds
  <2> SUFFICES ASSUME LInv, NEW a \in Addresses
               PROVE  Cardinality({r \in Admitted(a) : now - call[r].in < Window - Delay}) <= Limit
    BY DEF WindowHolds
  <2> DEFINE recent == {r \in Admitted(a) : now - call[r].in < Window - Delay}
  <2>1. recent \subseteq seen[a]
    <3> SUFFICES ASSUME NEW r \in recent PROVE r \in seen[a]
      OBVIOUS
    <3>1. r \in Requests /\ Is(r, "in") /\ call[r].ip = a /\ now - call[r].in < Window - Delay
      BY DEF Admitted
    <3>2. call[r].at \in Nat /\ call[r].in \in Nat /\ now \in Nat /\ call[r].in <= call[r].at + Delay
      BY <3>1, CallType DEF LInv, Is, Clock, LimiterTypeOK
    <3>3. now - call[r].at < Window
      BY <3>1, <3>2, LimiterAssumption
    <3> QED
      BY <3>1, <3>3 DEF LInv, Kept
  <2>2. IsFiniteSet(seen[a]) /\ Cardinality(seen[a]) <= Limit /\ Cardinality(seen[a]) \in Nat
    BY FS_CardinalityType DEF LInv, Full
  <2> HIDE DEF recent
  <2>3. IsFiniteSet(recent) /\ Cardinality(recent) <= Cardinality(seen[a])
    BY <2>1, <2>2, FS_Subset
  <2>4. Cardinality(recent) \in Nat
    BY <2>3, FS_CardinalityType
  <2>5. Cardinality(recent) <= Limit
    BY <2>2, <2>3, <2>4, LimiterAssumption
  <2> QED
    BY <2>5 DEF recent
<1> QED
  BY ServerLimits, LimiterInvariance, <1>1, PTL

\* sweep keeps the map from remembering every address there ever was.
THEOREM MapStaysBounded == Spec => []MapIsBounded
<1>1. LInv => MapIsBounded
  BY DEF LInv
<1> QED
  BY ServerLimits, LimiterInvariance, <1>1, PTL

-----------------------------------------------------------------------------
(* Refusals. *)

\* Nobody is refused for nothing: behind every refusal there are Limit requests
\* of the same address that were admitted before it and read the clock less
\* than a window before its own reading, or after it.
RefusedAtLimit ==
    \A r \in Requests : Is(r, "out") =>
        \E H \in SUBSET Admitted(call[r].ip) :
            /\ IsFiniteSet(H) /\ Cardinality(H) = Limit
            /\ \A h \in H : call[r].at - call[h].at < Window /\ call[h].in <= call[r].in

\* A decided request keeps its verdict, so what stood behind a refusal stays.
LEMMA RefusalStays ==
    ASSUME LInv, [LimiterNext]_limiter,
           NEW r \in Requests, Is(r, "in") \/ Is(r, "out")
    PROVE  call'[r] = call[r]
<1>1. ASSUME NEW q \in Requests, Allow(q) PROVE call'[r] = call[r]
  <2>1. q # r
    BY <1>1 DEF Allow, Is
  <2> QED
    BY <1>1, <2>1 DEF Allow, LInv, LimiterTypeOK
<1>2. ASSUME NEW q \in Requests, NEW a \in Addresses, Stamp(q, a) PROVE call'[r] = call[r]
  <2>1. q # r
    BY <1>2 DEF Stamp, Is
  <2> QED
    BY <1>2, <2>1 DEF Stamp, LInv, LimiterTypeOK
<1> QED
  BY <1>1, <1>2 DEF LimiterNext, Tick, limiter

LEMMA RefusedStep ==
    LInv /\ RefusedAtLimit /\ [LimiterNext]_limiter => RefusedAtLimit'
<1> SUFFICES ASSUME LInv, RefusedAtLimit, [LimiterNext]_limiter, NEW r \in Requests, Is(r, "out")'
             PROVE  \E H \in SUBSET Admitted(call[r].ip)' :
                       /\ IsFiniteSet(H) /\ Cardinality(H) = Limit
                       /\ \A h \in H : call'[r].at - call'[h].at < Window /\ call'[h].in <= call'[r].in
  BY DEF RefusedAtLimit
<1>t. LimiterTypeOK /\ Clock /\ Full
  BY DEF LInv
\* Who was admitted stays so.
<1>1. \A a : \A h \in Admitted(a) : h \in Admitted(a)' /\ call'[h] = call[h]
  BY RefusalStays DEF Admitted, Is
<1>2. CASE Is(r, "out")
  <2>1. PICK H \in SUBSET Admitted(call[r].ip) :
          /\ IsFiniteSet(H) /\ Cardinality(H) = Limit
          /\ \A h \in H : call[r].at - call[h].at < Window /\ call[h].in <= call[r].in
    BY <1>2 DEF RefusedAtLimit
  <2>2. call'[r] = call[r]
    BY <1>2, RefusalStays
  <2> QED
    BY <1>1, <2>1, <2>2
\* It is refused now: the hits that were left are the witness.
<1>3. CASE ~Is(r, "out")
  <2> DEFINE a == call[r].ip
             t == call[r].at
             hits == Prune(seen[a], t)
  <2>1. Allow(r)
    <3>1. ASSUME NEW q \in Requests, Allow(q), q # r PROVE FALSE
      BY <1>3, <1>t, <3>1 DEF Allow, Is, LimiterTypeOK
    <3>2. ASSUME NEW q \in Requests, NEW b \in Addresses, Stamp(q, b) PROVE FALSE
      <4>1. CASE q = r
        BY <1>t, <3>2, <4>1 DEF Stamp, Is, LimiterTypeOK
      <4>2. CASE q # r
        BY <1>3, <1>t, <3>2, <4>2 DEF Stamp, Is, LimiterTypeOK
      <4> QED
        BY <4>1, <4>2
    <3>3. ASSUME Tick \/ UNCHANGED limiter PROVE FALSE
      BY <1>3, <3>3 DEF Tick, limiter, Is
    <3> QED
      BY <3>1, <3>2, <3>3 DEF LimiterNext
  <2>2. a \in Addresses /\ t \in Nat
    BY <2>1, <1>t, CallType DEF Allow, Is
  <2>3. /\ ~Room(hits)
        /\ call'[r].ip = a /\ call'[r].at = t /\ call'[r].in = now
    <3>1. PICK v \in {"in", "out"} :
            /\ call' = [call EXCEPT ![r] = [ip |-> a, at |-> t, verdict |-> v, in |-> now]]
            /\ v = "out" => ~Room(hits)
      BY <2>1 DEF Allow
    <3>2. call'[r] = [ip |-> a, at |-> t, verdict |-> v, in |-> now]
      BY <3>1, <1>t DEF LimiterTypeOK
    <3> HIDE DEF a, t, hits
    <3>3. v = "out"
      BY <3>2 DEF Is
    <3> QED
      BY <3>1, <3>2, <3>3
  <2>4. hits \subseteq seen[a] /\ \A h \in hits : t - call[h].at < Window
    BY DEF Prune
  <2>5. hits \in SUBSET Admitted(a)
    BY <1>t, <2>2, <2>4 DEF LimiterTypeOK, Admitted
  <2>6. \A h \in hits : call[h].in <= now
    BY <1>t, <2>5 DEF Clock, Admitted, Is
  <2>7. IsFiniteSet(hits) /\ Cardinality(hits) = Limit
    <3>1. IsFiniteSet(seen[a]) /\ Cardinality(seen[a]) <= Limit /\ Cardinality(seen[a]) \in Nat
      BY <1>t, <2>2, FS_CardinalityType DEF Full
    <3> HIDE DEF hits
    <3>2. IsFiniteSet(hits) /\ Cardinality(hits) <= Cardinality(seen[a])
      BY <2>4, <3>1, FS_Subset
    <3>3. Cardinality(hits) \in Nat
      BY <3>2, FS_CardinalityType
    <3>4. Cardinality(hits) >= Limit
      BY <2>3, <3>3, LimiterAssumption DEF Room
    <3> QED
      BY <3>1, <3>2, <3>3, <3>4, LimiterAssumption
  <2> HIDE DEF a, t, hits
  <2>8. hits \in SUBSET Admitted(call[r].ip)'
    BY <1>1, <2>3, <2>5
  <2>9. \A h \in hits : call'[r].at - call'[h].at < Window /\ call'[h].in <= call'[r].in
    BY <1>1, <2>3, <2>4, <2>5, <2>6
  <2> QED
    BY <2>7, <2>8, <2>9
<1> QED
  BY <1>2, <1>3

\* The other side of LimitIsKept: a path refuses only what exceeds its limit.
\* Sweeps, refusals, other addresses and overtaking requests never cost an
\* address a request.
THEOREM RefusalsAreDue == Spec => []RefusedAtLimit
<1>1. LimiterInit => RefusedAtLimit
  BY DEF LimiterInit, RefusedAtLimit, Is
<1> QED
  BY ServerLimits, LimiterInvariance, <1>1, RefusedStep, PTL DEF LimiterSpec

-----------------------------------------------------------------------------
(* The process. *)

\* Who has drained a server left no request in it; who returned has drained all.
AInv ==
    /\ run \in {"wait", "notified", "returned", "failed", "killed"}
    /\ signal \in {"none", "queued", "taken"}
    /\ cancelled \in BOOLEAN /\ error \in BOOLEAN
    /\ start \in [Servers -> {"new", "begun", "serving", "closed"}]
    /\ stop \in [Servers -> {"waits", "drains", "done"}]
    /\ active \in [Requests -> Servers \cup {None}]
    /\ \A s \in Servers : stop[s] = "done" => Idle(s)
    /\ run \in {"returned", "failed"} => \A s \in Servers : stop[s] = "done"

LEMMA AppInvariance == Spec => []AInv
<1>1. Init => AInv
  BY DEF Init, AInv
<1>2. AInv /\ [Next]_vars => AInv'
  <2> SUFFICES ASSUME AInv, [Next]_vars PROVE AInv'
    OBVIOUS
  <2> USE ServerAssumption DEF AInv
  <2>1. ASSUME UNCHANGED app PROVE AInv'
    BY <2>1 DEF app, Idle
  <2>2. ASSUME NEW r \in Requests, NEW s \in Servers, Accept(r, s) PROVE AInv'
    BY <2>2 DEF Accept, Alive, Idle
  <2>3. ASSUME NEW r \in Requests, Finish(r) PROVE AInv'
    BY <2>3 DEF Finish, Alive, Idle
  <2>4. ASSUME NEW s \in Servers, Begin(s) \/ Serve(s) \/ ServeFails(s) \/ ServeEnds(s) PROVE AInv'
    <3>1. UNCHANGED <<run, signal, stop, active>>
      BY <2>4 DEF Begin, Serve, ServeFails, ServeEnds
    <3>2. start' \in [Servers -> {"new", "begun", "serving", "closed"}]
      BY <2>4 DEF Begin, Serve, ServeFails, ServeEnds
    <3>3. cancelled' \in BOOLEAN /\ error' \in BOOLEAN
      BY <2>4, Zenon DEF Begin, Serve, ServeFails, ServeEnds
    <3> QED
      BY <3>1, <3>2, <3>3 DEF Idle
  <2>5. ASSUME NEW s \in Servers, Stop(s) PROVE AInv'
    BY <2>5 DEF Stop, Alive, Idle
  <2>6. ASSUME NEW s \in Servers, StopEnds(s) PROVE AInv'
    BY <2>6 DEF StopEnds, Drained, Alive, Idle
  <2>7. CASE Notify \/ Signal \/ AppStop
    BY <2>7 DEF Notify, Signal, AppStop, Alive, Idle
  <2>8. CASE Return
    BY <2>8 DEF Return, Awaited, Idle
  <2>9. ASSUME NEW r \in Requests, Enter(r) \/ Ask(r) \/ Handle(r) PROVE AInv'
    BY <2>1, <2>2, <2>3, <2>9 DEF Enter, Ask, Handle, Decide, Leave
  <2>10. CASE AppSteps
    BY <2>4, <2>5, <2>6, <2>7, <2>8, <2>10 DEF AppSteps, Lifecycle
  <2>11. CASE UNCHANGED vars
    BY <2>1, <2>11 DEF vars
  <2> HIDE DEF AInv
  <2> QED
    BY <2>1, <2>9, <2>10, <2>11 DEF Next
<1> QED
  BY <1>1, <1>2, PTL DEF Spec

\* Type correctness of the process and the limiter in it.
THEOREM TypeCorrect == Spec => []TypeOK
<1>1. AInv /\ LInv => TypeOK
  BY DEF AInv, LInv, TypeOK
<1> QED
  BY AppInvariance, ServerLimits, LimiterInvariance, <1>1, PTL

\* Run returns only when Shutdown and GracefulStop have let every handler
\* finish, whether it was a signal or the failure of a server that ended it.
THEOREM NobodyIsCutOff == Spec => []DrainedBeforeExit
<1>1. AInv => DrainedBeforeExit
  BY ServerAssumption DEF AInv, DrainedBeforeExit, Idle
<1> QED
  BY AppInvariance, <1>1, PTL

-----------------------------------------------------------------------------
(* The end of the process. *)

\* The main goroutine waits for those that serve, later for all; those that
\* stop wait for the context, then for the handlers; those that serve for a
\* stop.  Who can take a step of his own nevertheless, without a new request,
\* a failure or a signal: the guards of the steps that fairness is asked of.
MainGoesOn ==
    \/ run = "wait" /\ \A s \in Servers : start[s] # "new"
    \/ signal = "queued" /\ ~cancelled
    \/ run = "notified" /\ Awaited

GoesOn(s) ==
    \/ start[s] \in {"new", "begun"}
    \/ start[s] = "serving" /\ stop[s] # "waits"
    \/ stop[s] = "waits" /\ Hears
    \/ stop[s] = "drains" /\ Drained(s)

\* What handles a request: to be decided, or decided and answered.
HandlerGoesOn(r) == active[r] # None

\* Everybody waits for somebody, but never all of them for each other: once the
\* process is told to stop or has lost a server, whatever the moment, it is at
\* its end or somebody can go on.
NoStandstill ==
    Alive /\ (signal # "none" \/ cancelled) =>
        \/ MainGoesOn
        \/ \E s \in Servers : GoesOn(s)
        \/ \E r \in Requests : HandlerGoesOn(r)

\* A signal that was taken has cancelled the context.
Heard == signal = "taken" => cancelled

LEMMA HeardInvariance == Spec => []Heard
<1>1. Init => Heard
  BY DEF Init, Heard
<1>2. Heard /\ [Next]_vars => Heard'
  <2> SUFFICES ASSUME Heard, [Next]_vars PROVE Heard'
    OBVIOUS
  <2>1. CASE UNCHANGED app
    BY <2>1 DEF app, Heard
  <2>2. ASSUME NEW r \in Requests, Enter(r) \/ Ask(r) \/ Handle(r) PROVE Heard'
    BY <2>1, <2>2 DEF Enter, Ask, Handle, Decide, Leave, Accept, Finish, Heard
  <2>3. ASSUME NEW s \in Servers, Lifecycle(s) \/ ServeFails(s) PROVE Heard'
    BY <2>3 DEF Lifecycle, Begin, Serve, ServeFails, Stop, ServeEnds, StopEnds, Heard
  <2>4. CASE Notify \/ Signal \/ AppStop \/ Return
    BY <2>4 DEF Notify, Signal, AppStop, Return, Heard
  <2> QED
    BY <2>1, <2>2, <2>3, <2>4 DEF Next, AppSteps, vars
<1> QED
  BY <1>1, <1>2, PTL DEF Spec

\* Run comes to its end: of all that wait for each other when the process is
\* stopped, at any moment of its life, one can always go on.
THEOREM ShutdownGoesOn == Spec => []NoStandstill
<1>1. AInv /\ Heard => NoStandstill
  <2> SUFFICES ASSUME AInv, Heard, Alive, signal # "none" \/ cancelled,
                      ~MainGoesOn, \A s \in Servers : ~GoesOn(s),
                      \A r \in Requests : ~HandlerGoesOn(r)
               PROVE  FALSE
    BY DEF NoStandstill
  <2>1. cancelled
    BY DEF MainGoesOn, Heard, AInv
  <2>2. \A s \in Servers : Idle(s)
    BY ServerAssumption DEF HandlerGoesOn, Idle
  <2>3. \A s \in Servers : stop[s] = "done"
    BY <2>1, <2>2 DEF GoesOn, Hears, Drained, AInv
  <2>4. \A s \in Servers : start[s] = "closed"
    BY <2>3 DEF GoesOn, AInv
  <2> QED
    BY <2>1, <2>3, <2>4 DEF MainGoesOn, Awaited, Alive
<1> QED
  BY AppInvariance, HeardInvariance, <1>1, PTL

=============================================================================

----------------------------- MODULE AuthProofs -----------------------------
(***************************************************************************)
(* Proofs about sessions, for every number of users, tabs and requests and *)
(* every choice of lifetimes.  Five invariants, each inductive with the    *)
(* ones before it:                                                         *)
(*   Shape       types, and that the tokens suffice;                       *)
(*   Admissions  what is left of an access token and the ticks since its   *)
(*               user was admitted add up to one lifetime and one handler; *)
(*   Lineage     a refresh token is in Redis, or spent and on its way to   *)
(*               an heir, or spent and has its heir;                       *)
(*   Logins      the tokens of a login form a chain, and only its last one *)
(*               is live or being exchanged;                               *)
(*   Holding     a refresh token that was not copied from a storage is     *)
(*               held by one tab, which refreshes once at a time.          *)
(***************************************************************************)
EXTENDS Auth, FiniteSetTheorems, TLAPS

-----------------------------------------------------------------------------
(* The invariants. *)

\* Requests that may still be given a token.
Asking == {q \in Requests : call[q].at \in {"sent", "login", "refresh", "consumed", "read"}}

Filled(c) ==
    /\ c.at \in {"read", "signed"} => c.access \in Access
    /\ c.at \in {"login", "consumed", "read", "signed"} => c.user \in Users
    /\ c.at = "refresh" => c.old # 0
    /\ c.at \in {"sent", "joined", "login"} => c.old = 0
    /\ c.at = "read" => c.access.user = c.user

Shape ==
    /\ TypeOK
    /\ \A q \in Requests : Filled(call[q])
    /\ \A n \in Tokens : redis[n] # None => redis[n].left > 0
    /\ used + Cardinality(Asking) <= MaxTokens

Admissible(a, bound) ==
    a # None /\ a.left > 0 => since[a.user][a.role] + a.left <= bound

Admissions ==
    /\ \A u \in Users, r \in Roles : Admitted(u, r) => since[u][r] = 0
    /\ \A t \in Tabs : Admissible(memory[t].access, AccessTTL + Deadline)
    /\ \A s \in Stores : Admissible(stored[s].access, AccessTTL + Deadline)
    /\ \A q \in Requests :
          /\ call[q].at \in {"sent", "signed"} => Admissible(call[q].access, AccessTTL + Deadline)
          /\ call[q].at = "read" =>
                since[call[q].access.user][call[q].access.role] + call[q].access.left <= Deadline

\* A refresh that has spent its token and has no new one yet.
Expecting(q) == call[q].at \in {"consumed", "read"} /\ call[q].old # 0

Lineage ==
    /\ \A n \in Tokens : redis[n] # None => n <= used /\ n \notin spent
    /\ \A n \in spent : n <= used
    /\ \A x \in 1..used : parent[x] # 0 => parent[x] \in spent
    /\ \A q \in Requests : Expecting(q) =>
          call[q].old \in spent /\ \A x \in 1..used : parent[x] # call[q].old
    /\ \A p, q \in Requests : Expecting(p) /\ Expecting(q) /\ call[p].old = call[q].old => p = q
    /\ OneHeir

\* q is the refresh that tab t waits for, with token n.
Exchanges(q, t, n) ==
    /\ OfTab(q, t) /\ call[q].old = n
    /\ call[q].at \in {"refresh", "consumed", "read", "signed", "refused"}

Fresh(n) == n \in Tokens /\ n \notin restored

\* Every token that is about was issued.
Issued ==
    /\ \A t \in Tabs : memory[t].refresh <= used
    /\ \A s \in Stores : stored[s].refresh <= used
    /\ \A q \in Requests : call[q].old <= used /\ call[q].new <= used
    /\ \A n \in restored : n <= used

OneRefresh ==
    \A p, q \in Requests, t \in Tabs, m, n \in Tokens :
        Exchanges(p, t, m) /\ Exchanges(q, t, n) => p = q

\* A token on its way to the tab is nowhere else.
NewIsNew ==
    \A p \in Requests : call[p].at = "signed" =>
        /\ call[p].new \in Tokens \ (spent \cup restored)
        /\ \A t \in Tabs : memory[t].refresh # call[p].new
        /\ \A s \in Stores : stored[s].refresh # call[p].new
        /\ \A q \in Requests : call[q].old # call[p].new
        /\ \A q \in Requests : call[q].at = "signed" /\ call[q].new = call[p].new => q = p

OneHolder ==
    /\ \A t, x \in Tabs : Fresh(memory[t].refresh) /\ memory[t].refresh = memory[x].refresh => t = x
    /\ \A q \in Requests, t, x \in Tabs, n \in Tokens :
          Fresh(n) /\ Exchanges(q, t, n) /\ memory[x].refresh = n => x = t

OneExchange ==
    \A p, q \in Requests, t, x \in Tabs, n \in Tokens :
        Fresh(n) /\ Exchanges(p, t, n) /\ Exchanges(q, x, n) => p = q

\* A refresh nobody waits for has a token that nobody has any more.
Orphaned ==
    \A q \in Requests : call[q].at = "refresh" /\ ~call[q].awaited /\ Fresh(call[q].old) =>
        /\ \A t \in Tabs : memory[t].refresh # call[q].old
        /\ \A p \in Requests, t \in Tabs : ~Exchanges(p, t, call[q].old)

\* What a tab has is good, or being exchanged by the tab.
GoodOrExchanged ==
    \A t \in Tabs : Fresh(memory[t].refresh) /\ memory[t].refresh \in spent =>
        \E q \in Requests : Exchanges(q, t, memory[t].refresh)

Holding ==
    /\ Issued /\ OneRefresh /\ NewIsNew /\ OneHolder /\ OneExchange /\ Orphaned
    /\ GoodOrExchanged /\ NeverTwice

-----------------------------------------------------------------------------
(* Types. *)

LEMMA NoneType == None \notin Users /\ None \notin Roles /\ None \notin Access
  BY AuthAssumption DEF Access

LEMMA AccessParts == \A a \in Access : a.user \in Users /\ a.role \in Roles /\ a.left \in Nat
  BY DEF Access

LEMMA NoCallType == NoCall \in Call /\ Filled(NoCall)
  BY AuthAssumption DEF NoCall, Call, Filled

LEMMA FadingType ==
    ASSUME NEW a \in Access \cup {None}
    PROVE  /\ a = None => Fading(a) = None
           /\ a # None => /\ Fading(a) \in Access /\ Fading(a).user = a.user
                         /\ Fading(a).left = Less(a.left)
                         /\ (Fading(a).left > 0 => Fading(a).role = a.role)
                         /\ Fading(a) # None
<1>1. AnyRole \in Roles
  BY AuthAssumption DEF AnyRole
<1> QED
  BY <1>1, NoneType DEF Access, Fading, Less

LEMMA HurryingType ==
    ASSUME NEW a \in Access
    PROVE  /\ Hurrying(a) \in Access /\ Hurrying(a).user = a.user
           /\ Hurrying(a).role = a.role /\ Hurrying(a).left = Less(a.left)
  BY DEF Access, Hurrying, Less

LEMMA AskingFinite ==
    /\ IsFiniteSet(Asking) /\ Cardinality(Asking) \in Nat
<1>1. Asking \in SUBSET Requests
  BY DEF Asking
<1> QED
  BY <1>1, AuthAssumption, FS_Subset, FS_CardinalityType

LEMMA FewerAsking ==
    ASSUME Shape, TypeOK', \A q \in Requests : Filled(call'[q]),
           \A n \in Tokens : redis'[n] # None => redis'[n].left > 0,
           Asking' \subseteq Asking, UNCHANGED used
    PROVE  Shape'
<1>1. Cardinality(Asking') <= Cardinality(Asking) /\ Cardinality(Asking') \in Nat
  <2> DEFINE A == Asking'
  <2>1. IsFiniteSet(A) /\ Cardinality(A) <= Cardinality(Asking)
    BY AskingFinite, FS_Subset, A \in SUBSET Asking
  <2> QED
    BY <2>1, FS_CardinalityType
<1> QED
  BY <1>1, AskingFinite, AuthAssumption DEF Shape, TypeOK

\* A request that goes on, and asks for nothing new.
LEMMA CallShape ==
    ASSUME Shape, NEW q \in Requests, NEW c \in Call, Filled(c),
           call' = [call EXCEPT ![q] = c], UNCHANGED <<users, parent, used, client>>,
           redis' \in [Tokens -> Key \cup {None}], spent' \subseteq Tokens,
           \A n \in Tokens : redis'[n] # None => redis'[n].left > 0,
           c.at \in {"sent", "login", "refresh", "consumed", "read"} =>
              call[q].at \in {"sent", "login", "refresh", "consumed", "read"}
    PROVE  Shape'
<1>1. TypeOK'
  BY DEF Shape, TypeOK, users, client
<1>2. \A x \in Requests : call'[x] = IF x = q THEN c ELSE call[x]
  BY DEF Shape, TypeOK
<1>3. \A x \in Requests : Filled(call'[x])
  BY <1>2 DEF Shape
<1>4. Asking' \subseteq Asking
  BY <1>2 DEF Asking
<1> QED
  BY <1>1, <1>3, <1>4, FewerAsking

LEMMA GotoType ==
    ASSUME NEW q \in Requests, call[q] \in Call, NEW step \in {"consumed", "read", "signed", "refused"}
    PROVE  /\ Goto(q, step) \in Call
           /\ Goto(q, step).at = step
  BY DEF Goto, Call

LEMMA InitShape == Init => Shape
<1> SUFFICES ASSUME Init PROVE Shape
  OBVIOUS
<1> USE AuthAssumption
<1>1. TypeOK
  <2>1. LoggedOut \in Session
    BY DEF LoggedOut, Session
  <2>2. \A u \in Users : since[u] \in [Roles -> 0..MaxAge]
    BY DEF Init
  <2>3. since \in [Users -> [Roles -> 0..MaxAge]]
    BY <2>2 DEF Init
  <2> QED
    BY <2>1, <2>3, NoCallType DEF Init, TypeOK
<1>2. Asking = {}
  BY DEF Init, Asking, NoCall
<1>3. used + Cardinality(Asking) <= MaxTokens
  BY <1>2, FS_EmptySet DEF Init
<1> QED
  BY <1>1, <1>3, NoCallType DEF Init, Shape

LEMMA TickShape == Shape /\ Tick => Shape'
<1> SUFFICES ASSUME Shape, Tick PROVE Shape'
  OBVIOUS
<1> USE AuthAssumption
<1>t. TypeOK
  BY DEF Shape
<1>1. \A q \in Requests :
        /\ call'[q] \in Call /\ Filled(call'[q])
        /\ call'[q].at = call[q].at /\ call'[q].awaited = call[q].awaited
        /\ call'[q].old = call[q].old /\ call'[q].new = call[q].new
  <2> TAKE q \in Requests
  <2>1. call[q] \in Call /\ Filled(call[q]) /\ call[q].access \in Access \cup {None}
    BY <1>t DEF Shape, TypeOK, Call
  <2> DEFINE a == IF call[q].at = "read" THEN Hurrying(call[q].access)
                                         ELSE Fading(call[q].access)
  <2>2. call[q].at = "read" => call[q].access \in Access
    BY <2>1 DEF Filled
  <2>3. a \in Access \cup {None}
    BY <2>1, <2>2, FadingType, HurryingType
  <2>4. call[q].access \in Access => a \in Access /\ a.user = call[q].access.user
    BY NoneType, FadingType, HurryingType
  <2>5. call'[q] = [at |-> call[q].at, awaited |-> call[q].awaited, old |-> call[q].old,
                    new |-> call[q].new, user |-> call[q].user, access |-> a]
    BY DEF Tick
  <2> HIDE DEF a
  <2> QED
    BY <2>1, <2>3, <2>4, <2>5 DEF Call, Filled
<1>2. \A s \in Session : Aging(s) \in Session
  BY FadingType DEF Aging, Session
<1>3. /\ memory' \in [Tabs -> Session] /\ stored' \in [Stores -> Session]
      /\ call' \in [Requests -> Call]
  BY <1>1, <1>2, <1>t DEF Tick, TypeOK
<1>4. since' \in [Users -> [Roles -> 0..MaxAge]]
  <2>1. \A n \in 0..MaxAge : Older(n) \in 0..MaxAge
    BY DEF Older
  <2>2. \A u \in Users : since'[u] \in [Roles -> 0..MaxAge]
    BY <1>t, <2>1 DEF Tick, TypeOK
  <2> QED
    BY <2>2 DEF Tick
<1>5. /\ redis' \in [Tokens -> Key \cup {None}]
      /\ \A n \in Tokens : redis'[n] # None => redis'[n].left > 0
  BY <1>t DEF Tick, Shape, TypeOK, KeyLeft, Key
<1>6. TypeOK'
  BY <1>t, <1>3, <1>4, <1>5 DEF Tick, TypeOK
<1>7. Asking' \subseteq Asking /\ UNCHANGED used
  BY <1>1 DEF Asking, Tick
<1> QED
  BY <1>1, <1>5, <1>6, <1>7, FewerAsking

LEMMA HandlerShape ==
    ASSUME Shape, NEW q \in Requests, Handler(q)
    PROVE  Shape'
<1> USE AuthAssumption
<1>t. TypeOK /\ call[q] \in Call /\ Filled(call[q])
      /\ \A n \in Tokens : redis[n] # None => redis[n].left > 0
  BY DEF Shape, TypeOK
<1>r. redis \in [Tokens -> Key \cup {None}] /\ spent \subseteq Tokens
  BY <1>t DEF TypeOK
<1>0. Goto(q, "refused") \in Call /\ Filled(Goto(q, "refused"))
      /\ Goto(q, "refused").at = "refused"
  BY <1>t, GotoType DEF Filled
<1>1. ASSUME Consume(q) PROVE Shape'
  <2> DEFINE n == call[q].old
             c == [at |-> "consumed", awaited |-> call[q].awaited, old |-> n, new |-> 0,
                   user |-> redis[n].user, access |-> None]
  <2>1. n \in Tokens
    BY <1>1, <1>t DEF Consume, Filled, Call, Tokens
  <2>2. c \in Call /\ Filled(c)
    BY <1>1, <1>t, <2>1 DEF Consume, TypeOK, Key, Call, Filled
  <2>3. /\ redis' \in [Tokens -> Key \cup {None}]
        /\ \A x \in Tokens : redis'[x] # None => redis'[x].left > 0
        /\ spent' \subseteq Tokens
    BY <1>1, <1>t, <2>1 DEF Consume, KeyAfter, TypeOK
  <2>4. call' = [call EXCEPT ![q] = c] /\ UNCHANGED <<users, parent, used, client>>
        /\ call[q].at = "refresh"
    BY <1>1 DEF Consume
  <2> QED
    BY <2>2, <2>3, <2>4, CallShape
<1>2. ASSUME ConsumeMiss(q) \/ ServerRefuses(q) PROVE Shape'
  BY <1>2, <1>0, <1>r, <1>t, CallShape DEF ConsumeMiss, ServerRefuses, server
<1>3. ASSUME ReadUser(q) PROVE Shape'
  <2> DEFINE a == [user |-> call[q].user, role |-> account[call[q].user].role, left |-> Deadline]
             c == [at |-> "read", awaited |-> call[q].awaited, old |-> call[q].old, new |-> 0,
                   user |-> call[q].user, access |-> a]
  <2>1. call[q].user \in Users
    BY <1>3, <1>t DEF ReadUser, Filled
  <2>2. a \in Access
    BY <1>t, <2>1 DEF TypeOK, Account, Access
  <2>3. c \in Call /\ Filled(c)
    BY <1>t, <2>1, <2>2 DEF Call, Filled
  <2> QED
    BY <1>3, <1>r, <1>t, <2>3, CallShape DEF ReadUser, server
<1>4. ASSUME Issue(q) PROVE Shape'
  <2> DEFINE n == used + 1
             a == [user |-> call[q].user, role |-> call[q].access.role, left |-> SignedTTL]
             c == [at |-> "signed", awaited |-> call[q].awaited, old |-> call[q].old, new |-> n,
                   user |-> call[q].user, access |-> a]
  <2>1. call[q].user \in Users /\ call[q].access \in Access /\ call[q].at = "read"
    BY <1>4, <1>t DEF Issue, Filled
  <2>2. a \in Access
    BY <2>1 DEF Access, SignedTTL
  <2>3. call' = [call EXCEPT ![q] = c]
    BY <1>4 DEF Issue
  <2>4. \A x \in Requests : call'[x] = IF x = q THEN c ELSE call[x]
    BY <1>t, <2>3 DEF TypeOK
  <2> DEFINE A == Asking'
  <2>5. A = Asking \ {q} /\ q \in Asking
    BY <2>1, <2>4 DEF Asking
  <2>6. Cardinality(A) = Cardinality(Asking) - 1 /\ Cardinality(A) \in Nat
    <3>1. IsFiniteSet(A) /\ Cardinality(A) = Cardinality(Asking) - 1
      BY <2>5, AskingFinite, FS_RemoveElement
    <3> QED
      BY <3>1, FS_CardinalityType
  <2> HIDE DEF A
  <2>7. used + Cardinality(Asking) <= MaxTokens /\ used \in Nat
    BY <1>t DEF Shape, TypeOK
  <2>8. n \in Tokens /\ n \in 0..MaxTokens /\ n + Cardinality(A) <= MaxTokens
    BY <2>6, <2>7, AskingFinite DEF Tokens
  <2>9. c \in Call /\ Filled(c)
    BY <1>t, <2>1, <2>2, <2>8 DEF Call, Filled
  <2>10. /\ redis' \in [Tokens -> Key \cup {None}]
         /\ \A x \in Tokens : redis'[x] # None => redis'[x].left > 0
    <3> DEFINE k == [user |-> call[q].user, left |-> RefreshTTL]
    <3>1. k \in Key /\ k.left > 0
      BY <2>1 DEF Key
    <3> HIDE DEF k
    <3>2. CASE redis' = [redis EXCEPT ![n] = k]
      BY <1>t, <1>r, <2>8, <3>1, <3>2
    <3>3. CASE redis' = redis
      BY <1>t, <1>r, <3>3
    <3> QED
      BY <1>4, <3>2, <3>3 DEF Issue, k
  <2>11. TypeOK'
    BY <1>4, <1>t, <2>3, <2>8, <2>9, <2>10 DEF Issue, TypeOK, users, client, Call
  <2>12. used' + Cardinality(A) <= MaxTokens
    BY <1>4, <2>8 DEF Issue
  <2>13. \A x \in Requests : Filled(call'[x])
    BY <2>4, <2>9 DEF Shape
  <2> QED
    BY <2>10, <2>11, <2>12, <2>13 DEF Shape, A
<1> QED
  BY <1>1, <1>2, <1>3, <1>4 DEF Handler

\* The client's steps that end requests, or leave them running unawaited.
LEMMA CallsShape ==
    ASSUME Shape, UNCHANGED <<users, server>>,
           memory' \in [Tabs -> Session], stored' \in [Stores -> Session], restored' \subseteq Tokens,
           call' \in [Requests -> Call],
           \A q \in Requests : \/ call'[q] = NoCall
                               \/ /\ call'[q].at = call[q].at /\ call'[q].old = call[q].old
                                  /\ call'[q].user = call[q].user /\ call'[q].access = call[q].access
    PROVE  Shape'
<1>1. \A q \in Requests : Filled(call'[q])
  BY NoCallType DEF Filled, Shape
<1>2. TypeOK'
  BY DEF Shape, TypeOK, users, server
<1>3. \A q \in Requests : call'[q] = NoCall \/ call'[q].at = call[q].at
  OBVIOUS
<1>4. Asking' \subseteq Asking
  BY <1>3 DEF Asking, NoCall
<1>5. \A n \in Tokens : redis'[n] # None => redis'[n].left > 0
  BY DEF Shape, server
<1> QED
  BY <1>1, <1>2, <1>4, <1>5, FewerAsking DEF server

\* What a storage keeps: each key as it was or as it was to be.
LEMMA KeptParts ==
    ASSUME TypeOK, NEW t \in Tabs, NEW session \in Session, Keep(t, session)
    PROVE  /\ stored' \in [Stores -> Session]
           /\ \A s \in Stores :
                 /\ stored'[s].access \in {stored[s].access, session.access}
                 /\ stored'[s].refresh \in {stored[s].refresh, session.refresh}
<1>1. Storage[t] \in Stores /\ stored \in [Stores -> Session]
  BY DEF Stores, TypeOK
<1>2. PICK kept \in Written(stored[Storage[t]], session) :
        stored' = [stored EXCEPT ![Storage[t]] = kept]
  BY DEF Keep
<1>3. /\ kept \in Session
      /\ kept.access \in {stored[Storage[t]].access, session.access}
      /\ kept.refresh \in {stored[Storage[t]].refresh, session.refresh}
  BY <1>1, <1>2 DEF Written, Session
<1> QED
  BY <1>1, <1>2, <1>3

LEMMA KeepType ==
    ASSUME TypeOK, NEW t \in Tabs, NEW session \in Session, Keep(t, session)
    PROVE  /\ memory' \in [Tabs -> Session] /\ stored' \in [Stores -> Session]
           /\ restored' \subseteq Tokens
  BY KeptParts DEF TypeOK, Keep

\* What a request is once nobody waits for it, and what it was.
Abandoned(q) ==
    [at |-> call[q].at, awaited |-> FALSE, old |-> call[q].old, new |-> call[q].new,
     user |-> call[q].user, access |-> call[q].access]

LEMMA AbandonedType ==
    ASSUME TypeOK, NEW q \in Requests
    PROVE  /\ Abandoned(q) \in Call
           /\ Abandoned(q).at = call[q].at /\ Abandoned(q).old = call[q].old
           /\ Abandoned(q).new = call[q].new /\ Abandoned(q).awaited = FALSE
           /\ Abandoned(q).user = call[q].user /\ Abandoned(q).access = call[q].access
  BY DEF Abandoned, TypeOK, Call

LEMMA FinishType ==
    ASSUME TypeOK, NEW q \in Requests, Finish(q)
    PROVE  /\ call' \in [Requests -> Call]
           /\ \A x \in Requests : call'[x] = IF x \in Settled(q) THEN NoCall ELSE call[x]
  BY NoCallType DEF TypeOK, Finish

LEMMA GivesUpType ==
    ASSUME TypeOK, NEW q \in Requests, GivesUp(q)
    PROVE  /\ memory' \in [Tabs -> Session] /\ stored' \in [Stores -> Session]
           /\ restored' \subseteq Tokens
           /\ UNCHANGED <<users, server>>
<1>1. LoggedOut \in Session /\ Tab[q] \in Tabs
  BY AuthAssumption DEF LoggedOut, Session
<1>2. CASE Keep(Tab[q], LoggedOut)
  BY <1>1, <1>2, KeepType DEF GivesUp
<1>3. CASE UNCHANGED client
  BY <1>3 DEF GivesUp, client, TypeOK
<1> QED
  BY <1>2, <1>3 DEF GivesUp

LEMMA TimeOutType ==
    ASSUME TypeOK, NEW q \in Requests, TimeOut(q)
    PROVE  /\ call' \in [Requests -> Call]
           /\ \A x \in Requests : call'[x] = IF x = q THEN Abandoned(q)
                                             ELSE IF x \in Settled(q) THEN NoCall ELSE call[x]
  BY NoCallType, AbandonedType DEF TypeOK, TimeOut, Abandoned

LEMMA OpenType ==
    ASSUME TypeOK, NEW t \in Tabs, Open(t)
    PROVE  /\ memory' \in [Tabs -> Session] /\ stored' \in [Stores -> Session]
           /\ restored' \subseteq Tokens
           /\ call' \in [Requests -> Call]
           /\ \A x \in Requests : call'[x] = IF Tab[x] = t /\ call[x].at # "idle" THEN Abandoned(x)
                                             ELSE call[x]
<1>1. Storage[t] \in Stores
  BY DEF Stores
<1>2. stored[Storage[t]] \in Session /\ stored[Storage[t]].refresh \in 0..MaxTokens
  BY <1>1 DEF TypeOK, Session
<1>3. restored' \subseteq Tokens
  BY <1>2, AuthAssumption DEF Open, TypeOK, Tokens
<1>4. memory' \in [Tabs -> Session] /\ stored' \in [Stores -> Session]
  BY <1>2 DEF Open, TypeOK
<1>5. \A x \in Requests : call'[x] = IF Tab[x] = t /\ call[x].at # "idle" THEN Abandoned(x)
                                     ELSE call[x]
  BY DEF Open, Abandoned
<1>6. call' \in [Requests -> Call]
  BY <1>5, AbandonedType DEF Open, TypeOK
<1> QED
  BY <1>3, <1>4, <1>5, <1>6

LEMMA ApplicationShape ==
    ASSUME Shape, NEW q \in Requests, Application(q)
    PROVE  Shape'
<1>t. TypeOK /\ call[q] \in Call /\ Filled(call[q]) /\ Tab[q] \in Tabs
  BY AuthAssumption DEF Shape, TypeOK
<1>r. /\ redis \in [Tokens -> Key \cup {None}] /\ spent \subseteq Tokens
      /\ \A n \in Tokens : redis[n] # None => redis[n].left > 0
  BY <1>t DEF TypeOK, Shape
<1>m. memory \in [Tabs -> Session] /\ stored \in [Stores -> Session] /\ restored \subseteq Tokens
  BY <1>t DEF TypeOK
<1>1. ASSUME Served(q) \/ Vanish(q) PROVE Shape'
  BY <1>1, <1>r, <1>t, NoCallType, CallShape DEF Served, Vanish, server, NoCall
<1>2. ASSUME Unauthorized(q) PROVE Shape'
  <2> DEFINE n == memory[Tab[q]].refresh
             c == [at |-> IF Joins(q) THEN "joined" ELSE "refresh", awaited |-> TRUE,
                   old |-> IF Joins(q) THEN 0 ELSE n, new |-> 0, user |-> None, access |-> None]
  <2>1. n \in 0..MaxTokens /\ n # 0
    BY <1>2, <1>m, <1>t DEF Unauthorized, Session
  <2>2. c \in Call /\ Filled(c)
    BY <2>1, AuthAssumption DEF Call, Filled
  <2>3. call' = [call EXCEPT ![q] = c] /\ UNCHANGED <<users, server, client>> /\ call[q].at = "sent"
    BY <1>2 DEF Unauthorized
  <2> HIDE DEF c
  <2> QED
    BY <1>r, <2>2, <2>3, CallShape DEF server
<1>3. ASSUME Save(q) PROVE Shape'
  <2>1. [access |-> call[q].access, refresh |-> call[q].new] \in Session
    BY <1>t DEF Call, Session
  <2>2. Keep(Tab[q], [access |-> call[q].access, refresh |-> call[q].new]) /\ Finish(q)
        /\ UNCHANGED <<users, server>>
    BY <1>3 DEF Save
  <2> QED
    BY <1>t, <2>1, <2>2, KeepType, FinishType, CallsShape
<1>4. ASSUME Refused(q) PROVE Shape'
  BY <1>4, <1>t, GivesUpType, FinishType, CallsShape DEF Refused
<1>5. ASSUME TimeOut(q) PROVE Shape'
  <2>1. GivesUp(q)
    BY <1>5 DEF TimeOut
  <2> QED
    BY <1>5, <1>t, <2>1, GivesUpType, TimeOutType, AbandonedType, CallsShape
<1> QED
  BY <1>1, <1>2, <1>3, <1>4, <1>5 DEF Application

\* A new request: there is room for the token it may ask for.
LEMMA AskShape ==
    ASSUME Shape, NEW q \in Requests, NEW c \in Call, Filled(c), call[q].at = "idle", Room,
           call' = [call EXCEPT ![q] = c], UNCHANGED <<users, server, client>>
    PROVE  Shape'
<1> DEFINE Busy == {x \in Requests : call[x].at # "idle"}
           A == Asking'
<1>t. TypeOK /\ used \in Nat /\ \A x \in Requests : Filled(call[x])
  BY DEF Shape, TypeOK
<1>1. \A x \in Requests : call'[x] = IF x = q THEN c ELSE call[x]
  BY <1>t DEF TypeOK
<1>2. IsFiniteSet(Busy) /\ q \notin Busy
  BY AuthAssumption, FS_Subset, Busy \in SUBSET Requests
<1>3. A \in SUBSET (Busy \cup {q})
  BY <1>1 DEF Asking
<1>4. IsFiniteSet(Busy \cup {q}) /\ Cardinality(Busy \cup {q}) = Cardinality(Busy) + 1
  BY <1>2, FS_AddElement
<1>5. used + Cardinality(Busy) < MaxTokens
  BY DEF Room
<1> HIDE DEF Busy, A
<1>6. Cardinality(Busy) \in Nat /\ IsFiniteSet(A) /\ Cardinality(A) <= Cardinality(Busy) + 1
  BY <1>2, <1>3, <1>4, FS_Subset, FS_CardinalityType
<1>7. Cardinality(A) \in Nat
  BY <1>6, FS_CardinalityType
<1>8. used' + Cardinality(A) <= MaxTokens
  BY <1>5, <1>6, <1>7, <1>t, AuthAssumption DEF server
<1>9. TypeOK'
  BY <1>t DEF TypeOK, users, server, client
<1>10. \A x \in Requests : Filled(call'[x])
  BY <1>1, <1>t
<1>11. \A n \in Tokens : redis'[n] # None => redis'[n].left > 0
  BY DEF Shape, server
<1> QED
  BY <1>8, <1>9, <1>10, <1>11 DEF Shape, A

LEMMA SetAccountType ==
    ASSUME TypeOK, NEW u \in Users, NEW new \in Account, SetAccount(u, new)
    PROVE  /\ TypeOK' /\ UNCHANGED <<server, client, call>>
           /\ account'[u] = new /\ \A x \in Users : x # u => account'[x] = account[x]
           /\ \A x \in Users, r \in Roles :
                 since'[x][r] = IF x = u /\ new.open /\ new.role = r THEN 0 ELSE since[x][r]
<1> DEFINE f == [r \in Roles |-> IF new.open /\ new.role = r THEN 0 ELSE since[u][r]]
<1>1. f \in [Roles -> 0..MaxAge]
  BY AuthAssumption DEF TypeOK
<1>2. since' = [since EXCEPT ![u] = f] /\ account' = [account EXCEPT ![u] = new]
      /\ UNCHANGED <<server, client, call>>
  BY DEF SetAccount
<1>3. \A r \in Roles : f[r] = IF new.open /\ new.role = r THEN 0 ELSE since[u][r]
  OBVIOUS
<1> HIDE DEF f
<1>4. TypeOK'
  BY <1>1, <1>2 DEF TypeOK, server, client
<1>5. since'[u] = f /\ \A x \in Users : x # u => since'[x] = since[x]
  BY <1>2 DEF TypeOK
<1>6. \A x \in Users, r \in Roles :
        since'[x][r] = IF x = u /\ new.open /\ new.role = r THEN 0 ELSE since[x][r]
  BY <1>3, <1>5
<1> QED
  BY <1>2, <1>4, <1>6 DEF TypeOK

\* Steps of an administrator.
Decree == \E u \in Users, new \in Account : SetAccount(u, new)

LEMMA AdministratorStep ==
    ASSUME TypeOK, NEW a \in Users \cup Elsewhere, NEW u \in Users,
           \/ \E open \in BOOLEAN : SetUserStatus(a, u, open)
           \/ \E role \in Roles : SetUserRole(a, u, role)
    PROVE  Decree
<1>1. account[u] \in Account
  BY DEF TypeOK
<1>2. ASSUME NEW open \in BOOLEAN, SetUserStatus(a, u, open) PROVE Decree
  <2>1. [role |-> account[u].role, open |-> open] \in Account
    BY <1>1 DEF Account
  <2> QED
    BY <1>2, <2>1 DEF SetUserStatus, Decree
<1>3. ASSUME NEW role \in Roles, SetUserRole(a, u, role) PROVE Decree
  <2>1. [role |-> role, open |-> account[u].open] \in Account
    BY <1>1 DEF Account
  <2> QED
    BY <1>3, <2>1 DEF SetUserRole, Decree
<1> QED
  BY <1>2, <1>3

\* Every step is one of these.
LEMMA StepKinds ==
    ASSUME TypeOK, [Next]_vars
    PROVE  \/ Tick
           \/ \E q \in Requests : Handler(q) \/ Application(q) \/ Send(q)
           \/ \E q \in Requests, u \in Users : Login(q, u)
           \/ \E t \in Tabs : Open(t) \/ Logout(t)
           \/ Decree
           \/ UNCHANGED vars
  BY AdministratorStep DEF Next

LEMMA ShapeStep == Shape /\ [Next]_vars => Shape'
<1> SUFFICES ASSUME Shape, [Next]_vars PROVE Shape'
  OBVIOUS
<1>t. TypeOK /\ \A q \in Requests : Filled(call[q])
  BY DEF Shape
<1>1. CASE Tick
  BY <1>1, TickShape
<1>2. ASSUME NEW q \in Requests, Send(q) PROVE Shape'
  <2> DEFINE c == [at |-> "sent", awaited |-> TRUE, old |-> 0, new |-> 0, user |-> None,
                   access |-> memory[Tab[q]].access]
  <2>1. memory[Tab[q]] \in Session
    BY <1>t, AuthAssumption DEF TypeOK
  <2>2. c \in Call /\ Filled(c)
    BY <1>2, <2>1, AuthAssumption DEF Send, Session, Call, Filled
  <2> QED
    BY <1>2, <2>2, AskShape DEF Send
<1>3. ASSUME NEW q \in Requests, NEW u \in Users, Login(q, u) PROVE Shape'
  <2> DEFINE c == [at |-> "login", awaited |-> TRUE, old |-> 0, new |-> 0, user |-> u,
                   access |-> None]
  <2>1. c \in Call /\ Filled(c)
    BY AuthAssumption DEF Call, Filled
  <2> QED
    BY <1>3, <2>1, AskShape DEF Login
<1>4. ASSUME NEW t \in Tabs, Open(t) PROVE Shape'
  <2>1. UNCHANGED <<users, server>>
    BY <1>4 DEF Open
  <2> QED
    BY <1>4, <1>t, <2>1, OpenType, AbandonedType, CallsShape
<1>5. ASSUME NEW t \in Tabs, Logout(t) PROVE Shape'
  <2>1. LoggedOut \in Session
    BY AuthAssumption DEF LoggedOut, Session
  <2>2. Keep(t, LoggedOut) /\ UNCHANGED <<users, server, call>>
    BY <1>5 DEF Logout
  <2> QED
    BY <1>t, <2>1, <2>2, KeepType, CallsShape DEF TypeOK
<1>6. CASE Decree
  <2>1. TypeOK' /\ UNCHANGED <<server, client, call>>
    BY <1>6, <1>t, SetAccountType DEF Decree
  <2> QED
    BY <1>t, <2>1 DEF Shape, server, Asking
<1>7. CASE UNCHANGED vars
  BY <1>7, <1>t DEF vars, Shape, TypeOK, Asking
<1> QED
  BY <1>1, <1>2, <1>3, <1>4, <1>5, <1>6, <1>7, <1>t, StepKinds, HandlerShape, ApplicationShape

LEMMA ShapeInvariance == Spec => []Shape
  BY InitShape, ShapeStep, PTL DEF Spec

-----------------------------------------------------------------------------
(* Revocation. *)

Lifetime == AccessTTL + Deadline

Recent(c) ==
    /\ c.at \in {"sent", "signed"} => Admissible(c.access, Lifetime)
    /\ c.at = "read" => since[c.access.user][c.access.role] + c.access.left <= Deadline

LEMMA AdmissionsParts ==
    Admissions <=>
        /\ \A u \in Users, r \in Roles : Admitted(u, r) => since[u][r] = 0
        /\ \A t \in Tabs : Admissible(memory[t].access, Lifetime)
        /\ \A s \in Stores : Admissible(stored[s].access, Lifetime)
        /\ \A q \in Requests : Recent(call[q])
  BY DEF Admissions, Recent, Lifetime

LEMMA InitAdmissions == Init => Admissions
<1> SUFFICES ASSUME Init PROVE Admissions
  OBVIOUS
<1>1. \A u \in Users, r \in Roles : Admitted(u, r) => since[u][r] = 0
  BY DEF Init
<1>2. \A t \in Tabs : Admissible(memory[t].access, Lifetime)
  BY DEF Init, Admissible, LoggedOut
<1>3. \A s \in Stores : Admissible(stored[s].access, Lifetime)
  BY DEF Init, Admissible, LoggedOut
<1>4. \A q \in Requests : Recent(call[q])
  BY DEF Init, Recent, NoCall
<1> QED
  BY <1>1, <1>2, <1>3, <1>4, AdmissionsParts

\* Nobody is admitted or banned, and no token appears that is not recent.
LEMMA TokenStep ==
    ASSUME Admissions, UNCHANGED users,
           \A t \in Tabs : Admissible(memory'[t].access, Lifetime),
           \A s \in Stores : Admissible(stored'[s].access, Lifetime),
           \A q \in Requests : Recent(call'[q])
    PROVE  Admissions'
<1>1. \A a : Admissible(a, Lifetime)' <=> Admissible(a, Lifetime)
  BY DEF users, Admissible, Lifetime
<1> QED
  BY <1>1 DEF Admissions, users, Recent, Admissible, Admitted, Lifetime

LEMMA OneCallStep ==
    ASSUME Shape, Admissions, UNCHANGED <<users, client>>, NEW q \in Requests, NEW c,
           call' = [call EXCEPT ![q] = c], Recent(c)
    PROVE  Admissions'
<1>1. \A x \in Requests : call'[x] = IF x = q THEN c ELSE call[x]
  BY DEF Shape, TypeOK
<1>2. \A x \in Requests : Recent(call'[x])
  BY <1>1, AdmissionsParts
<1> QED
  BY <1>2, AdmissionsParts, TokenStep DEF users, client

LEMMA KeepStep ==
    ASSUME Shape, Admissions, UNCHANGED users, NEW t \in Tabs, NEW session \in Session,
           Keep(t, session), Admissible(session.access, Lifetime),
           \A q \in Requests : Recent(call'[q])
    PROVE  Admissions'
<1>1. \A x \in Tabs : memory'[x] = IF x = t THEN session ELSE memory[x]
  BY DEF Keep, Shape, TypeOK
<1>2. \A s \in Stores : stored'[s].access \in {stored[s].access, session.access}
  BY KeptParts DEF Shape
<1> QED
  BY <1>1, <1>2, AdmissionsParts, TokenStep

LEMMA TickAdmissions == Shape /\ Admissions /\ Tick => Admissions'
<1> SUFFICES ASSUME Shape, Admissions, Tick PROVE Admissions'
  OBVIOUS
<1> USE AuthAssumption
<1>t. TypeOK
  BY DEF Shape
<1>1. \A u \in Users, r \in Roles :
        /\ since[u][r] \in Nat
        /\ since'[u][r] \in Nat /\ since'[u][r] <= since[u][r] + 1
        /\ Admitted(u, r)' => since'[u][r] = 0
  <2>1. \A u \in Users, r \in Roles : Admitted(u, r)' <=> Admitted(u, r)
    BY DEF Tick, Admitted
  <2>2. \A u \in Users, r \in Roles : since[u][r] \in Nat
    BY <1>t DEF TypeOK
  <2>3. \A u \in Users, r \in Roles :
          since'[u][r] = IF Admitted(u, r) THEN 0 ELSE Older(since[u][r])
    BY DEF Tick
  <2> QED
    BY <2>1, <2>2, <2>3 DEF Older
<1>2. ASSUME NEW a \in Access \cup {None}, Admissible(a, Lifetime)
      PROVE  Admissible(Fading(a), Lifetime)'
  <2>1. CASE a = None
    BY <2>1, FadingType DEF Admissible
  <2>2. CASE a # None
    <3>1. /\ Fading(a).user = a.user /\ Fading(a).left = Less(a.left)
          /\ Fading(a).left > 0 => Fading(a).role = a.role
          /\ a.user \in Users /\ a.role \in Roles /\ a.left \in Nat
      BY <2>2, FadingType, AccessParts
    <3>2. Less(a.left) > 0 => a.left > 0 /\ Less(a.left) = a.left - 1
      BY <3>1 DEF Less
    <3>3. Lifetime \in Nat
      BY DEF Lifetime
    <3>4. Less(a.left) > 0 => since'[a.user][a.role] + Less(a.left) <= Lifetime
      BY <1>1, <1>2, <2>2, <3>1, <3>2, <3>3 DEF Admissible
    <3> QED
      BY <3>1, <3>4 DEF Admissible, Lifetime
  <2> QED
    BY <2>1, <2>2
<1>3. \A t \in Tabs : Admissible(memory[t].access, Lifetime)' 
  <2>1. \A t \in Tabs : memory'[t].access = Fading(memory[t].access)
                        /\ memory[t].access \in Access \cup {None}
    BY <1>t DEF Tick, Aging, TypeOK, Session
  <2> QED
    BY <1>2, <2>1, AdmissionsParts
<1>4. \A s \in Stores : Admissible(stored[s].access, Lifetime)'
  <2>1. \A s \in Stores : stored'[s].access = Fading(stored[s].access)
                          /\ stored[s].access \in Access \cup {None}
    BY <1>t DEF Tick, Aging, TypeOK, Session
  <2>2. Stores' = Stores
    BY DEF Stores
  <2> QED
    BY <1>2, <2>1, <2>2, AdmissionsParts
<1>5. \A q \in Requests : Recent(call[q])'
  <2> TAKE q \in Requests
  <2>1. /\ call'[q].at = call[q].at
        /\ call'[q].access = IF call[q].at = "read" THEN Hurrying(call[q].access)
                                                    ELSE Fading(call[q].access)
        /\ call[q].access \in Access \cup {None}
    BY <1>t DEF Tick, TypeOK, Call
  <2>2. CASE call[q].at \in {"sent", "signed"}
    BY <1>2, <2>1, <2>2, AdmissionsParts DEF Recent
  <2>3. CASE call[q].at = "read"
    <3> DEFINE a == call[q].access
    <3>1. a \in Access /\ a # None /\ a.left > 0
      BY <2>3, NoneType DEF Shape, Filled, Tick
    <3>2. /\ Hurrying(a).user = a.user /\ Hurrying(a).role = a.role
          /\ Hurrying(a).left = a.left - 1
          /\ a.user \in Users /\ a.role \in Roles /\ a.left \in Nat
      BY <3>1, HurryingType, AccessParts DEF Less
    <3>3. since[a.user][a.role] + a.left <= Deadline
      BY <2>3, AdmissionsParts DEF Recent
    <3>4. since'[a.user][a.role] + (a.left - 1) <= Deadline
      BY <1>1, <3>2, <3>3
    <3> QED
      BY <2>1, <2>3, <3>2, <3>4 DEF Recent
  <2>4. CASE call[q].at \notin {"sent", "signed", "read"}
    BY <2>1, <2>4 DEF Recent
  <2> QED
    BY <2>2, <2>3, <2>4
<1> QED
  BY <1>1, <1>3, <1>4, <1>5 DEF Admissions, Recent, Lifetime

LEMMA HandlerAdmissions ==
    ASSUME Shape, Admissions, NEW q \in Requests, Handler(q)
    PROVE  Admissions'
<1> USE AuthAssumption
<1>t. TypeOK /\ call[q] \in Call /\ Filled(call[q]) /\ Recent(call[q])
  BY AdmissionsParts DEF Shape, TypeOK
<1>1. ASSUME Consume(q) PROVE Admissions'
  <2> DEFINE c == [at |-> "consumed", awaited |-> call[q].awaited, old |-> call[q].old, new |-> 0,
                   user |-> redis[call[q].old].user, access |-> None]
  <2>1. Recent(c)
    BY DEF Recent
  <2>2. call' = [call EXCEPT ![q] = c] /\ UNCHANGED <<users, client>>
    BY <1>1 DEF Consume
  <2> HIDE DEF c
  <2> QED
    BY <2>1, <2>2, OneCallStep
<1>2. ASSUME ConsumeMiss(q) \/ ServerRefuses(q) PROVE Admissions'
  <2>1. Recent(Goto(q, "refused"))
    BY DEF Recent, Goto
  <2> QED
    BY <1>2, <2>1, OneCallStep DEF ConsumeMiss, ServerRefuses
<1>3. ASSUME ReadUser(q) PROVE Admissions'
  <2> DEFINE u == call[q].user
             a == [user |-> u, role |-> account[u].role, left |-> Deadline]
             c == [at |-> "read", awaited |-> call[q].awaited, old |-> call[q].old, new |-> 0,
                   user |-> u, access |-> a]
  <2>1. u \in Users /\ account[u].role \in Roles
    BY <1>3, <1>t DEF ReadUser, Filled, TypeOK, Account
  <2>2. since[u][account[u].role] = 0
    BY <1>3, <2>1, AdmissionsParts DEF ReadUser, MayEnter, Admitted
  <2>3. Recent(c)
    BY <2>2 DEF Recent
  <2>4. call' = [call EXCEPT ![q] = c] /\ UNCHANGED <<users, client>>
    BY <1>3 DEF ReadUser
  <2> HIDE DEF c
  <2> QED
    BY <2>3, <2>4, OneCallStep
<1>4. ASSUME Issue(q) PROVE Admissions'
  <2> DEFINE u == call[q].user
             r == call[q].access.role
             a == [user |-> u, role |-> r, left |-> SignedTTL]
             c == [at |-> "signed", awaited |-> call[q].awaited, old |-> call[q].old,
                   new |-> used + 1, user |-> u, access |-> a]
  <2>1. call[q].access \in Access /\ call[q].access.user = u /\ call[q].at = "read"
    BY <1>4, <1>t DEF Issue, Filled
  <2>2. u \in Users /\ r \in Roles /\ call[q].access.left \in Nat
    BY <2>1, AccessParts
  <2>3. since[u][r] + call[q].access.left <= Deadline /\ since[u][r] \in Nat
    BY <1>t, <2>1, <2>2 DEF Recent, TypeOK
  <2>4. since[u][r] + SignedTTL <= Lifetime
    BY <2>2, <2>3 DEF SignedTTL, Lifetime
  <2>5. Recent(c)
    BY <2>4 DEF Recent, Admissible
  <2>6. call' = [call EXCEPT ![q] = c] /\ UNCHANGED <<users, client>>
    BY <1>4 DEF Issue
  <2> HIDE DEF c
  <2> QED
    BY <2>5, <2>6, OneCallStep
<1> QED
  BY <1>1, <1>2, <1>3, <1>4 DEF Handler

LEMMA LoggedOutAdmissible == Admissible(LoggedOut.access, Lifetime) /\ LoggedOut \in Session
  BY AuthAssumption DEF Admissible, LoggedOut, Session

LEMMA EndRecent ==
    ASSUME Admissions, NEW q \in Requests
    PROVE  Recent(call[q]) /\ Recent(Abandoned(q)) /\ Recent(NoCall)
<1>1. Recent(call[q])
  BY AdmissionsParts
<1> QED
  BY <1>1 DEF Recent, Abandoned, NoCall

LEMMA ApplicationAdmissions ==
    ASSUME Shape, Admissions, NEW q \in Requests, Application(q)
    PROVE  Admissions'
<1>t. TypeOK /\ call[q] \in Call /\ Tab[q] \in Tabs
  BY AuthAssumption DEF Shape, TypeOK
<1>1. ASSUME Served(q) \/ Vanish(q) PROVE Admissions'
  BY <1>1, EndRecent, OneCallStep DEF Served, Vanish
<1>2. ASSUME Unauthorized(q) PROVE Admissions'
  <2> DEFINE c == [at |-> IF Joins(q) THEN "joined" ELSE "refresh", awaited |-> TRUE,
                   old |-> IF Joins(q) THEN 0 ELSE memory[Tab[q]].refresh, new |-> 0,
                   user |-> None, access |-> None]
  <2>1. Recent(c)
    BY DEF Recent
  <2>2. call' = [call EXCEPT ![q] = c] /\ UNCHANGED <<users, client>>
    BY <1>2 DEF Unauthorized
  <2> HIDE DEF c
  <2> QED
    BY <2>1, <2>2, OneCallStep
<1>3. ASSUME Save(q) PROVE Admissions'
  <2> DEFINE session == [access |-> call[q].access, refresh |-> call[q].new]
  <2>1. session \in Session
    BY <1>t DEF Call, Session
  <2>2. Admissible(session.access, Lifetime)
    BY <1>3, EndRecent DEF Save, Recent
  <2>3. Keep(Tab[q], session) /\ Finish(q) /\ UNCHANGED users
    BY <1>3 DEF Save
  <2> HIDE DEF session
  <2> QED
    BY <1>t, <2>1, <2>2, <2>3, FinishType, EndRecent, KeepStep
<1>4. ASSUME GivesUp(q), \A x \in Requests : Recent(call'[x]) PROVE Admissions'
  <2>1. UNCHANGED users
    BY <1>4 DEF GivesUp
  <2>2. CASE Keep(Tab[q], LoggedOut)
    BY <1>4, <1>t, <2>1, <2>2, LoggedOutAdmissible, KeepStep
  <2>3. CASE UNCHANGED client
    BY <1>4, <2>1, <2>3, AdmissionsParts, TokenStep DEF client
  <2> QED
    BY <1>4, <2>2, <2>3 DEF GivesUp
<1>5. ASSUME Refused(q) PROVE Admissions'
  BY <1>4, <1>5, <1>t, FinishType, EndRecent DEF Refused
<1>6. ASSUME TimeOut(q) PROVE Admissions'
  <2>1. GivesUp(q)
    BY <1>6 DEF TimeOut
  <2> QED
    BY <1>4, <1>6, <1>t, <2>1, TimeOutType, EndRecent
<1> QED
  BY <1>1, <1>2, <1>3, <1>5, <1>6 DEF Application

LEMMA AdmissionsStep == Shape /\ Admissions /\ [Next]_vars => Admissions'
<1> SUFFICES ASSUME Shape, Admissions, [Next]_vars PROVE Admissions'
  OBVIOUS
<1>t. TypeOK
  BY DEF Shape
<1>1. ASSUME NEW q \in Requests, Send(q) PROVE Admissions'
  <2> DEFINE c == [at |-> "sent", awaited |-> TRUE, old |-> 0, new |-> 0, user |-> None,
                   access |-> memory[Tab[q]].access]
  <2>1. Recent(c)
    BY AuthAssumption, AdmissionsParts DEF Recent
  <2>2. call' = [call EXCEPT ![q] = c] /\ UNCHANGED <<users, client>>
    BY <1>1 DEF Send
  <2> HIDE DEF c
  <2> QED
    BY <2>1, <2>2, OneCallStep
<1>2. ASSUME NEW q \in Requests, NEW u \in Users, Login(q, u) PROVE Admissions'
  <2> DEFINE c == [at |-> "login", awaited |-> TRUE, old |-> 0, new |-> 0, user |-> u,
                   access |-> None]
  <2>1. Recent(c)
    BY DEF Recent
  <2>2. call' = [call EXCEPT ![q] = c] /\ UNCHANGED <<users, client>>
    BY <1>2 DEF Login
  <2> HIDE DEF c
  <2> QED
    BY <2>1, <2>2, OneCallStep
<1>3. ASSUME NEW t \in Tabs, Open(t) PROVE Admissions'
  <2>1. Storage[t] \in Stores /\ UNCHANGED <<users, stored>>
    BY <1>3 DEF Stores, Open
  <2>2. \A x \in Tabs : memory'[x] = IF x = t THEN stored[Storage[t]] ELSE memory[x]
    BY <1>3, <1>t DEF Open, TypeOK
  <2>3. \A q \in Requests : Recent(call'[q])
    BY <1>3, <1>t, OpenType, EndRecent
  <2> QED
    BY <2>1, <2>2, <2>3, AdmissionsParts, TokenStep
<1>4. ASSUME NEW t \in Tabs, Logout(t) PROVE Admissions'
  BY <1>4, LoggedOutAdmissible, AdmissionsParts, KeepStep DEF Logout
<1>5. ASSUME NEW u \in Users, NEW new \in Account, SetAccount(u, new) PROVE Admissions'
  <2>1. \A x \in Users, r \in Roles :
          /\ since[x][r] \in Nat /\ since'[x][r] \in Nat /\ since'[x][r] <= since[x][r]
          /\ Admitted(x, r)' => since'[x][r] = 0
    <3>1. \A x \in Users, r \in Roles : since[x][r] \in Nat
      BY <1>t, AuthAssumption DEF TypeOK
    <3>2. \A x \in Users, r \in Roles : Admitted(x, r) => since[x][r] = 0
      BY AdmissionsParts
    <3> QED
      BY <1>5, <1>t, <3>1, <3>2, SetAccountType DEF Admitted
  <2>2. UNCHANGED <<server, client, call>>
    BY <1>5, <1>t, SetAccountType
  <2>3. ASSUME NEW a \in Access \cup {None}, NEW b \in Nat, Admissible(a, b)
        PROVE  Admissible(a, b)'
    <3>1. CASE a = None
      BY <3>1 DEF Admissible
    <3>2. CASE a \in Access
      <4>1. a.user \in Users /\ a.role \in Roles /\ a.left \in Nat
        BY <3>2, AccessParts
      <4> QED
        BY <2>1, <2>3, <4>1 DEF Admissible
    <3> QED
      BY <3>1, <3>2
  <2>4. Lifetime \in Nat /\ Lifetime' = Lifetime
    BY AuthAssumption DEF Lifetime
  <2>5. \A t \in Tabs : Admissible(memory[t].access, Lifetime)'
    <3>1. \A t \in Tabs : memory[t].access \in Access \cup {None} /\ memory'[t] = memory[t]
      BY <1>t, <2>2 DEF TypeOK, Session, client
    <3> QED
      BY <2>3, <2>4, <3>1, AdmissionsParts
  <2>6. \A s \in Stores : Admissible(stored[s].access, Lifetime)'
    <3>1. \A s \in Stores : stored[s].access \in Access \cup {None} /\ stored'[s] = stored[s]
      BY <1>t, <2>2 DEF TypeOK, Session, client
    <3>2. Stores' = Stores
      BY DEF Stores
    <3> QED
      BY <2>3, <2>4, <3>1, <3>2, AdmissionsParts
  <2>7. \A q \in Requests : Recent(call[q])'
    <3> TAKE q \in Requests
    <3>1. call[q].access \in Access \cup {None} /\ call'[q] = call[q] /\ Recent(call[q])
          /\ Filled(call[q])
      BY <1>t, <2>2, AdmissionsParts DEF TypeOK, Call, Shape
    <3>2. CASE call[q].at \in {"sent", "signed"}
      BY <2>3, <2>4, <3>1, <3>2 DEF Recent
    <3>3. CASE call[q].at = "read"
      <4>1. call[q].access.user \in Users /\ call[q].access.role \in Roles
            /\ call[q].access.left \in Nat
        BY <3>1, <3>3, AccessParts DEF Filled
      <4>2. since'[call[q].access.user][call[q].access.role] + call[q].access.left <= Deadline
        BY <2>1, <3>1, <3>3, <4>1, AuthAssumption DEF Recent
      <4> QED
        BY <3>1, <3>3, <4>2 DEF Recent
    <3>4. CASE call[q].at \notin {"sent", "signed", "read"}
      BY <3>1, <3>4 DEF Recent
    <3> QED
      BY <3>2, <3>3, <3>4
  <2> QED
    BY <2>1, <2>5, <2>6, <2>7 DEF Admissions, Recent, Lifetime
<1>6. CASE UNCHANGED vars
  BY <1>6, AdmissionsParts, TokenStep DEF vars, users
<1> QED
  BY <1>1, <1>2, <1>3, <1>4, <1>5, <1>6, <1>t, StepKinds, TickAdmissions, HandlerAdmissions,
     ApplicationAdmissions DEF Decree

LEMMA AdmissionsInvariance == Spec => []Admissions
  BY ShapeInvariance, InitAdmissions, AdmissionsStep, PTL DEF Spec

-----------------------------------------------------------------------------
(* Rotation. *)

LEMMA InitLineage == Init => Lineage
  BY AuthAssumption DEF Init, Lineage, OneHeir, Expecting, NoCall

LEMMA LineageFrame ==
    ASSUME Lineage, UNCHANGED <<parent, spent, used>>,
           \A n \in Tokens : redis'[n] # None => redis[n] # None,
           \A q \in Requests : Expecting(q)' => Expecting(q) /\ call'[q].old = call[q].old
    PROVE  Lineage'
  BY DEF Lineage, OneHeir

\* Only the handlers change what the server keeps, or bring a request there.
ClientMoves ==
    /\ UNCHANGED server
    /\ \A q \in Requests : call'[q].at \in {"consumed", "read"} =>
          call[q].at = call'[q].at /\ call[q].old = call'[q].old /\ call[q].user = call'[q].user

LEMMA ClientStep ==
    ASSUME Shape,
           \/ \E q \in Requests : Application(q) \/ Send(q)
           \/ \E q \in Requests, u \in Users : Login(q, u)
           \/ \E t \in Tabs : Open(t) \/ Logout(t)
           \/ Decree
           \/ UNCHANGED vars
    PROVE  ClientMoves
<1>t. TypeOK
  BY DEF Shape
<1>0. NoCall.at = "idle" /\ \A x \in Requests :
          /\ Abandoned(x).at = call[x].at /\ Abandoned(x).old = call[x].old
          /\ Abandoned(x).user = call[x].user
  BY DEF NoCall, Abandoned
<1>1. ASSUME NEW q \in Requests, Served(q) \/ Vanish(q) \/ Unauthorized(q) \/ Send(q)
      PROVE  ClientMoves
  <2>1. UNCHANGED server
    BY <1>1 DEF Served, Vanish, Unauthorized, Send
  <2>2. \A x \in Requests : x # q => call'[x] = call[x]
    BY <1>1, <1>t DEF Served, Vanish, Unauthorized, Send, TypeOK
  <2>3. call'[q].at \notin {"consumed", "read"}
    BY <1>0, <1>1, <1>t DEF Served, Vanish, Unauthorized, Send, TypeOK
  <2> QED
    BY <2>1, <2>2, <2>3 DEF ClientMoves
<1>2. ASSUME NEW q \in Requests, Save(q) \/ Refused(q) PROVE ClientMoves
  <2>1. Finish(q) /\ UNCHANGED server
    BY <1>2 DEF Save, Refused, GivesUp
  <2> QED
    BY <1>0, <1>t, <2>1, FinishType DEF ClientMoves
<1>3. ASSUME NEW q \in Requests, TimeOut(q) PROVE ClientMoves
  <2>1. UNCHANGED server
    BY <1>3 DEF TimeOut, GivesUp
  <2> QED
    BY <1>0, <1>3, <1>t, <2>1, TimeOutType DEF ClientMoves
<1>4. ASSUME NEW q \in Requests, NEW u \in Users, Login(q, u) PROVE ClientMoves
  <2>1. \A x \in Requests : x # q => call'[x] = call[x]
    BY <1>4, <1>t DEF Login, TypeOK
  <2>2. call'[q].at = "login" /\ UNCHANGED server
    BY <1>4, <1>t DEF Login, TypeOK
  <2> QED
    BY <2>1, <2>2 DEF ClientMoves
<1>5. ASSUME NEW t \in Tabs, Open(t) PROVE ClientMoves
  BY <1>0, <1>5, <1>t, OpenType DEF ClientMoves, Open
<1>6. ASSUME NEW t \in Tabs, Logout(t) PROVE ClientMoves
  BY <1>6 DEF Logout, ClientMoves
<1>7. ASSUME Decree PROVE ClientMoves
  BY <1>7 DEF Decree, SetAccount, ClientMoves
<1>8. ASSUME UNCHANGED vars PROVE ClientMoves
  BY <1>8 DEF vars, server, ClientMoves
<1> QED
  BY <1>1, <1>2, <1>3, <1>4, <1>5, <1>6, <1>7, <1>8 DEF Application

LEMMA LineageStep == Shape /\ Lineage /\ [Next]_vars => Lineage'
<1> SUFFICES ASSUME Shape, Lineage, [Next]_vars PROVE Lineage'
  OBVIOUS
<1>t. TypeOK /\ used \in Nat /\ spent \subseteq Tokens
      /\ \A x \in Requests : call[x] \in Call /\ Filled(call[x])
  BY DEF Shape, TypeOK
<1>1. ASSUME Tick PROVE Lineage'
  <2>1. \A n \in Tokens : redis'[n] # None => redis[n] # None
    BY <1>1, <1>t DEF Tick, KeyLeft, TypeOK
  <2>2. \A q \in Requests : call'[q].at = call[q].at /\ call'[q].old = call[q].old
    BY <1>1 DEF Tick
  <2> QED
    BY <1>1, <2>1, <2>2, LineageFrame DEF Tick, Expecting
<1>2. ASSUME ClientMoves PROVE Lineage'
  BY <1>2, LineageFrame DEF ClientMoves, server, Expecting
<1>3. ASSUME NEW q \in Requests, ConsumeMiss(q) \/ ServerRefuses(q) \/ ReadUser(q) PROVE Lineage'
  <2>1. UNCHANGED server /\ \A x \in Requests : x # q => call'[x] = call[x]
    BY <1>3, <1>t DEF ConsumeMiss, ServerRefuses, ReadUser, TypeOK
  <2>2. call'[q].old = call[q].old
        /\ (call'[q].at \in {"consumed", "read"} => call[q].at \in {"login", "consumed"})
    BY <1>3, <1>t DEF ConsumeMiss, ServerRefuses, ReadUser, Goto, TypeOK
  <2>3. Expecting(q)' => Expecting(q)
    BY <1>t, <2>2 DEF Expecting, Filled
  <2> QED
    BY <2>1, <2>2, <2>3, LineageFrame DEF server, Expecting
<1>4. ASSUME NEW q \in Requests, Consume(q) PROVE Lineage'
  <2> DEFINE n == call[q].old
  <2>1. n \in Tokens /\ n # 0 /\ redis[n] # None
    BY <1>4, <1>t DEF Consume, Filled, Call, Tokens
  <2>2. n <= used /\ n \notin spent
    BY <2>1 DEF Lineage
  <2>3. /\ redis'[n] = None /\ \A m \in Tokens : m # n => redis'[m] = redis[m]
        /\ spent' = spent \cup {n} /\ UNCHANGED <<parent, used>>
    BY <1>4, <1>t, <2>1 DEF Consume, KeyAfter, TypeOK
  <2>4. /\ call'[q].at = "consumed" /\ call'[q].old = n
        /\ \A x \in Requests : x # q => call'[x] = call[x]
    BY <1>4, <1>t DEF Consume, TypeOK
  <2>5. \A x \in 1..used : parent[x] # n
    BY <2>1, <2>2 DEF Lineage
  <2>6. \A x \in Requests : x # q /\ Expecting(x) => call[x].old # n
    BY <2>2 DEF Lineage
  <2>7. \A x \in Requests : x # q => (Expecting(x)' <=> Expecting(x))
    BY <2>4 DEF Expecting
  <2>8. \A p \in Requests : Expecting(p)' =>
          call'[p].old \in spent' /\ \A x \in 1..used : parent[x] # call'[p].old
    BY <2>3, <2>4, <2>5, <2>7 DEF Lineage
  <2>9. \A p, x \in Requests :
          Expecting(p)' /\ Expecting(x)' /\ call'[p].old = call'[x].old => p = x
    BY <2>4, <2>6, <2>7 DEF Lineage
  <2> QED
    BY <2>2, <2>3, <2>8, <2>9 DEF Lineage, OneHeir
<1>5. ASSUME NEW q \in Requests, Issue(q) PROVE Lineage'
  <2> DEFINE n == used + 1
             o == call[q].old
  <2>1. /\ used' = n /\ UNCHANGED spent /\ call[q].at = "read"
        /\ parent' = [parent EXCEPT ![n] = o]
    BY <1>5 DEF Issue
  <2>2. n \in Tokens
    <3>1. q \in Asking
      BY <2>1 DEF Asking
    <3>2. Cardinality(Asking) > 0
      BY <3>1, AskingFinite, FS_EmptySet
    <3> QED
      BY <1>t, <3>2, AskingFinite, AuthAssumption DEF Shape, Tokens
  <2>3. parent'[n] = o /\ \A x \in 1..used : parent'[x] = parent[x]
    BY <1>t, <2>1, <2>2 DEF TypeOK, Tokens
  <2>4. \A m \in Tokens : redis'[m] # None => m = n \/ redis[m] # None
    BY <1>5, <1>t, <2>2 DEF Issue, TypeOK
  <2>5. ~Expecting(q)' /\ \A x \in Requests : x # q => call'[x] = call[x]
    BY <1>5, <1>t DEF Issue, TypeOK, Expecting
  <2>6. \A x \in Requests : x # q => (Expecting(x)' <=> Expecting(x))
    BY <2>5 DEF Expecting
  <2>7. o # 0 => Expecting(q)
    BY <2>1 DEF Expecting
  <2>8. \A x \in 1..n : x = n \/ x \in 1..used
    BY <1>t
  <2>9. \A m \in Tokens : redis'[m] # None => m <= n /\ m \notin spent
    BY <1>t, <2>2, <2>4 DEF Lineage, Tokens
  <2>10. \A m \in spent : m <= n
    <3>1. \A m \in Tokens : m \in Nat
      BY DEF Tokens
    <3> QED
      BY <1>t, <3>1 DEF Lineage
  <2>11. \A x \in 1..n : parent'[x] # 0 => parent'[x] \in spent
    BY <2>3, <2>7, <2>8 DEF Lineage
  <2>12. \A p \in Requests : Expecting(p)' =>
           call'[p].old \in spent /\ \A x \in 1..n : parent'[x] # call'[p].old
    <3> TAKE p \in Requests
    <3> HAVE Expecting(p)'
    <3>1. p # q /\ Expecting(p) /\ call'[p] = call[p] /\ call[p].old # 0
      BY <2>5, <2>6 DEF Expecting
    <3>2. o # call[p].old
      BY <2>7, <3>1 DEF Lineage
    <3> QED
      BY <2>3, <2>8, <3>1, <3>2 DEF Lineage
  <2>13. \A p, x \in Requests :
           Expecting(p)' /\ Expecting(x)' /\ call'[p].old = call'[x].old => p = x
    BY <2>5, <2>6 DEF Lineage
  <2>14. \A x, y \in 1..n : parent'[x] = parent'[y] /\ parent'[x] # 0 => x = y
    <3>1. \A x \in 1..used : o # 0 => parent[x] # o
      BY <2>7 DEF Lineage
    <3> QED
      BY <2>3, <2>8, <3>1 DEF Lineage, OneHeir
  <2> QED
    BY <2>1, <2>9, <2>10, <2>11, <2>12, <2>13, <2>14 DEF Lineage, OneHeir
<1> QED
  BY <1>1, <1>2, <1>3, <1>4, <1>5, <1>t, StepKinds, ClientStep DEF Handler

LEMMA LineageInvariance == Spec => []Lineage
  BY ShapeInvariance, InitLineage, LineageStep, PTL DEF Spec

-----------------------------------------------------------------------------
(* One refresh for all. *)

LEMMA InitHolding == Init => Holding
<1> SUFFICES ASSUME Init PROVE Holding
  OBVIOUS
<1>0. 0 \notin Tokens
  BY DEF Tokens
<1>1. \A q \in Requests : call[q].at = "idle" /\ call[q].old = 0 /\ call[q].new = 0
  BY DEF Init, NoCall
<1>2. \A q \in Requests, t \in Tabs, n \in Tokens : ~Exchanges(q, t, n)
  BY <1>1 DEF Exchanges
<1>3. /\ \A t \in Tabs : memory[t].refresh = 0
      /\ \A s \in Stores : stored[s].refresh = 0
      /\ used = 0 /\ restored = {}
  BY DEF Init, LoggedOut
<1>4. Issued
  BY <1>1, <1>3 DEF Issued
<1>5. OneRefresh /\ NewIsNew /\ OneHolder /\ OneExchange /\ Orphaned /\ GoodOrExchanged
  BY <1>0, <1>1, <1>2, <1>3 DEF OneRefresh, NewIsNew, OneHolder, OneExchange, Orphaned,
                                GoodOrExchanged, Fresh
<1>6. NeverTwice
  BY <1>1 DEF NeverTwice
<1> QED
  BY <1>4, <1>5, <1>6 DEF Holding

\* Tokens are forgotten, copied from a storage, or stay where they are.
LEMMA ShrinkStep ==
    ASSUME Shape, Holding, UNCHANGED <<spent, used>>,
           restored \subseteq restored',
           restored' \subseteq restored \cup {stored[s].refresh : s \in Stores},
           \A s \in Stores : stored'[s].refresh \in {stored[s].refresh, 0},
           \A t \in Tabs :
              /\ \/ memory'[t].refresh \in {memory[t].refresh, 0}
                 \/ \E s \in Stores : memory'[t].refresh = stored[s].refresh
              /\ Fresh(memory[t].refresh)' =>
                    /\ memory'[t].refresh = memory[t].refresh
                    /\ \A q \in Requests, n \in Tokens : Exchanges(q, t, n) => Exchanges(q, t, n)',
           \A q \in Requests :
              /\ \A t \in Tabs, n \in Tokens : Exchanges(q, t, n)' => Exchanges(q, t, n)
              /\ call'[q].old \in {call[q].old, 0} /\ call'[q].new \in {call[q].new, 0}
              /\ call'[q].at = "signed" => call[q].at = "signed" /\ call'[q].new = call[q].new
              /\ call'[q].at = "refresh" =>
                    /\ call[q].at = "refresh" /\ call'[q].old = call[q].old
                    /\ call'[q].awaited => call[q].awaited
                    /\ call[q].awaited /\ ~call'[q].awaited /\ Fresh(call[q].old)' =>
                          memory'[Tab[q]].refresh # call[q].old
    PROVE  Holding'
<1> USE AuthAssumption
<1>t. /\ Issued /\ OneRefresh /\ NewIsNew /\ OneHolder /\ OneExchange /\ Orphaned
      /\ GoodOrExchanged /\ NeverTwice
  BY DEF Holding
<1>s. Stores' = Stores /\ 0 \notin Tokens /\ used \in Nat
      /\ \A q \in Requests : call[q] \in Call /\ Filled(call[q])
  BY DEF Stores, Tokens, Shape, TypeOK
<1>f. \A n : Fresh(n)' => Fresh(n)
  BY DEF Fresh
<1>1. Issued'
  BY <1>s, <1>t DEF Issued
<1>2. OneRefresh'
  BY <1>t DEF OneRefresh
<1>3. NewIsNew'
  <2> SUFFICES ASSUME NEW p \in Requests, call'[p].at = "signed"
               PROVE  /\ call'[p].new \in Tokens \ (spent' \cup restored')
                      /\ \A t \in Tabs : memory'[t].refresh # call'[p].new
                      /\ \A s \in Stores : stored'[s].refresh # call'[p].new
                      /\ \A q \in Requests : call'[q].old # call'[p].new
                      /\ \A q \in Requests :
                            call'[q].at = "signed" /\ call'[q].new = call'[p].new => q = p
    BY <1>s DEF NewIsNew
  <2>1. call[p].at = "signed" /\ call'[p].new = call[p].new
    OBVIOUS
  <2>2. call[p].new \in Tokens \ (spent \cup restored) /\ call[p].new # 0
    BY <1>s, <1>t, <2>1 DEF NewIsNew
  <2>3. \A s \in Stores : stored[s].refresh # call[p].new
    BY <1>t, <2>1 DEF NewIsNew
  <2>4. call[p].new \notin restored'
    BY <2>2, <2>3
  <2>5. \A t \in Tabs : memory'[t].refresh # call[p].new
    BY <1>t, <2>1, <2>2, <2>3 DEF NewIsNew
  <2>6. \A q \in Requests : call'[q].old # call[p].new
    BY <1>t, <2>1, <2>2 DEF NewIsNew
  <2> QED
    BY <1>t, <2>1, <2>2, <2>3, <2>4, <2>5, <2>6 DEF NewIsNew
<1>4. OneHolder'
  <2>1. \A t, x \in Tabs : Fresh(memory[t].refresh)' /\ memory'[t].refresh = memory'[x].refresh => t = x
    <3> TAKE t, x \in Tabs
    <3> HAVE Fresh(memory[t].refresh)' /\ memory'[t].refresh = memory'[x].refresh
    <3>1. Fresh(memory[x].refresh)'
      BY DEF Fresh
    <3> QED
      BY <1>f, <1>t, <3>1 DEF OneHolder
  <2>2. \A q \in Requests, t, x \in Tabs, n \in Tokens :
          Fresh(n)' /\ Exchanges(q, t, n)' /\ memory'[x].refresh = n => x = t
    <3> TAKE q \in Requests, t, x \in Tabs, n \in Tokens
    <3> HAVE Fresh(n)' /\ Exchanges(q, t, n)' /\ memory'[x].refresh = n
    <3>1. Fresh(memory[x].refresh)'
      BY DEF Fresh
    <3> QED
      BY <1>f, <1>t, <3>1 DEF OneHolder
  <2> QED
    BY <2>1, <2>2 DEF OneHolder
<1>5. OneExchange'
  BY <1>f, <1>t DEF OneExchange
<1>6. Orphaned'
  <2> SUFFICES ASSUME NEW q \in Requests, call'[q].at = "refresh", ~call'[q].awaited,
                      Fresh(call[q].old)'
               PROVE  /\ \A t \in Tabs : memory'[t].refresh # call'[q].old
                      /\ \A p \in Requests, t \in Tabs : ~Exchanges(p, t, call[q].old)'
    BY DEF Orphaned
  <2> DEFINE n == call[q].old
  <2>1. call[q].at = "refresh" /\ call'[q].old = n
    OBVIOUS
  <2>2. n \in Tokens /\ Fresh(n) /\ n \notin restored'
    BY <1>f, <2>1 DEF Fresh
  <2> HIDE DEF n
  <2>3. ASSUME NEW x \in Tabs, memory'[x].refresh = n PROVE Fresh(memory[x].refresh)' /\ memory[x].refresh = n
    <3>1. Fresh(memory[x].refresh)'
      BY <2>2, <2>3 DEF Fresh
    <3> QED
      BY <2>3, <3>1
  <2>4. \A p \in Requests, t \in Tabs : Exchanges(p, t, call[q].old)' => Exchanges(p, t, n)
    BY <2>1, <2>2 DEF Exchanges
  <2>5. CASE ~call[q].awaited
    BY <1>t, <2>1, <2>2, <2>3, <2>4, <2>5 DEF Orphaned, n
  <2>6. CASE call[q].awaited
    <3>1. Tab[q] \in Tabs /\ Exchanges(q, Tab[q], n)
      BY <2>1, <2>6 DEF Exchanges, OfTab, n
    <3>2. Fresh(call[q].old)'
      OBVIOUS
    <3>3. memory'[Tab[q]].refresh # n
      BY <2>1, <2>2, <2>6 DEF Fresh, n
    <3>4. \A x \in Tabs : memory'[x].refresh # n
      BY <1>t, <2>2, <2>3, <3>1, <3>3 DEF OneHolder
    <3>5. \A p \in Requests, t \in Tabs : ~Exchanges(p, t, call[q].old)'
      <4> SUFFICES ASSUME NEW p \in Requests, NEW t \in Tabs, Exchanges(p, t, call[q].old)'
                   PROVE  FALSE
        OBVIOUS
      <4>1. p = q
        BY <1>t, <2>2, <2>4, <3>1 DEF OneExchange
      <4> QED
        BY <4>1 DEF Exchanges, OfTab
    <3> QED
      BY <2>1, <3>4, <3>5
  <2> QED
    BY <2>5, <2>6
<1>7. GoodOrExchanged'
  <2> SUFFICES ASSUME NEW t \in Tabs, Fresh(memory[t].refresh)', memory'[t].refresh \in spent
               PROVE  \E q \in Requests : Exchanges(q, t, memory[t].refresh)'
    BY DEF GoodOrExchanged
  <2>1. memory'[t].refresh = memory[t].refresh /\ Fresh(memory[t].refresh)
        /\ memory[t].refresh \in Tokens
    BY <1>f DEF Fresh
  <2>2. PICK q \in Requests : Exchanges(q, t, memory[t].refresh)
    BY <1>t, <2>1 DEF GoodOrExchanged
  <2>3. Exchanges(q, t, memory[t].refresh)'
    BY <2>1, <2>2 DEF Exchanges
  <2> QED
    BY <2>3
<1>8. NeverTwice'
  BY <1>t DEF NeverTwice
<1> QED
  BY <1>1, <1>2, <1>3, <1>4, <1>5, <1>6, <1>7, <1>8 DEF Holding

\* The sessions stay as they are, and no exchange begins or ends.
LEMMA QuietHolding ==
    ASSUME Shape, Holding, UNCHANGED <<spent, used, restored>>,
           \A s \in Stores : stored'[s].refresh \in {stored[s].refresh, 0},
           \A t \in Tabs : memory'[t].refresh \in {memory[t].refresh, 0},
           \A q \in Requests :
              \/ /\ call'[q].at = call[q].at /\ call'[q].awaited = call[q].awaited
                 /\ call'[q].old = call[q].old /\ call'[q].new = call[q].new
              \/ /\ \A t \in Tabs, n \in Tokens : Exchanges(q, t, n)' <=> Exchanges(q, t, n)
                 /\ call'[q].old \in {call[q].old, 0} /\ call'[q].new \in {call[q].new, 0}
                 /\ call'[q].at \notin {"signed", "refresh"}
    PROVE  Holding'
<1>1. \A q \in Requests, t \in Tabs, n \in Tokens : Exchanges(q, t, n)' <=> Exchanges(q, t, n)
  BY DEF Exchanges, OfTab
<1>2. \A t \in Tabs : Fresh(memory[t].refresh)' => memory'[t].refresh = memory[t].refresh
  BY DEF Fresh, Tokens
<1> QED
  BY <1>1, <1>2, ShrinkStep

\* The steps of the server that spend and issue nothing, and the client's that
\* start or end a request which exchanges nothing.
LEMMA MinorHolding ==
    ASSUME Shape, Holding, NEW q \in Requests,
           \/ ConsumeMiss(q) \/ ServerRefuses(q) \/ ReadUser(q)
           \/ Served(q) \/ Vanish(q) \/ Send(q) \/ \E u \in Users : Login(q, u)
    PROVE  Holding'
<1>t. TypeOK /\ call[q] \in Call /\ Filled(call[q]) /\ 0 \notin Tokens
  BY DEF Shape, TypeOK, Tokens
<1>1. UNCHANGED <<spent, used, client>>
  BY DEF ConsumeMiss, ServerRefuses, ReadUser, Served, Vanish, Send, Login, server
<1>2. \A x \in Requests : x # q => call'[x] = call[x]
  BY <1>t DEF ConsumeMiss, ServerRefuses, ReadUser, Served, Vanish, Send, Login, TypeOK
<1>3. CASE ConsumeMiss(q) \/ ServerRefuses(q)
  <2>1. /\ call'[q].at = "refused" /\ call'[q].awaited = call[q].awaited
        /\ call'[q].old = call[q].old /\ call'[q].new = call[q].new
        /\ call[q].at \in {"login", "refresh", "consumed", "read"}
    BY <1>3, <1>t DEF ConsumeMiss, ServerRefuses, Goto, TypeOK
  <2>2. \A t \in Tabs, n \in Tokens : Exchanges(q, t, n)' <=> Exchanges(q, t, n)
    BY <1>t, <2>1 DEF Exchanges, OfTab, Filled
  <2> QED
    BY <1>1, <1>2, <2>1, <2>2, QuietHolding DEF client
<1>4. CASE ReadUser(q)
  <2>1. /\ call'[q].at = "read" /\ call'[q].awaited = call[q].awaited
        /\ call'[q].old = call[q].old /\ call'[q].new = 0
        /\ call[q].at \in {"login", "consumed"}
    BY <1>4, <1>t DEF ReadUser, TypeOK
  <2>2. \A t \in Tabs, n \in Tokens : Exchanges(q, t, n)' <=> Exchanges(q, t, n)
    BY <1>t, <2>1 DEF Exchanges, OfTab, Filled
  <2> QED
    BY <1>1, <1>2, <2>1, <2>2, QuietHolding DEF client
<1>5. CASE Served(q) \/ Vanish(q) \/ Send(q) \/ \E u \in Users : Login(q, u)
  <2>1. call'[q].at \in {"idle", "sent", "login"} /\ call'[q].old = 0 /\ call'[q].new = 0
    BY <1>5, <1>t DEF Served, Vanish, Send, Login, TypeOK, NoCall
  <2>2. call[q].at \in {"sent", "idle"} \/ ~call[q].awaited
    BY <1>5 DEF Served, Vanish, Send, Login
  <2>3. \A t \in Tabs, n \in Tokens : Exchanges(q, t, n)' <=> Exchanges(q, t, n)
    BY <2>1, <2>2 DEF Exchanges, OfTab
  <2> QED
    BY <1>1, <1>2, <2>1, <2>3, QuietHolding DEF client
<1> QED
  BY <1>3, <1>4, <1>5

\* GETDEL spends the token of the one request that may have it.
LEMMA ConsumeHolding ==
    ASSUME Shape, Holding, NEW q \in Requests, Consume(q)
    PROVE  Holding'
<1> DEFINE o == call[q].old
<1>t. /\ Issued /\ OneRefresh /\ NewIsNew /\ OneHolder /\ OneExchange /\ Orphaned
      /\ GoodOrExchanged /\ NeverTwice
      /\ TypeOK /\ call[q] \in Call /\ Filled(call[q])
  BY DEF Holding, Shape, TypeOK
<1>1. /\ call[q].at = "refresh" /\ spent' = spent \cup {o}
      /\ UNCHANGED <<used, client>>
  BY DEF Consume
<1>2. /\ call'[q].at = "consumed" /\ call'[q].awaited = call[q].awaited
      /\ call'[q].old = o /\ call'[q].new = 0
      /\ \A x \in Requests : x # q => call'[x] = call[x]
  BY <1>t DEF Consume, TypeOK
<1>3. o \in Tokens
  BY <1>t, <1>1 DEF Filled, Call, Tokens
<1>4. \A x \in Requests, t \in Tabs, n \in Tokens : Exchanges(x, t, n)' <=> Exchanges(x, t, n)
  BY <1>1, <1>2 DEF Exchanges, OfTab
<1>5. \A n : Fresh(n)' <=> Fresh(n)
  BY <1>1 DEF Fresh, client
<1>6. /\ memory' = memory /\ stored' = stored /\ restored' = restored
      /\ \A x \in Requests : call'[x].old = call[x].old
      /\ Stores' = Stores
  BY <1>1, <1>2 DEF client, Stores
<1>7. Issued'
  BY <1>1, <1>2, <1>6, <1>t, AuthAssumption DEF Issued, TypeOK
<1>8. OneRefresh' /\ OneHolder' /\ OneExchange'
  BY <1>4, <1>5, <1>6, <1>t DEF OneRefresh, OneHolder, OneExchange
<1>9. NewIsNew'
  <2>1. \A p \in Requests : call'[p].at = "signed" => call[p].at = "signed" /\ call'[p] = call[p]
    BY <1>2
  <2> QED
    BY <1>1, <1>6, <1>t, <2>1 DEF NewIsNew
<1>10. Orphaned'
  <2> SUFFICES ASSUME NEW p \in Requests, call'[p].at = "refresh", ~call'[p].awaited,
                      Fresh(call[p].old)'
               PROVE  /\ \A t \in Tabs : memory'[t].refresh # call'[p].old
                      /\ \A x \in Requests, t \in Tabs : ~Exchanges(x, t, call[p].old)'
    BY DEF Orphaned
  <2>1. p # q /\ call'[p] = call[p]
    BY <1>2
  <2>2. Fresh(call[p].old)
    BY <1>5, <2>1 DEF Fresh
  <2>3. /\ \A t \in Tabs : memory[t].refresh # call[p].old
        /\ \A x \in Requests, t \in Tabs : ~Exchanges(x, t, call[p].old)
    BY <1>t, <2>1, <2>2 DEF Orphaned
  <2>4. \A x \in Requests, t \in Tabs : ~Exchanges(x, t, call[p].old)'
    BY <1>4, <2>1, <2>2, <2>3 DEF Fresh, Exchanges
  <2> QED
    BY <1>6, <2>1, <2>3, <2>4
<1>11. ASSUME Fresh(o), ~call[q].awaited
       PROVE  /\ \A t \in Tabs : memory[t].refresh # o
              /\ \A p \in Requests, t \in Tabs : ~Exchanges(p, t, o)
  BY <1>1, <1>11, <1>t DEF Orphaned
<1>12. call[q].awaited => Exchanges(q, Tab[q], o) /\ Tab[q] \in Tabs
  BY <1>1, AuthAssumption DEF Exchanges, OfTab
<1>13. GoodOrExchanged'
  <2> SUFFICES ASSUME NEW t \in Tabs, Fresh(memory[t].refresh), memory[t].refresh \in spent \cup {o}
               PROVE  \E x \in Requests : Exchanges(x, t, memory[t].refresh)
    BY <1>1, <1>4, <1>5, <1>6 DEF GoodOrExchanged, Fresh, Exchanges
  <2>1. CASE memory[t].refresh = o
    <3>1. call[q].awaited
      BY <1>11, <2>1
    <3>2. Tab[q] = t
      BY <1>3, <1>12, <1>t, <2>1, <3>1 DEF OneHolder
    <3> QED
      BY <1>12, <2>1, <3>1, <3>2
  <2>2. CASE memory[t].refresh \in spent
    BY <1>t, <2>2 DEF GoodOrExchanged
  <2> QED
    BY <2>1, <2>2
<1>14. NeverTwice'
  <2> SUFFICES ASSUME NEW p \in Requests, call'[p].at = "refresh", call'[p].awaited,
                      call'[p].old \in spent \cup {o}
               PROVE  call'[p].old \in restored
    BY <1>1, <1>6 DEF NeverTwice
  <2>1. p # q /\ call'[p] = call[p]
    BY <1>2
  <2>2. CASE call[p].old \in spent
    BY <1>t, <2>1, <2>2 DEF NeverTwice
  <2>3. CASE call[p].old = o
    <3>1. Tab[p] \in Tabs /\ Exchanges(p, Tab[p], o)
      BY <2>1, <2>3, AuthAssumption DEF Exchanges, OfTab
    <3>2. CASE Fresh(o)
      <4>1. call[q].awaited
        BY <1>11, <3>1, <3>2
      <4>2. p = q
        BY <1>3, <1>12, <1>t, <3>1, <3>2, <4>1 DEF OneExchange
      <4> QED
        BY <2>1, <4>2
    <3>3. CASE ~Fresh(o)
      BY <1>3, <2>1, <2>3, <3>3 DEF Fresh
    <3> QED
      BY <3>2, <3>3
  <2> QED
    BY <2>1, <2>2, <2>3
<1> QED
  BY <1>7, <1>8, <1>9, <1>10, <1>13, <1>14 DEF Holding

LEMMA IssueHolding ==
    ASSUME Shape, Lineage, Holding, NEW q \in Requests, Issue(q), Shape'
    PROVE  Holding'
<1> DEFINE n == used + 1
<1>t. /\ Issued /\ OneRefresh /\ NewIsNew /\ OneHolder /\ OneExchange /\ Orphaned
      /\ GoodOrExchanged /\ NeverTwice
      /\ TypeOK /\ used \in Nat /\ used' \in 0..MaxTokens
  BY DEF Holding, Shape, TypeOK
<1>1. call[q].at = "read" /\ used' = n /\ UNCHANGED <<spent, client>>
  BY DEF Issue
<1>2. /\ call'[q].at = "signed" /\ call'[q].awaited = call[q].awaited
      /\ call'[q].old = call[q].old /\ call'[q].new = n
      /\ \A x \in Requests : x # q => call'[x] = call[x]
  BY <1>t DEF Issue, TypeOK
<1>3. n \in Tokens
  BY <1>1, <1>t, AuthAssumption DEF Tokens
<1>4. \A x \in Requests, t \in Tabs, m \in Tokens : Exchanges(x, t, m)' <=> Exchanges(x, t, m)
  BY <1>1, <1>2 DEF Exchanges, OfTab
<1>5. \A m : Fresh(m)' <=> Fresh(m)
  BY <1>1 DEF Fresh, client
<1>6. /\ memory' = memory /\ stored' = stored /\ restored' = restored
      /\ \A x \in Requests : call'[x].old = call[x].old
      /\ Stores' = Stores
  BY <1>1, <1>2 DEF client, Stores
<1>7. /\ \A t \in Tabs : memory[t].refresh \in Nat
      /\ \A s \in Stores : stored[s].refresh \in Nat
      /\ \A x \in Requests : call[x].old \in Nat /\ call[x].new \in Nat
      /\ \A m \in Tokens : m \in Nat
  BY <1>t DEF TypeOK, Session, Call, Tokens
<1>8. /\ \A t \in Tabs : memory[t].refresh # n /\ memory[t].refresh <= n
      /\ \A s \in Stores : stored[s].refresh # n /\ stored[s].refresh <= n
      /\ \A x \in Requests : call[x].old # n /\ call[x].new # n
                             /\ call[x].old <= n /\ call[x].new <= n
      /\ n \notin restored /\ n \notin spent /\ \A m \in restored : m <= n
  <2>1. restored \subseteq Nat /\ spent \subseteq Nat
    BY <1>7, <1>t DEF TypeOK
  <2>2. n \notin restored /\ \A m \in restored : m <= n
    BY <1>t, <2>1 DEF Issued
  <2>3. n \notin spent
    BY <1>t, <2>1 DEF Lineage
  <2> QED
    BY <1>7, <1>t, <2>2, <2>3 DEF Issued
<1>9. Issued'
  BY <1>1, <1>2, <1>6, <1>8, <1>t DEF Issued
<1>10. OneRefresh' /\ OneHolder' /\ OneExchange'
  BY <1>4, <1>5, <1>6, <1>t DEF OneRefresh, OneHolder, OneExchange
<1>11. NewIsNew'
  <2> SUFFICES ASSUME NEW p \in Requests, call'[p].at = "signed"
               PROVE  /\ call'[p].new \in Tokens \ (spent \cup restored)
                      /\ \A t \in Tabs : memory[t].refresh # call'[p].new
                      /\ \A s \in Stores : stored[s].refresh # call'[p].new
                      /\ \A x \in Requests : call[x].old # call'[p].new
                      /\ \A x \in Requests :
                            call'[x].at = "signed" /\ call'[x].new = call'[p].new => x = p
    BY <1>1, <1>6 DEF NewIsNew
  <2>1. CASE p = q
    BY <1>2, <1>3, <1>8, <2>1
  <2>2. CASE p # q
    BY <1>2, <1>8, <1>t, <2>2 DEF NewIsNew
  <2> QED
    BY <2>1, <2>2
<1>12. Orphaned'
  <2> SUFFICES ASSUME NEW p \in Requests, call'[p].at = "refresh", ~call'[p].awaited,
                      Fresh(call[p].old)'
               PROVE  /\ \A t \in Tabs : memory'[t].refresh # call'[p].old
                      /\ \A x \in Requests, t \in Tabs : ~Exchanges(x, t, call[p].old)'
    BY DEF Orphaned
  <2>1. p # q /\ call'[p] = call[p]
    BY <1>2
  <2>2. Fresh(call[p].old)
    BY <1>5, <2>1 DEF Fresh
  <2>3. /\ \A t \in Tabs : memory[t].refresh # call[p].old
        /\ \A x \in Requests, t \in Tabs : ~Exchanges(x, t, call[p].old)
    BY <1>t, <2>1, <2>2 DEF Orphaned
  <2>4. \A x \in Requests, t \in Tabs : ~Exchanges(x, t, call[p].old)'
    BY <1>4, <2>1, <2>2, <2>3 DEF Fresh, Exchanges
  <2> QED
    BY <1>6, <2>1, <2>3, <2>4
<1>13. GoodOrExchanged'
  BY <1>1, <1>4, <1>5, <1>6, <1>t DEF GoodOrExchanged, Fresh, Exchanges
<1>14. NeverTwice'
  BY <1>1, <1>2, <1>6, <1>t DEF NeverTwice
<1> QED
  BY <1>9, <1>10, <1>11, <1>12, <1>13, <1>14 DEF Holding

LEMMA RefreshingIsExchange ==
    ASSUME TypeOK, NEW t \in Tabs, NEW q \in Requests, NEW n \in Tokens, Exchanges(q, t, n)
    PROVE  Refreshing(t)
  BY DEF Exchanges, Refreshing, Tokens

LEMMA UnauthorizedHolding ==
    ASSUME Shape, Holding, NEW q \in Requests, Unauthorized(q)
    PROVE  Holding'
<1> DEFINE t == Tab[q]
           n == memory[t].refresh
<1>t. /\ Issued /\ OneRefresh /\ NewIsNew /\ OneHolder /\ OneExchange /\ Orphaned
      /\ GoodOrExchanged /\ NeverTwice
      /\ TypeOK /\ t \in Tabs
  BY AuthAssumption DEF Holding, Shape
<1>1. /\ call[q].at = "sent" /\ n # 0 /\ UNCHANGED <<users, server, client>>
      /\ \A x \in Requests : x # q => call'[x] = call[x]
  BY <1>t DEF Unauthorized, TypeOK
<1>2. CASE Joins(q)
  <2>1. call'[q].at = "joined" /\ call'[q].old = 0 /\ call'[q].new = 0
    BY <1>2, <1>t DEF Unauthorized, TypeOK
  <2>2. \A x \in Tabs, m \in Tokens : Exchanges(q, x, m)' <=> Exchanges(q, x, m)
    BY <1>1, <2>1 DEF Exchanges
  <2> QED
    BY <1>1, <2>1, <2>2, QuietHolding DEF client, server
<1>3. CASE ~Joins(q)
  <2>1. /\ call'[q].at = "refresh" /\ call'[q].awaited /\ call'[q].old = n /\ call'[q].new = 0
    BY <1>3, <1>t DEF Unauthorized, TypeOK
  <2>2. n \in Tokens
    BY <1>1, <1>t DEF TypeOK, Session, Tokens
  <2>3. \A p \in Requests, m \in Tokens : ~Exchanges(p, t, m)
    BY <1>3, <1>t, RefreshingIsExchange DEF Joins
  <2>4. /\ Exchanges(q, t, n)'
        /\ \A x \in Tabs, m \in Tokens : Exchanges(q, x, m)' => x = t /\ m = n
        /\ \A p \in Requests, x \in Tabs, m \in Tokens :
              p # q => (Exchanges(p, x, m)' <=> Exchanges(p, x, m))
        /\ \A x \in Tabs, m \in Tokens : ~Exchanges(q, x, m)
    <3>1. memory' = memory
      BY <1>1 DEF client
    <3>2. Exchanges(q, t, n)'
      BY <2>1, <3>1 DEF Exchanges, OfTab
    <3>3. \A x \in Tabs, m \in Tokens : Exchanges(q, x, m)' => x = t /\ m = n
      BY <2>1 DEF Exchanges, OfTab
    <3>4. \A p \in Requests, x \in Tabs, m \in Tokens :
            p # q => (Exchanges(p, x, m)' <=> Exchanges(p, x, m))
      BY <1>1 DEF Exchanges, OfTab
    <3>5. \A x \in Tabs, m \in Tokens : ~Exchanges(q, x, m)
      BY <1>1 DEF Exchanges
    <3> QED
      BY <3>2, <3>3, <3>4, <3>5
  <2>5. /\ memory' = memory /\ stored' = stored /\ restored' = restored /\ used' = used
        /\ spent' = spent /\ Stores' = Stores /\ \A m : Fresh(m)' <=> Fresh(m)
    BY <1>1 DEF client, server, Stores, Fresh
  <2> HIDE DEF n, t
  <2>n. n = memory[t].refresh /\ t = Tab[q]
    BY DEF n, t
  <2>6. Issued'
    BY <1>1, <1>t, <2>1, <2>2, <2>5, <2>n, AuthAssumption DEF Issued, TypeOK
  <2>7. OneRefresh'
    BY <1>t, <2>3, <2>4 DEF OneRefresh
  <2>8. NewIsNew'
    <3>1. \A p \in Requests : call'[p].at = "signed" => call[p].at = "signed" /\ call'[p] = call[p]
      BY <1>1, <2>1
    <3>2. \A x \in Requests : call'[x].old = call[x].old \/ call'[x].old = memory[t].refresh
      BY <1>1, <2>1, <2>n
    <3> QED
      BY <1>t, <2>5, <3>1, <3>2 DEF NewIsNew
  <2>9. OneHolder'
    <3>1. \A p \in Requests, x, y \in Tabs, m \in Tokens :
            Fresh(m) /\ Exchanges(p, x, m)' /\ memory[y].refresh = m => y = x
      BY <1>t, <2>4, <2>n DEF OneHolder
    <3> QED
      BY <1>t, <2>5, <3>1 DEF OneHolder
  <2>10. OneExchange'
    <3>1. \A p \in Requests, x \in Tabs : Fresh(n) => ~Exchanges(p, x, n)
      BY <1>t, <2>2, <2>3, <2>n DEF OneHolder
    <3> QED
      BY <1>t, <2>4, <2>5, <3>1 DEF OneExchange
  <2>11. Orphaned'
    <3> SUFFICES ASSUME NEW p \in Requests, call'[p].at = "refresh", ~call'[p].awaited,
                        Fresh(call[p].old)'
                 PROVE  /\ \A x \in Tabs : memory'[x].refresh # call'[p].old
                        /\ \A y \in Requests, x \in Tabs : ~Exchanges(y, x, call[p].old)'
      BY DEF Orphaned
    <3>1. p # q /\ call'[p] = call[p]
      BY <1>1, <2>1
    <3>2. Fresh(call[p].old)
      BY <2>5, <3>1 DEF Fresh
    <3>3. /\ \A x \in Tabs : memory[x].refresh # call[p].old
          /\ \A y \in Requests, x \in Tabs : ~Exchanges(y, x, call[p].old)
      BY <1>t, <3>1, <3>2 DEF Orphaned
    <3>4. ASSUME NEW y \in Requests, NEW x \in Tabs PROVE ~Exchanges(y, x, call[p].old)'
      <4>1. call[p].old \in Tokens /\ call[p].old # n
        BY <1>t, <2>n, <3>2, <3>3 DEF Fresh
      <4>2. \A m : m = call[p].old => (Exchanges(y, x, m)' <=> Exchanges(y, x, call[p].old)')
        BY <3>1 DEF Exchanges
      <4> QED
        BY <2>4, <3>3, <4>1, <4>2
    <3> QED
      BY <2>5, <3>1, <3>3, <3>4
  <2>12. GoodOrExchanged'
    <3> SUFFICES ASSUME NEW x \in Tabs, Fresh(memory[x].refresh), memory[x].refresh \in spent
                 PROVE  \E p \in Requests : Exchanges(p, x, memory[x].refresh)'
      BY <2>5 DEF GoodOrExchanged, Fresh
    <3>1. PICK p \in Requests : Exchanges(p, x, memory[x].refresh)
      BY <1>t DEF GoodOrExchanged
    <3>2. p # q
      BY <2>4, <3>1 DEF Fresh
    <3>3. Exchanges(p, x, memory[x].refresh)'
      BY <1>1, <2>5, <3>1, <3>2 DEF Exchanges, OfTab
    <3> QED
      BY <3>3
  <2>13. NeverTwice'
    <3>1. n \in spent => n \in restored
      BY <1>t, <2>2, <2>3, <2>n DEF GoodOrExchanged, Fresh
    <3> QED
      BY <1>1, <1>t, <2>1, <2>5, <3>1 DEF NeverTwice
  <2> QED
    BY <2>6, <2>7, <2>8, <2>9, <2>10, <2>11, <2>12, <2>13 DEF Holding
<1> QED
  BY <1>2, <1>3

\* The requests that end, and what they exchanged.
LEMMA FinishExchanges ==
    ASSUME TypeOK, NEW q \in Requests, Finish(q)
    PROVE  /\ \A x \in Requests, t \in Tabs, n \in Tokens :
                 /\ Exchanges(x, t, n)' => Exchanges(x, t, n)
                 /\ Exchanges(x, t, n) /\ x # q => Exchanges(x, t, n)'
           /\ \A x \in Requests : call'[x] = call[x] \/ call'[x] = NoCall
           /\ call'[q] = NoCall
<1>1. \A x \in Requests : call'[x] = IF x \in Settled(q) THEN NoCall ELSE call[x]
  BY FinishType
<1>2. \A x \in Requests, t \in Tabs, n \in Tokens : Exchanges(x, t, n)' => Exchanges(x, t, n)
  BY <1>1 DEF Exchanges, OfTab, NoCall
<1>3. \A x \in Requests, t \in Tabs, n \in Tokens :
        Exchanges(x, t, n) /\ x # q => Exchanges(x, t, n)'
  BY <1>1 DEF Exchanges, OfTab, Settled
<1> QED
  BY <1>1, <1>2, <1>3 DEF Settled

LEMMA SaveHolding ==
    ASSUME Shape, Holding, NEW q \in Requests, Save(q)
    PROVE  Holding'
<1> DEFINE T == Tab[q]
           n == call[q].new
           session == [access |-> call[q].access, refresh |-> n]
<1>t. /\ Issued /\ OneRefresh /\ NewIsNew /\ OneHolder /\ OneExchange /\ Orphaned
      /\ GoodOrExchanged /\ NeverTwice
      /\ TypeOK /\ T \in Tabs
  BY AuthAssumption DEF Holding, Shape
<1>1. /\ call[q].at = "signed" /\ call[q].awaited /\ Keep(T, session) /\ Finish(q)
      /\ UNCHANGED <<users, server>>
  BY DEF Save
<1>2. /\ n \in Tokens \ (spent \cup restored)
      /\ \A t \in Tabs : memory[t].refresh # n
      /\ \A s \in Stores : stored[s].refresh # n
      /\ \A x \in Requests : call[x].old # n
      /\ \A x \in Requests : call[x].at = "signed" /\ call[x].new = n => x = q
  BY <1>1, <1>t DEF NewIsNew
<1>k. session \in Session
  BY <1>1, <1>t DEF TypeOK, Call, Session
<1>3. /\ memory'[T].refresh = n /\ \A t \in Tabs : t # T => memory'[t] = memory[t]
      /\ \A s \in Stores : stored'[s].refresh \in {stored[s].refresh, n}
      /\ restored' = restored /\ spent' = spent /\ used' = used /\ Stores' = Stores
      /\ \A m : Fresh(m)' <=> Fresh(m)
  BY <1>1, <1>k, <1>t, KeptParts DEF Keep, TypeOK, server, Stores, Fresh
<1>4. /\ \A x \in Requests, t \in Tabs, m \in Tokens :
            /\ Exchanges(x, t, m)' => Exchanges(x, t, m)
            /\ Exchanges(x, t, m) /\ x # q => Exchanges(x, t, m)'
      /\ \A x \in Requests : call'[x] = call[x] \/ call'[x] = NoCall
      /\ call'[q] = NoCall
  BY <1>1, <1>t, FinishExchanges
<1>0. NoCall.at = "idle" /\ NoCall.old = 0 /\ NoCall.new = 0 /\ 0 \notin Tokens
  BY DEF NoCall, Tokens
<1>5. \A x \in Requests, t \in Tabs : ~Exchanges(x, t, n)
  BY <1>2 DEF Exchanges
<1>6. \A t \in Tabs, m \in Tokens : Exchanges(q, t, m) => t = T
  BY DEF Exchanges, OfTab
<1> HIDE DEF T, n
<1>7. Issued'
  <2>1. n <= used /\ used \in Nat
    BY <1>t DEF Issued, TypeOK, n
  <2> QED
    BY <1>0, <1>3, <1>4, <1>t, <2>1 DEF Issued
<1>8. OneRefresh'
  BY <1>4, <1>t DEF OneRefresh
<1>9. NewIsNew'
  <2> SUFFICES ASSUME NEW p \in Requests, call'[p].at = "signed"
               PROVE  /\ call'[p].new \in Tokens \ (spent \cup restored)
                      /\ \A t \in Tabs : memory'[t].refresh # call'[p].new
                      /\ \A s \in Stores : stored'[s].refresh # call'[p].new
                      /\ \A x \in Requests : call'[x].old # call'[p].new
                      /\ \A x \in Requests :
                            call'[x].at = "signed" /\ call'[x].new = call'[p].new => x = p
    BY <1>3 DEF NewIsNew
  <2>1. call'[p] = call[p] /\ p # q
    BY <1>0, <1>4
  <2>2. /\ call[p].new \in Tokens \ (spent \cup restored) /\ call[p].new # n
        /\ \A t \in Tabs : memory[t].refresh # call[p].new
        /\ \A s \in Stores : stored[s].refresh # call[p].new
        /\ \A x \in Requests : call[x].old # call[p].new
        /\ \A x \in Requests : call[x].at = "signed" /\ call[x].new = call[p].new => x = p
    BY <1>2, <1>t, <2>1 DEF NewIsNew
  <2> QED
    BY <1>0, <1>3, <1>4, <2>1, <2>2
<1>10. OneHolder'
  <2>1. \A t, x \in Tabs : Fresh(memory'[t].refresh) /\ memory'[t].refresh = memory'[x].refresh => t = x
    BY <1>2, <1>3, <1>t DEF OneHolder
  <2>2. \A p \in Requests, t, x \in Tabs, m \in Tokens :
          Fresh(m) /\ Exchanges(p, t, m)' /\ memory'[x].refresh = m => x = t
    BY <1>3, <1>4, <1>5, <1>t DEF OneHolder
  <2> QED
    BY <1>3, <2>1, <2>2 DEF OneHolder
<1>11. OneExchange'
  BY <1>3, <1>4, <1>t DEF OneExchange
<1>12. Orphaned'
  <2> SUFFICES ASSUME NEW p \in Requests, call'[p].at = "refresh", ~call'[p].awaited,
                      Fresh(call[p].old)'
               PROVE  /\ \A x \in Tabs : memory'[x].refresh # call'[p].old
                      /\ \A y \in Requests, x \in Tabs : ~Exchanges(y, x, call[p].old)'
    BY DEF Orphaned
  <2>1. call'[p] = call[p]
    BY <1>0, <1>4
  <2>2. Fresh(call[p].old)
    BY <1>3, <2>1 DEF Fresh
  <2>3. /\ \A x \in Tabs : memory[x].refresh # call[p].old
        /\ \A y \in Requests, x \in Tabs : ~Exchanges(y, x, call[p].old)
    BY <1>t, <2>1, <2>2 DEF Orphaned
  <2>4. \A y \in Requests, x \in Tabs : ~Exchanges(y, x, call[p].old)'
    <3> SUFFICES ASSUME NEW y \in Requests, NEW x \in Tabs, Exchanges(y, x, call[p].old)'
                 PROVE  FALSE
      OBVIOUS
    <3>1. \E m \in Tokens : m = call[p].old /\ Exchanges(y, x, m)'
      BY <2>1, <2>2 DEF Fresh, Exchanges
    <3> QED
      BY <1>4, <2>3, <3>1
  <2> QED
    BY <1>2, <1>3, <2>1, <2>3, <2>4
<1>13. GoodOrExchanged'
  <2> SUFFICES ASSUME NEW x \in Tabs, Fresh(memory'[x].refresh), memory'[x].refresh \in spent
               PROVE  \E p \in Requests : Exchanges(p, x, memory[x].refresh)'
    BY <1>3 DEF GoodOrExchanged, Fresh
  <2>1. x # T /\ memory'[x] = memory[x] /\ memory[x].refresh \in Tokens
    BY <1>2, <1>3 DEF Fresh
  <2>2. PICK p \in Requests : Exchanges(p, x, memory[x].refresh)
    BY <1>t, <2>1 DEF GoodOrExchanged
  <2>3. p # q
    BY <1>6, <2>1, <2>2
  <2>4. \E m \in Tokens : m = memory[x].refresh /\ Exchanges(p, x, m)'
    BY <1>4, <2>1, <2>2, <2>3
  <2>5. Exchanges(p, x, memory[x].refresh)'
    BY <2>1, <2>4 DEF Exchanges
  <2> QED
    BY <2>5
<1>14. NeverTwice'
  BY <1>0, <1>3, <1>4, <1>t DEF NeverTwice
<1> QED
  BY <1>7, <1>8, <1>9, <1>10, <1>11, <1>12, <1>13, <1>14 DEF Holding

\* A refresh that failed, or that nobody waits for any more, takes the session
\* with it; another request that ends so takes nothing.
LEMMA GivesUpHolding ==
    ASSUME Shape, Holding, NEW q \in Requests, GivesUp(q),
           \A x \in Requests, t \in Tabs, n \in Tokens :
              /\ Exchanges(x, t, n)' => Exchanges(x, t, n)
              /\ Exchanges(x, t, n) /\ x # q => Exchanges(x, t, n)',
           \A x \in Requests : x # q => call'[x] = call[x] \/ call'[x] = NoCall,
           call'[q] = NoCall \/ (call[q].awaited /\ call'[q] = Abandoned(q))
    PROVE  Holding'
<1> DEFINE T == Tab[q]
<1>t. TypeOK /\ T \in Tabs /\ call[q] \in Call /\ Filled(call[q])
  BY AuthAssumption DEF Shape, TypeOK
<1>0. NoCall.at = "idle" /\ NoCall.old = 0 /\ NoCall.new = 0 /\ 0 \notin Tokens
  BY DEF NoCall, Tokens
<1>1. /\ Abandoned(q).at = call[q].at /\ Abandoned(q).old = call[q].old
      /\ Abandoned(q).new = call[q].new /\ Abandoned(q).awaited = FALSE
  BY <1>t, AbandonedType
<1>2. restored' = restored /\ UNCHANGED <<users, server>>
  BY DEF GivesUp, Keep, client
<1>3. \A s \in Stores : stored'[s].refresh \in {stored[s].refresh, 0}
  <2>1. LoggedOut \in Session /\ LoggedOut.refresh = 0
    BY AuthAssumption DEF LoggedOut, Session
  <2>2. CASE Keep(T, LoggedOut)
    BY <1>t, <2>1, <2>2, KeptParts
  <2>3. CASE UNCHANGED client
    BY <2>3 DEF client
  <2> QED
    BY <2>2, <2>3 DEF GivesUp
<1>4. /\ \A t \in Tabs : memory'[t].refresh \in {memory[t].refresh, 0}
      /\ call[q].old # 0 => memory'[T].refresh = 0
  BY <1>t DEF GivesUp, Keep, TypeOK, LoggedOut, client
<1>5. \A t \in Tabs : Fresh(memory[t].refresh)' =>
        /\ memory'[t].refresh = memory[t].refresh
        /\ \A x \in Requests, n \in Tokens : Exchanges(x, t, n) => Exchanges(x, t, n)'
  <2> TAKE t \in Tabs
  <2> HAVE Fresh(memory[t].refresh)'
  <2>1. memory'[t].refresh = memory[t].refresh /\ memory'[t].refresh # 0
    BY <1>0, <1>4 DEF Fresh
  <2>2. \A n \in Tokens : ~Exchanges(q, t, n)
    BY <1>0, <1>4, <2>1 DEF Exchanges, OfTab
  <2> QED
    BY <2>1, <2>2
<1>6. ASSUME NEW x \in Requests
      PROVE  /\ call'[x].old \in {call[x].old, 0} /\ call'[x].new \in {call[x].new, 0}
             /\ call'[x].at = "signed" => call[x].at = "signed" /\ call'[x].new = call[x].new
             /\ call'[x].at = "refresh" =>
                   /\ call[x].at = "refresh" /\ call'[x].old = call[x].old
                   /\ call'[x].awaited => call[x].awaited
                   /\ call[x].awaited /\ ~call'[x].awaited /\ Fresh(call[x].old)' =>
                         memory'[Tab[x]].refresh # call[x].old
  <2>1. CASE x # q
    BY <1>0, <2>1
  <2>2. CASE x = q /\ call'[q] = NoCall
    BY <1>0, <2>2
  <2>3. CASE x = q /\ call'[q] = Abandoned(q)
    <3>1. call[q].at = "refresh" => call[q].old # 0 /\ memory'[T].refresh = 0
      BY <1>t, <1>4 DEF Filled
    <3> QED
      BY <1>1, <2>3, <3>1
  <2> QED
    BY <2>1, <2>2, <2>3
<1> HIDE DEF T
<1> QED
  BY <1>2, <1>3, <1>4, <1>5, <1>6, ShrinkStep DEF server

LEMMA TimeOutExchanges ==
    ASSUME TypeOK, NEW q \in Requests, TimeOut(q)
    PROVE  /\ \A x \in Requests, t \in Tabs, n \in Tokens :
                 /\ Exchanges(x, t, n)' => Exchanges(x, t, n)
                 /\ Exchanges(x, t, n) /\ x # q => Exchanges(x, t, n)'
           /\ \A x \in Requests : x # q => call'[x] = call[x] \/ call'[x] = NoCall
           /\ call[q].awaited /\ call'[q] = Abandoned(q)
<1>1. \A x \in Requests : call'[x] = IF x = q THEN Abandoned(q)
                                     ELSE IF x \in Settled(q) THEN NoCall ELSE call[x]
  BY TimeOutType
<1>2. \A x \in Requests, t \in Tabs, n \in Tokens : Exchanges(x, t, n)' => Exchanges(x, t, n)
  BY <1>1 DEF Exchanges, OfTab, NoCall, Abandoned
<1>3. \A x \in Requests, t \in Tabs, n \in Tokens :
        Exchanges(x, t, n) /\ x # q => Exchanges(x, t, n)'
  BY <1>1 DEF Exchanges, OfTab, Settled
<1> QED
  BY <1>1, <1>2, <1>3 DEF TimeOut

\* A tab that opens waits for nothing, and has what others have.
LEMMA OpenHolding ==
    ASSUME Shape, Holding, NEW t \in Tabs, Open(t)
    PROVE  Holding'
<1> DEFINE S == Storage[t]
<1>t. TypeOK /\ S \in Stores /\ 0 \notin Tokens /\ stored[S] \in Session
  BY DEF Shape, TypeOK, Stores, Tokens
<1>1. /\ memory'[t] = stored[S] /\ \A x \in Tabs : x # t => memory'[x] = memory[x]
      /\ restored' = restored \cup ({stored[S].refresh} \ {0})
      /\ UNCHANGED <<users, server, stored>>
  BY <1>t DEF Open, TypeOK
<1>2. \A x \in Requests : /\ call'[x] = IF Tab[x] = t /\ call[x].at # "idle" THEN Abandoned(x)
                                         ELSE call[x]
                          /\ Abandoned(x).at = call[x].at /\ Abandoned(x).old = call[x].old
                          /\ Abandoned(x).new = call[x].new /\ Abandoned(x).awaited = FALSE
  BY <1>t, OpenType, AbandonedType
<1>3. \A x \in Requests, y \in Tabs, n \in Tokens : Exchanges(x, y, n)' => Exchanges(x, y, n)
  BY <1>2 DEF Exchanges, OfTab
<1>4. \A x \in Requests, y \in Tabs, n \in Tokens :
        y # t /\ Exchanges(x, y, n) => Exchanges(x, y, n)'
  BY <1>2 DEF Exchanges, OfTab
<1>5. ~Fresh(memory[t].refresh)'
  BY <1>1, <1>t DEF Fresh
<1>6. \A y \in Tabs : Fresh(memory[y].refresh)' =>
        /\ memory'[y].refresh = memory[y].refresh
        /\ \A x \in Requests, n \in Tokens : Exchanges(x, y, n) => Exchanges(x, y, n)'
  BY <1>1, <1>4, <1>5
<1>7. ASSUME NEW x \in Requests
      PROVE  /\ call'[x].old \in {call[x].old, 0} /\ call'[x].new \in {call[x].new, 0}
             /\ call'[x].at = "signed" => call[x].at = "signed" /\ call'[x].new = call[x].new
             /\ call'[x].at = "refresh" =>
                   /\ call[x].at = "refresh" /\ call'[x].old = call[x].old
                   /\ call'[x].awaited => call[x].awaited
                   /\ call[x].awaited /\ ~call'[x].awaited /\ Fresh(call[x].old)' =>
                         memory'[Tab[x]].refresh # call[x].old
  <2>1. CASE Tab[x] = t /\ call[x].at # "idle"
    <3>1. Fresh(call[x].old)' => memory'[t].refresh # call[x].old
      BY <1>2, <1>5, <2>1 DEF Fresh
    <3> QED
      BY <1>2, <2>1, <3>1
  <2>2. CASE ~(Tab[x] = t /\ call[x].at # "idle")
    BY <1>2, <2>2
  <2> QED
    BY <2>1, <2>2
<1>8. \A y \in Tabs : \/ memory'[y].refresh \in {memory[y].refresh, 0}
                      \/ \E s \in Stores : memory'[y].refresh = stored[s].refresh
  BY <1>1, <1>t
<1>9. /\ restored \subseteq restored'
      /\ restored' \subseteq restored \cup {stored[s].refresh : s \in Stores}
      /\ UNCHANGED <<spent, used>> /\ \A s \in Stores : stored'[s].refresh \in {stored[s].refresh, 0}
  BY <1>1, <1>t DEF server
<1> HIDE DEF S
<1> QED
  BY <1>3, <1>6, <1>7, <1>8, <1>9, ShrinkStep

LEMMA HoldingStep == Shape /\ Shape' /\ Lineage /\ Holding /\ [Next]_vars => Holding'
<1> SUFFICES ASSUME Shape, Shape', Lineage, Holding, [Next]_vars PROVE Holding'
  OBVIOUS
<1>t. TypeOK
  BY DEF Shape
\* Sessions that only age, and requests that stay where they are.
<1>1. CASE Tick
  <2>1. /\ UNCHANGED <<spent, used, restored>>
        /\ \A s \in Stores : stored'[s].refresh = stored[s].refresh
        /\ \A t \in Tabs : memory'[t].refresh = memory[t].refresh
        /\ \A q \in Requests : /\ call'[q].at = call[q].at /\ call'[q].awaited = call[q].awaited
                               /\ call'[q].old = call[q].old /\ call'[q].new = call[q].new
    BY <1>1 DEF Tick, Aging
  <2> QED
    BY <2>1, QuietHolding
<1>2. CASE Decree
  BY <1>2, QuietHolding DEF Decree, SetAccount, server, client
<1>3. CASE UNCHANGED vars
  BY <1>3, QuietHolding DEF vars
<1>4. ASSUME NEW t \in Tabs, Logout(t) PROVE Holding'
  <2>1. /\ \A s \in Stores : stored'[s].refresh \in {stored[s].refresh, 0}
        /\ \A x \in Tabs : memory'[x].refresh \in {memory[x].refresh, 0}
        /\ UNCHANGED <<restored, users, server, call>>
    <3>1. LoggedOut \in Session /\ LoggedOut.refresh = 0
      BY AuthAssumption DEF LoggedOut, Session
    <3>2. Keep(t, LoggedOut) /\ UNCHANGED <<users, server, call>>
      BY <1>4 DEF Logout
    <3>3. \A s \in Stores : stored'[s].refresh \in {stored[s].refresh, 0}
      BY <1>t, <3>1, <3>2, KeptParts
    <3> QED
      BY <1>t, <3>1, <3>2, <3>3 DEF Keep, TypeOK
  <2> QED
    BY <2>1, QuietHolding DEF server
<1>5. ASSUME NEW q \in Requests, Refused(q) PROVE Holding'
  <2>1. GivesUp(q) /\ Finish(q)
    BY <1>5 DEF Refused
  <2>2. /\ \A x \in Requests, t \in Tabs, n \in Tokens :
              /\ Exchanges(x, t, n)' => Exchanges(x, t, n)
              /\ Exchanges(x, t, n) /\ x # q => Exchanges(x, t, n)'
        /\ \A x \in Requests : call'[x] = call[x] \/ call'[x] = NoCall
        /\ call'[q] = NoCall
    BY <1>t, <2>1, FinishExchanges
  <2>3. \A x \in Requests, t \in Tabs, n \in Tokens :
              /\ Exchanges(x, t, n)' => Exchanges(x, t, n)
              /\ Exchanges(x, t, n) /\ x # q => Exchanges(x, t, n)'
    BY <2>2
  <2>4. /\ \A x \in Requests : x # q => call'[x] = call[x] \/ call'[x] = NoCall
        /\ call'[q] = NoCall \/ (call[q].awaited /\ call'[q] = Abandoned(q))
    BY <2>2
  <2> QED
    BY <2>1, <2>3, <2>4, GivesUpHolding
<1>6. ASSUME NEW q \in Requests, TimeOut(q) PROVE Holding'
  <2>1. GivesUp(q)
    BY <1>6 DEF TimeOut
  <2> QED
    BY <1>6, <1>t, <2>1, TimeOutExchanges, GivesUpHolding
<1>7. ASSUME NEW q \in Requests, Handler(q) \/ Application(q) \/ Send(q) PROVE Holding'
  BY <1>5, <1>6, <1>7, MinorHolding, ConsumeHolding, IssueHolding, UnauthorizedHolding, SaveHolding
     DEF Handler, Application
<1> QED
  BY <1>1, <1>2, <1>3, <1>4, <1>7, <1>t, StepKinds, MinorHolding, OpenHolding

LEMMA HoldingInvariance == Spec => []Holding
<1>1. Shape /\ Lineage /\ Holding /\ [Next]_vars => Holding'
  BY ShapeStep, HoldingStep
<1> QED
  BY <1>1, ShapeInvariance, LineageInvariance, InitHolding, PTL DEF Spec

-----------------------------------------------------------------------------
(* Logins.  Rotation hands a login on from token to token: the tokens form   *)
(* chains that begin with a login each, and only the last token of a chain   *)
(* can be live or on its way to the next.                                    *)

\* The last of its chain so far.
Last(n) == n \in 1..used /\ \A x \in 1..used : parent[x] # n

\* root[n] is the login that token n goes back to, owner[r] who logged in with r.
Chains(root) ==
    \A n \in 1..used :
        /\ root[n] \in 1..used
        /\ parent[n] = 0 => root[n] = n
        /\ parent[n] # 0 => parent[n] \in 1..used /\ root[n] = root[parent[n]]

OneEnd(root) == \A n, x \in Tokens : Last(n) /\ Last(x) /\ root[n] = root[x] => n = x

OfOwner(root, owner) ==
    /\ \A n \in Tokens : redis[n] # None => redis[n].user = owner[root[n]]
    /\ \A q \in Requests : Expecting(q) => call[q].user = owner[root[call[q].old]]

Roots == [Tokens -> Tokens]
Owners == [Tokens -> Users \cup {None}]

Logins == \E root \in Roots, owner \in Owners :
    Chains(root) /\ OneEnd(root) /\ OfOwner(root, owner)

\* A login has one refresh token that is good, or one exchange of it under way,
\* never two of them, and stays with the user who logged in.
OneTokenPerLogin ==
    \E root \in Roots, owner \in Owners :
        /\ Chains(root)
        /\ OfOwner(root, owner)
        /\ \A n, x \in Tokens : redis[n] # None /\ redis[x] # None /\ root[n] = root[x] => n = x
        /\ \A n \in Tokens, q \in Requests :
              redis[n] # None /\ Expecting(q) => root[n] # root[call[q].old]
        /\ \A p, q \in Requests :
              Expecting(p) /\ Expecting(q) /\ root[call[p].old] = root[call[q].old] => p = q

LEMMA InitLogins == Init => Logins
<1> SUFFICES ASSUME Init PROVE Logins
  OBVIOUS
<1> DEFINE root == [n \in Tokens |-> n]
           owner == [n \in Tokens |-> None]
<1>1. root \in Roots /\ owner \in Owners
  BY DEF Roots, Owners
<1>2. used = 0 /\ 1..0 = {}
  BY DEF Init
<1>3. Chains(root) /\ OneEnd(root)
  BY <1>2 DEF Chains, OneEnd, Last
<1>4. OfOwner(root, owner)
  BY DEF Init, OfOwner, Expecting, NoCall
<1> QED
  BY <1>1, <1>3, <1>4 DEF Logins

\* Whoever issues no token and brings nobody a new one changes no login.
LEMMA LoginsFrame ==
    ASSUME Logins, UNCHANGED <<parent, used>>,
           \A n \in Tokens : redis'[n] # None => redis[n] # None /\ redis'[n].user = redis[n].user,
           \A q \in Requests : Expecting(q)' =>
               Expecting(q) /\ call'[q].old = call[q].old /\ call'[q].user = call[q].user
    PROVE  Logins'
<1> PICK root \in Roots, owner \in Owners : Chains(root) /\ OneEnd(root) /\ OfOwner(root, owner)
  BY DEF Logins
<1>1. Chains(root)' /\ OneEnd(root)'
  BY DEF Chains, OneEnd, Last
<1>2. OfOwner(root, owner)'
  BY DEF OfOwner
<1> QED
  BY <1>1, <1>2 DEF Logins, Roots, Owners, Tokens

LEMMA LoginsStep == Shape /\ Lineage /\ Logins /\ [Next]_vars => Logins'
<1> SUFFICES ASSUME Shape, Lineage, Logins, [Next]_vars PROVE Logins'
  OBVIOUS
<1>t. TypeOK /\ used \in Nat /\ spent \subseteq Tokens
      /\ \A x \in Requests : call[x] \in Call /\ Filled(call[x])
  BY DEF Shape, TypeOK
<1>1. ASSUME Tick PROVE Logins'
  <2>1. \A n \in Tokens : redis'[n] # None => redis[n] # None /\ redis'[n].user = redis[n].user
    BY <1>1, <1>t DEF Tick, KeyLeft, TypeOK
  <2>2. \A q \in Requests : /\ call'[q].at = call[q].at /\ call'[q].old = call[q].old
                            /\ call'[q].user = call[q].user
    BY <1>1 DEF Tick
  <2> QED
    BY <1>1, <2>1, <2>2, LoginsFrame DEF Tick, Expecting
<1>2. ASSUME ClientMoves PROVE Logins'
  BY <1>2, LoginsFrame DEF ClientMoves, server, Expecting
<1>3. ASSUME NEW q \in Requests, ConsumeMiss(q) \/ ServerRefuses(q) \/ ReadUser(q) PROVE Logins'
  <2>1. UNCHANGED server /\ \A x \in Requests : x # q => call'[x] = call[x]
    BY <1>3, <1>t DEF ConsumeMiss, ServerRefuses, ReadUser, TypeOK
  <2>2. call'[q].old = call[q].old /\ call'[q].user = call[q].user
        /\ (call'[q].at \in {"consumed", "read"} => call[q].at \in {"login", "consumed"})
    BY <1>3, <1>t DEF ConsumeMiss, ServerRefuses, ReadUser, Goto, TypeOK
  <2>3. Expecting(q)' => Expecting(q)
    BY <1>t, <2>2 DEF Expecting, Filled
  <2> QED
    BY <2>1, <2>2, <2>3, LoginsFrame DEF server, Expecting
\* The exchange begins: its token is the last of its chain and stays it.
<1>4. ASSUME NEW q \in Requests, Consume(q) PROVE Logins'
  <2> DEFINE n == call[q].old
  <2> PICK root \in Roots, owner \in Owners : Chains(root) /\ OneEnd(root) /\ OfOwner(root, owner)
    BY DEF Logins
  <2>1. n \in Tokens /\ redis[n] # None
    BY <1>4, <1>t DEF Consume, Filled, Call, Tokens
  <2>2. /\ UNCHANGED <<parent, used>>
        /\ \A m \in Tokens : redis'[m] # None => redis'[m] = redis[m]
    BY <1>4, <1>t, <2>1 DEF Consume, KeyAfter, TypeOK
  <2>3. /\ call'[q].old = n /\ call'[q].user = redis[n].user
        /\ \A x \in Requests : x # q => call'[x] = call[x]
    BY <1>4, <1>t DEF Consume, TypeOK
  <2>4. redis[n].user = owner[root[n]]
    BY <2>1 DEF OfOwner
  <2>5. Chains(root)' /\ OneEnd(root)'
    BY <2>2 DEF Chains, OneEnd, Last
  <2>6. OfOwner(root, owner)'
    BY <2>2, <2>3, <2>4 DEF OfOwner, Expecting
  <2> QED
    BY <2>5, <2>6 DEF Logins, Roots, Owners, Tokens
\* The new token is the end of the chain of the one it was exchanged for, or of
\* a chain of its own.
<1>5. ASSUME NEW q \in Requests, Issue(q) PROVE Logins'
  <2> PICK root \in Roots, owner \in Owners : Chains(root) /\ OneEnd(root) /\ OfOwner(root, owner)
    BY DEF Logins
  <2> DEFINE n == used + 1
             o == call[q].old
             u == call[q].user
  <2>1. /\ used' = n /\ call[q].at = "read" /\ parent' = [parent EXCEPT ![n] = o]
    BY <1>5 DEF Issue
  <2>2. n \in Tokens
    <3>1. q \in Asking
      BY <2>1 DEF Asking
    <3>2. Cardinality(Asking) > 0
      BY <3>1, AskingFinite, FS_EmptySet
    <3> QED
      BY <1>t, <3>2, AskingFinite, AuthAssumption DEF Shape, Tokens
  <2>3. parent'[n] = o /\ \A x \in 1..used : parent'[x] = parent[x]
    BY <1>t, <2>1, <2>2 DEF TypeOK, Tokens
  <2>4. /\ 1..used \subseteq Tokens /\ n \notin 1..used
        /\ \A x \in 1..n : x = n \/ x \in 1..used
    BY <1>t, <2>2, AuthAssumption DEF Tokens
  <2>5. ~Expecting(q)' /\ \A x \in Requests : x # q => call'[x] = call[x]
    BY <1>5, <1>t DEF Issue, TypeOK, Expecting
  <2>6. u \in Users
    BY <1>t, <2>1 DEF Filled
  <2>7. o # 0 => /\ Expecting(q) /\ o \in 1..used /\ \A x \in 1..used : parent[x] # o
    <3>1. o # 0 => Expecting(q)
      BY <2>1 DEF Expecting
    <3>2. o # 0 => o \in Tokens /\ o <= used
      BY <1>t, <3>1 DEF Lineage
    <3> QED
      BY <1>t, <3>1, <3>2 DEF Lineage, Tokens
  <2>8. root \in [Tokens -> Tokens] /\ owner \in [Tokens -> Users \cup {None}]
    BY DEF Roots, Owners
  <2>9. \A x \in 1..used : root[x] \in 1..used
    BY DEF Chains
  <2>10. PICK root1 \in Roots, owner1 \in Owners :
           /\ root1[n] = IF o = 0 THEN n ELSE root[o]
           /\ \A x \in 1..used : root1[x] = root[x]
           /\ \A x \in 1..used : owner1[root[x]] = owner[root[x]]
           /\ owner1[root1[n]] = IF o = 0 THEN u ELSE owner[root[o]]
    <3> DEFINE r == [root EXCEPT ![n] = IF o = 0 THEN n ELSE root[o]]
               w == IF o = 0 THEN [owner EXCEPT ![n] = u] ELSE owner
    <3>1. (IF o = 0 THEN n ELSE root[o]) \in Tokens
      BY <2>2, <2>4, <2>7, <2>9
    <3>2. r \in Roots /\ w \in Owners
      BY <2>2, <2>6, <2>8, <3>1 DEF Roots, Owners
    <3>3. /\ r[n] = IF o = 0 THEN n ELSE root[o]
          /\ \A x \in 1..used : r[x] = root[x]
          /\ \A x \in 1..used : w[root[x]] = owner[root[x]]
      BY <2>2, <2>4, <2>7, <2>8, <2>9
    <3>4. w[r[n]] = IF o = 0 THEN u ELSE owner[root[o]]
      BY <2>2, <2>7, <2>8, <3>3
    <3> HIDE DEF r, w
    <3> QED
      BY <3>2, <3>3, <3>4
  <2>12. Chains(root1)'
    <3> SUFFICES ASSUME NEW x \in 1..n
                 PROVE  /\ root1[x] \in 1..n
                        /\ parent'[x] = 0 => root1[x] = x
                        /\ parent'[x] # 0 => parent'[x] \in 1..n /\ root1[x] = root1[parent'[x]]
      BY <2>1, Zenon DEF Chains
    <3>1. 1..used \subseteq 1..n /\ n \in 1..n
      BY <1>t
    <3>2. CASE x = n
      BY <2>3, <2>7, <2>9, <2>10, <3>1, <3>2
    <3>3. CASE x \in 1..used
      BY <2>3, <2>10, <3>1, <3>3 DEF Chains
    <3> QED
      BY <2>4, <3>2, <3>3
  <2>13. OneEnd(root1)'
    <3> SUFFICES ASSUME NEW m \in Tokens, NEW x \in Tokens, Last(m)', Last(x)', root1[m] = root1[x]
                 PROVE  m = x
      BY Zenon DEF OneEnd, Tokens
    <3>1. \A y \in Tokens : Last(y)' => y = n \/ (Last(y) /\ y \in 1..used /\ y # o)
      <4> TAKE y \in Tokens
      <4> HAVE Last(y)'
      <4>1. y \in 1..n /\ \A z \in 1..n : parent'[z] # y
        BY <2>1 DEF Last
      <4>2. n \in 1..n /\ 1..used \subseteq 1..n
        BY <1>t
      <4>3. y # o /\ \A z \in 1..used : parent[z] # y
        BY <2>3, <4>1, <4>2
      <4>4. y = n \/ y \in 1..used
        BY <2>4, <4>1
      <4>5. y \in 1..used => Last(y)
        BY <4>3, Zenon DEF Last
      <4> QED
        BY <4>3, <4>4, <4>5, Zenon
    \* Nobody else ends the chain that the new token continues.
    <3>2. \A y \in Tokens : Last(y) /\ y \in 1..used /\ y # o => root1[y] # root1[n]
      <4> TAKE y \in Tokens
      <4> HAVE Last(y) /\ y \in 1..used /\ y # o
      <4>1. CASE o = 0
        BY <2>4, <2>9, <2>10, <4>1
      <4>2. CASE o # 0
        <5>1. Last(o) /\ o \in Tokens
          BY <2>4, <2>7, <4>2 DEF Last
        <5>2. root[y] # root[o]
          BY <5>1 DEF OneEnd
        <5> QED
          BY <2>10, <4>2, <5>2
      <4> QED
        BY <4>1, <4>2
    <3>3. m # n /\ x # n => m = x
      BY <2>10, <3>1 DEF OneEnd
    <3> QED
      BY <3>1, <3>2, <3>3
  <2>14. OfOwner(root1, owner1)'
    <3>1. redis'[n] # None => redis'[n].user = u
      BY <1>5, <1>t, <2>2 DEF Issue, TypeOK, Lineage
    <3>2. \A m \in Tokens : m # n => redis'[m] = redis[m]
      BY <1>5, <1>t DEF Issue, TypeOK
    <3>3. u = owner1[root1[n]]
      <4>1. o # 0 => u = owner[root[o]]
        BY <2>7 DEF OfOwner
      <4>2. o = 0 => u = owner1[root1[n]]
        BY <2>10
      <4> QED
        BY <2>10, <4>1, <4>2
    <3>4. \A m \in Tokens : redis'[m] # None => redis'[m].user = owner1[root1[m]]
      <4> TAKE m \in Tokens
      <4> HAVE redis'[m] # None
      <4>1. CASE m = n
        BY <3>1, <3>3, <4>1
      <4>2. CASE m # n
        <5>1. m \in 1..used
          BY <1>t, <3>2, <4>2 DEF Lineage, Tokens
        <5> QED
          BY <2>10, <3>2, <4>2, <5>1 DEF OfOwner
      <4> QED
        BY <4>1, <4>2
    <3>5. \A p \in Requests : Expecting(p)' => call'[p].user = owner1[root1[call'[p].old]]
      <4> TAKE p \in Requests
      <4> HAVE Expecting(p)'
      <4>1. p # q /\ call'[p] = call[p] /\ Expecting(p)
        BY <2>5 DEF Expecting
      <4>2. call[p].old \in Tokens /\ call[p].old <= used
        BY <1>t, <4>1 DEF Lineage
      <4>3. call[p].old \in 1..used
        BY <1>t, <4>2, AuthAssumption DEF Tokens
      <4> QED
        BY <2>10, <4>1, <4>3 DEF OfOwner
    <3> QED
      BY <3>4, <3>5, Zenon DEF OfOwner, Tokens
  <2> QED
    BY <2>10, <2>12, <2>13, <2>14 DEF Logins, Roots, Owners, Tokens
<1> QED
  BY <1>1, <1>2, <1>3, <1>4, <1>5, <1>t, StepKinds, ClientStep DEF Handler

LEMMA LoginsInvariance == Spec => []Logins
<1>1. Shape /\ Lineage /\ Logins /\ [Next]_vars => Logins'
  BY LoginsStep
<1> QED
  BY <1>1, ShapeInvariance, LineageInvariance, InitLogins, PTL DEF Spec

-----------------------------------------------------------------------------
(* The theorems. *)

\* The variables keep their types; in particular there is a token for every
\* request that asks for one, so that the bound MaxTokens cuts nothing off.
THEOREM TypeCorrect == Spec => []TypeOK
<1>1. Shape => TypeOK
  BY DEF Shape
<1> QED
  BY ShapeInvariance, <1>1, PTL

\* A ban or a demotion by SetUserStatus or SetUserRole takes effect within the
\* lifetime of an access token and the time of one handler, however logins and
\* refreshes race with it.
THEOREM RevocationTakesEffect == Spec => []RevocationIsBounded
<1>1. Shape /\ Admissions => RevocationIsBounded
  <2> SUFFICES ASSUME Shape, Admissions, NEW a \in Abroad, a # None, a.left > 0
               PROVE  since[a.user][a.role] < AccessTTL + Deadline
    BY DEF RevocationIsBounded
  <2>1. Admissible(a, AccessTTL + Deadline) /\ a \in Access \cup {None}
    BY DEF Abroad, Admissions, Shape, TypeOK, Session, Call
  <2>2. a.user \in Users /\ a.role \in Roles /\ a.left \in Nat
    BY <2>1, AccessParts
  <2>3. since[a.user][a.role] \in Nat
    BY <2>2, AuthAssumption DEF Shape, TypeOK
  <2> QED
    BY <2>1, <2>2, <2>3, AuthAssumption DEF Admissible
<1> QED
  BY ShapeInvariance, AdmissionsInvariance, <1>1, PTL

\* ConsumeRefresh exchanges a refresh token for one other at most, whoever
\* presents it, however often and at whatever time.
THEOREM RotationIsLinear == Spec => []OneHeir
<1>1. Lineage => OneHeir
  BY DEF Lineage
<1> QED
  BY LineageInvariance, <1>1, PTL

\* However often, at whatever time and from wherever the tokens of a login are
\* presented, Refresh hands it on from one token to the next: it never has two
\* that are good, nor a good one besides an exchange that is under way, and it
\* stays with its user.
THEOREM OneSessionPerLogin == Spec => []OneTokenPerLogin
<1>1. Shape /\ Lineage /\ Logins => OneTokenPerLogin
  <2> SUFFICES ASSUME Shape, Lineage, Logins PROVE OneTokenPerLogin
    OBVIOUS
  <2> PICK root \in Roots, owner \in Owners : Chains(root) /\ OneEnd(root) /\ OfOwner(root, owner)
    BY DEF Logins
  <2>1. \A n \in Tokens : redis[n] # None => Last(n) /\ n \notin spent
    BY DEF Shape, TypeOK, Lineage, Last, Tokens
  <2>2. \A q \in Requests : Expecting(q) =>
           Last(call[q].old) /\ call[q].old \in Tokens /\ call[q].old \in spent
    <3>1. \A q \in Requests : Expecting(q) => call[q].old \in Tokens /\ call[q].old <= used
      BY DEF Shape, TypeOK, Lineage
    <3>2. used \in Nat /\ \A n \in Tokens : n <= used => n \in 1..used
      BY AuthAssumption DEF Shape, TypeOK, Tokens
    <3> QED
      BY <3>1, <3>2 DEF Lineage, Last
  <2>3. \A p, q \in Requests :
           Expecting(p) /\ Expecting(q) /\ root[call[p].old] = root[call[q].old] => p = q
    BY <2>2 DEF OneEnd, Lineage
  <2> QED
    BY <2>1, <2>2, <2>3 DEF OneEnd, OneTokenPerLogin
<1> QED
  BY ShapeInvariance, LineageInvariance, LoginsInvariance, <1>1, PTL

\* A step preserves NobodyIsForgotten when it adds no waiting request and ends no
\* refresh of a tab in which one still waits.
LEMMA JoinedFrame ==
    ASSUME NobodyIsForgotten,
           \A q \in Requests : call'[q].at = "joined" /\ call'[q].awaited =>
              /\ call[q].at = "joined" /\ call[q].awaited
              /\ Refreshing(Tab[q]) => Refreshing(Tab[q])'
    PROVE  NobodyIsForgotten'
  BY DEF NobodyIsForgotten

LEMMA JoinedStep == Shape /\ NobodyIsForgotten /\ [Next]_vars => NobodyIsForgotten'
<1> SUFFICES ASSUME Shape, NobodyIsForgotten, [Next]_vars PROVE NobodyIsForgotten'
  OBVIOUS
<1>t. TypeOK /\ \A q \in Requests : call[q] \in Call /\ Filled(call[q])
  BY DEF Shape, TypeOK
<1>0. NoCall.at = "idle" /\ \A q \in Requests : Abandoned(q).awaited = FALSE /\ Abandoned(q).at = call[q].at
  BY DEF NoCall, Abandoned
\* A step of one request that keeps the refresh it is, if it is one.
<1>1. ASSUME NEW q \in Requests, \A x \in Requests : x # q => call'[x] = call[x],
             call'[q].at # "joined",
             \/ call[q].at \in {"sent", "idle", "login"} \/ ~call[q].awaited
             \/ /\ call'[q].awaited = call[q].awaited /\ call'[q].old = call[q].old
                /\ call'[q].at \in {"refresh", "consumed", "read", "signed", "refused"}
      PROVE  NobodyIsForgotten'
  <2>1. \A t \in Tabs : Refreshing(t) => Refreshing(t)'
    <3> SUFFICES ASSUME NEW t \in Tabs, Refreshing(t) PROVE Refreshing(t)'
      OBVIOUS
    <3>1. PICK p \in Requests : OfTab(p, t) /\ call[p].old # 0
                              /\ call[p].at \in {"refresh", "consumed", "read", "signed", "refused"}
      BY DEF Refreshing
    <3>2. OfTab(p, t)' /\ call'[p].old # 0
          /\ call'[p].at \in {"refresh", "consumed", "read", "signed", "refused"}
      BY <1>1, <3>1 DEF OfTab
    <3> QED
      BY <3>2 DEF Refreshing
  <2>2. \A x \in Requests : Tab[x] \in Tabs
    BY AuthAssumption
  <2> QED
    BY <1>1, <2>1, <2>2, JoinedFrame
<1>2. ASSUME NEW q \in Requests, ConsumeMiss(q) \/ ServerRefuses(q) \/ ReadUser(q) PROVE NobodyIsForgotten'
  <2>1. /\ \A x \in Requests : x # q => call'[x] = call[x]
        /\ call'[q].awaited = call[q].awaited /\ call'[q].old = call[q].old
        /\ call'[q].at \in {"read", "refused"}
    BY <1>2, <1>t DEF ConsumeMiss, ServerRefuses, ReadUser, Goto, TypeOK
  <2> QED
    BY <1>1, <2>1
<1>3. ASSUME NEW q \in Requests, Consume(q) \/ Issue(q) PROVE NobodyIsForgotten'
  <2>1. /\ \A x \in Requests : x # q => call'[x] = call[x]
        /\ call'[q].awaited = call[q].awaited /\ call'[q].old = call[q].old
        /\ call'[q].at \in {"consumed", "signed"}
    BY <1>3, <1>t DEF Consume, Issue, TypeOK
  <2> QED
    BY <1>1, <2>1
<1>4. ASSUME NEW q \in Requests,
             Served(q) \/ Vanish(q) \/ Send(q) \/ \E u \in Users : Login(q, u)
      PROVE  NobodyIsForgotten'
  <2>1. /\ \A x \in Requests : x # q => call'[x] = call[x]
        /\ call'[q].at \in {"idle", "sent", "login"}
        /\ call[q].at \in {"sent", "idle"} \/ ~call[q].awaited
    BY <1>0, <1>4, <1>t DEF Served, Vanish, Send, Login, TypeOK
  <2> QED
    BY <1>1, <2>1
<1>5. ASSUME NEW q \in Requests, Unauthorized(q) PROVE NobodyIsForgotten'
  <2>1. /\ \A x \in Requests : x # q => call'[x] = call[x]
        /\ call[q].at = "sent" /\ call'[q].at = IF Joins(q) THEN "joined" ELSE "refresh"
    BY <1>5, <1>t DEF Unauthorized, TypeOK
  <2>2. CASE ~Joins(q)
    BY <1>1, <2>1, <2>2
  <2>3. CASE Joins(q)
    <3>1. \A t \in Tabs : Refreshing(t) => Refreshing(t)'
      <4> SUFFICES ASSUME NEW t \in Tabs, Refreshing(t) PROVE Refreshing(t)'
        OBVIOUS
      <4>1. PICK p \in Requests : OfTab(p, t) /\ call[p].old # 0
                              /\ call[p].at \in {"refresh", "consumed", "read", "signed", "refused"}
        BY DEF Refreshing
      <4>2. call'[p] = call[p]
        BY <2>1, <4>1
      <4> QED
        BY <4>1, <4>2 DEF Refreshing, OfTab
    <3>2. \A x \in Requests : Tab[x] \in Tabs
      BY AuthAssumption
    <3> QED
      BY <2>1, <2>3, <3>1, <3>2 DEF NobodyIsForgotten, Joins
  <2> QED
    BY <2>2, <2>3
\* An exchange that ends tells all of its tab; the other tabs are not touched.
<1>6. ASSUME NEW q \in Requests,
             \A x \in Settled(q) \ {q} : call'[x] = NoCall,
             \A x \in Requests \ Settled(q) : call'[x] = call[x],
             call'[q].at # "joined" \/ ~call'[q].awaited, call[q].at # "joined"
      PROVE  NobodyIsForgotten'
  <2> SUFFICES ASSUME NEW x \in Requests, call'[x].at = "joined", call'[x].awaited
               PROVE  /\ call[x].at = "joined" /\ call[x].awaited
                      /\ Refreshing(Tab[x]) => Refreshing(Tab[x])'
    BY JoinedFrame
  <2>1. x # q /\ x \notin Settled(q) /\ call'[x] = call[x]
    BY <1>0, <1>6 DEF Settled
  <2>2. ASSUME Refreshing(Tab[x]) PROVE Refreshing(Tab[x])'
    <3>1. PICK p \in Requests : OfTab(p, Tab[x]) /\ call[p].old # 0
                              /\ call[p].at \in {"refresh", "consumed", "read", "signed", "refused"}
      BY <2>2 DEF Refreshing
    <3>2. p # q
      BY <2>1, <3>1 DEF Settled, OfTab
    <3>3. p \notin Settled(q)
      BY <3>1, <3>2 DEF Settled
    <3>4. call'[p] = call[p]
      BY <1>6, <3>3
    <3> QED
      BY <3>1, <3>4 DEF Refreshing, OfTab
  <2> QED
    BY <2>1, <2>2
<1>7. ASSUME NEW q \in Requests, Save(q) \/ Refused(q) PROVE NobodyIsForgotten'
  <2>1. Finish(q) /\ call[q].at \in {"signed", "refused"}
    BY <1>7 DEF Save, Refused
  <2>2. \A x \in Requests : call'[x] = IF x \in Settled(q) THEN NoCall ELSE call[x]
    BY <1>t, <2>1, FinishType
  <2>3. Settled(q) \subseteq Requests /\ q \in Settled(q)
    BY DEF Settled
  <2> QED
    BY <1>0, <1>6, <2>1, <2>2, <2>3
<1>8. ASSUME NEW q \in Requests, TimeOut(q) PROVE NobodyIsForgotten'
  <2>1. \A x \in Requests : call'[x] = IF x = q THEN Abandoned(q)
                                       ELSE IF x \in Settled(q) THEN NoCall ELSE call[x]
    BY <1>8, <1>t, TimeOutType
  <2>2. Settled(q) \subseteq Requests /\ q \in Settled(q) /\ call[q].at # "joined"
    BY <1>8 DEF Settled, TimeOut
  <2> QED
    BY <1>0, <1>6, <2>1, <2>2
<1>9. ASSUME NEW t \in Tabs, Open(t) PROVE NobodyIsForgotten'
  <2>1. \A x \in Requests : call'[x] = IF Tab[x] = t /\ call[x].at # "idle" THEN Abandoned(x)
                                       ELSE call[x]
    BY <1>9, <1>t, OpenType
  <2>2. ASSUME NEW x \in Requests, call'[x].at = "joined", call'[x].awaited
        PROVE  /\ call[x].at = "joined" /\ call[x].awaited
               /\ Refreshing(Tab[x]) => Refreshing(Tab[x])'
    <3>1. Tab[x] # t /\ call'[x] = call[x]
      BY <1>0, <2>1, <2>2
    <3>2. ASSUME Refreshing(Tab[x]) PROVE Refreshing(Tab[x])'
      BY <2>1, <3>1, <3>2 DEF Refreshing, OfTab
    <3> QED
      BY <2>2, <3>1, <3>2
  <2> QED
    BY <2>2, JoinedFrame
\* Nothing happens to the requests.
<1>10. ASSUME \A q \in Requests : /\ call'[q].at = call[q].at /\ call'[q].awaited = call[q].awaited
                                  /\ call'[q].old = call[q].old
       PROVE  NobodyIsForgotten'
  BY <1>10 DEF NobodyIsForgotten, Refreshing, OfTab
<1>11. ASSUME Tick \/ Decree \/ (\E t \in Tabs : Logout(t)) \/ UNCHANGED vars PROVE NobodyIsForgotten'
  <2>1. \A q \in Requests : /\ call'[q].at = call[q].at /\ call'[q].awaited = call[q].awaited
                            /\ call'[q].old = call[q].old
    BY <1>11 DEF Tick, Decree, SetAccount, Logout, vars
  <2> QED
    BY <1>10, <2>1
<1>12. ASSUME NEW q \in Requests, Handler(q) \/ Application(q) PROVE NobodyIsForgotten'
  BY <1>2, <1>3, <1>4, <1>5, <1>7, <1>8, <1>12 DEF Handler, Application
<1> QED
  BY <1>4, <1>9, <1>11, <1>12, <1>t, StepKinds

\* _refreshOnce keeps a tab from presenting a refresh token twice, whatever
\* requests fail, time out, log in or log out at the same time, unless another
\* tab has the token from the same storage.
THEOREM OnePresentation == Spec => []NeverTwice
<1>1. Holding => NeverTwice
  BY DEF Holding
<1> QED
  BY HoldingInvariance, <1>1, PTL

\* Every request that joined the refresh of its tab (_refreshCompleter) has a
\* refresh in flight to wait for: it is told when that one succeeds, fails or
\* times out, and none is left behind.
THEOREM JoinersAreTold == Spec => []NobodyIsForgotten
<1>1. Init => NobodyIsForgotten
  BY DEF Init, NobodyIsForgotten, NoCall
<1> QED
  BY <1>1, ShapeInvariance, JoinedStep, PTL DEF Spec

=============================================================================

---------------------------- MODULE CacheProofs ----------------------------
(***************************************************************************)
(* Proofs about Cache, for every number of processes and requests and      *)
(* every choice of lifetimes: how old an answer may be, and that a key is  *)
(* loaded once at a time.                                                  *)
(*                                                                         *)
(* A copy of a value is as old as the value (age) and will live for what   *)
(* it has left.  Their sum never grows while the copy lives; it is at most *)
(* Deadline for a value that was just loaded, and each store adds the      *)
(* lifetime it gives.                                                      *)
(***************************************************************************)
EXTENDS Cache, TLAPS

\* Times are numbers; values come from the database.
Shape ==
    /\ row \in Versions /\ replica \in 0..row
    /\ age \in [Versions -> Nat]
    /\ l1 \in [Nodes -> Entry \cup {None}]
    /\ redis \in Entry \cup {None}
    /\ redis # None => redis.left > 0
    /\ read \in [Readers -> ReadCall]
    /\ \A r \in Readers : read[r].left <= Deadline

\* What loaders read now, or will read, is not old.
LatestIsNew == \A v \in Versions : v >= replica => age[v] = 0

RedisBounded == redis # None => age[redis.val] + redis.left <= (Deadline - 1) + TTLOf(redis.val)

L1Bounded == \A n \in Nodes : Live(n) => age[l1[n].val] + l1[n].left <= Bound(l1[n].val)

\* What a request holds: copied from Redis, loaded, being stored, answered.
HeldBounded ==
    \A r \in Readers :
        /\ read[r].at \in {"fill", "filled"} =>
              /\ read[r].val \in Versions
              /\ age[read[r].val] <= (Deadline - 1) + (TTLOf(read[r].val) - 1)
        /\ read[r].at \in {"loaded", "stored", "store", "unlock"} =>
              /\ read[r].at # "unlock" => read[r].val \in Versions
              /\ read[r].val \in Versions => age[read[r].val] + read[r].left <= Deadline
        /\ read[r].at \in {"loaded", "stored"} => read[r].left > 0
        /\ read[r].at = "done" =>
              read[r].val \in Versions /\ age[read[r].val] <= Bound(read[r].val)
        /\ read[r].at = "load" => read[r].val = None
        /\ read[r].at \in {"evict", "get", "lock"} => read[r].val = None

IInv == Shape /\ LatestIsNew /\ RedisBounded /\ L1Bounded /\ HeldBounded

-----------------------------------------------------------------------------
LEMMA TTLType == \A v \in Versions : TTLOf(v) \in Nat /\ Bound(v) \in Nat
  BY CacheAssumption DEF TTLOf, Bound

LEMMA NoneIsNoVersion == None \notin Versions
  BY CacheAssumption

LEMMA NoReadType == NoRead \in ReadCall /\ NoRead.left = 0 /\ NoRead.at = "idle"
  BY DEF NoRead, ReadCall

LEMMA GotoType ==
    ASSUME NEW r \in Readers, read[r] \in ReadCall,
           NEW step \in {"get", "fill", "filled", "lock", "wait", "load", "loaded", "stored",
                         "store", "unlock", "done"},
           NEW v \in Versions \cup {None}
    PROVE  /\ Goto(r, step) \in ReadCall
           /\ Holding(r, step, v) \in ReadCall
  BY DEF Goto, Holding, ReadCall

LEMMA InitInv == Init => IInv
<1> SUFFICES ASSUME Init PROVE IInv
  OBVIOUS
<1> USE CacheAssumption
<1>1. Shape
  <2>1. NoRead \in ReadCall /\ NoRead.left = 0
    BY DEF NoRead, ReadCall
  <2> QED
    BY <2>1 DEF Init, Shape, Versions
<1>2. LatestIsNew /\ RedisBounded
  BY DEF Init, LatestIsNew, RedisBounded
<1>3. L1Bounded /\ HeldBounded
  BY DEF Init, L1Bounded, HeldBounded, Live, NoRead
<1> QED
  BY <1>1, <1>2, <1>3 DEF IInv

\* Time: ages grow by at most one, and what lives on has one tick less.
LEMMA TickStep == IInv /\ Tick => IInv'
<1> SUFFICES ASSUME IInv, Tick PROVE IInv'
  OBVIOUS
<1> USE CacheAssumption
<1>t. Shape /\ LatestIsNew /\ RedisBounded /\ L1Bounded /\ HeldBounded
  BY DEF IInv
<1>1. /\ age' \in [Versions -> Nat]
      /\ \A v \in Versions : age'[v] <= age[v] + 1
      /\ \A v \in Versions : v >= replica => age'[v] = age[v]
  BY <1>t DEF Tick, Shape, Older, Versions
<1>2. UNCHANGED <<row, replica>>
  BY DEF Tick
<1>3. \A r \in Readers :
        /\ read'[r] \in ReadCall
        /\ read'[r].at = read[r].at /\ read'[r].val = read[r].val
        /\ read'[r].left = Less(read[r].left)
  BY <1>t DEF Tick, Shape, Less, ReadCall
<1>4. read' \in [Readers -> ReadCall]
  BY <1>3 DEF Tick
<1>5. \A n \in Nodes : /\ l1[n] = None => l1'[n] = None
                       /\ l1[n] # None => /\ l1'[n] \in Entry
                                          /\ l1'[n].val = l1[n].val
                                          /\ l1'[n].left = Less(l1[n].left)
  BY <1>t DEF Tick, Shape, Less, Entry
<1>6. l1' \in [Nodes -> Entry \cup {None}]
  BY <1>5 DEF Tick
<1>7. \/ redis' = None
      \/ /\ redis # None /\ redis' \in Entry /\ redis'.val = redis.val
         /\ redis'.left = redis.left - 1 /\ redis'.left > 0
  BY <1>t DEF Tick, Shape, Entry
<1>8. Shape'
  <2>1. \A r \in Readers : read'[r].left <= Deadline
    BY <1>3, <1>t DEF Shape, Less, ReadCall
  <2> QED
    BY <1>1, <1>2, <1>4, <1>6, <1>7, <1>t, <2>1 DEF Shape
<1>9. LatestIsNew'
  BY <1>1, <1>2, <1>t DEF LatestIsNew
<1>10. RedisBounded'
  <2>1. CASE redis' = None
    BY <2>1 DEF RedisBounded
  <2>2. CASE redis' # None
    <3>1. redis.val \in Versions /\ redis.left \in Nat /\ age[redis.val] \in Nat
      BY <1>7, <2>2, <1>t DEF Shape, Entry
    <3>2. age'[redis.val] <= age[redis.val] + 1 /\ age'[redis.val] \in Nat
      BY <3>1, <1>1
    <3> QED
      BY <1>7, <2>2, <3>1, <3>2, <1>t, TTLType DEF RedisBounded
  <2> QED
    BY <2>1, <2>2
<1>11. L1Bounded'
  <2> SUFFICES ASSUME NEW n \in Nodes, Live(n)'
               PROVE  age'[l1'[n].val] + l1'[n].left <= Bound(l1'[n].val)
    BY DEF L1Bounded
  <2>1. l1[n] # None /\ l1'[n].left > 0
    BY <1>5 DEF Live
  <2>2. l1[n].val \in Versions /\ l1[n].left \in Nat
    BY <2>1, <1>t DEF Shape, Entry
  <2>3. l1'[n].val = l1[n].val /\ l1'[n].left = l1[n].left - 1 /\ Live(n)
    BY <1>5, <2>1, <2>2 DEF Less, Live
  <2>4. age[l1[n].val] \in Nat /\ age'[l1[n].val] \in Nat /\ age'[l1[n].val] <= age[l1[n].val] + 1
    BY <1>1, <1>t, <2>2 DEF Shape
  <2> QED
    BY <2>2, <2>3, <2>4, <1>t, TTLType DEF L1Bounded
<1>12. HeldBounded'
  <2> SUFFICES ASSUME NEW r \in Readers
      PROVE
        /\ read'[r].at \in {"fill", "filled"} =>
              /\ read'[r].val \in Versions
              /\ age'[read'[r].val] <= (Deadline - 1) + (TTLOf(read'[r].val) - 1)
        /\ read'[r].at \in {"loaded", "stored", "store", "unlock"} =>
              /\ read'[r].at # "unlock" => read'[r].val \in Versions
              /\ read'[r].val \in Versions => age'[read'[r].val] + read'[r].left <= Deadline
        /\ read'[r].at \in {"loaded", "stored"} => read'[r].left > 0
        /\ read'[r].at = "done" =>
              read'[r].val \in Versions /\ age'[read'[r].val] <= Bound(read'[r].val)
        /\ read'[r].at = "load" => read'[r].val = None
        /\ read'[r].at \in {"evict", "get", "lock"} => read'[r].val = None
    BY DEF HeldBounded
  <2>1. ~Prompt(r)
    BY DEF Tick
  <2>2. CASE read[r].at \in {"store", "unlock"}
    <3>1. read[r].left \in Nat /\ read[r].left # 0
      BY <2>1, <2>2, <1>t DEF Prompt, Shape, ReadCall
    <3>2. read'[r].left = read[r].left - 1
      BY <3>1, <1>3 DEF Less
    <3>3. CASE read[r].val \in Versions
      <4>1. age[read[r].val] \in Nat /\ age'[read[r].val] \in Nat
            /\ age'[read[r].val] <= age[read[r].val] + 1
        BY <3>3, <1>1, <1>t DEF Shape
      <4> QED
        BY <2>2, <3>1, <3>2, <3>3, <4>1, <1>3, <1>t DEF HeldBounded
    <3>4. CASE read[r].val \notin Versions
      BY <2>2, <3>4, <1>3, <1>t DEF HeldBounded
    <3> QED
      BY <3>3, <3>4
  <2>3. CASE read[r].at \notin {"store", "unlock"}
    BY <2>1, <2>3, <1>3, <1>t DEF Prompt, HeldBounded
  <2> QED
    BY <2>2, <2>3
<1> QED
  BY <1>8, <1>9, <1>10, <1>11, <1>12 DEF IInv

\* What a single request must respect for the invariant to be kept.
HeldOK(c) ==
    /\ c \in ReadCall
    /\ c.left <= Deadline
    /\ c.at \in {"fill", "filled"} =>
          c.val \in Versions /\ age[c.val] <= (Deadline - 1) + (TTLOf(c.val) - 1)
    /\ c.at \in {"loaded", "stored", "store", "unlock"} =>
          /\ c.at # "unlock" => c.val \in Versions
          /\ c.val \in Versions => age[c.val] + c.left <= Deadline
    /\ c.at \in {"loaded", "stored"} => c.left > 0
    /\ c.at = "done" => c.val \in Versions /\ age[c.val] <= Bound(c.val)
    /\ c.at = "load" => c.val = None
    /\ c.at \in {"evict", "get", "lock"} => c.val = None

LEMMA HeldNow == IInv => \A r \in Readers : HeldOK(read[r])
  BY DEF IInv, HeldOK, HeldBounded, Shape

\* A step of one request that leaves the database and both caches alone.
LEMMA CallStep ==
    ASSUME IInv, NEW r \in Readers, NEW c, HeldOK(c),
           read' = [read EXCEPT ![r] = c], UNCHANGED <<database, l1, redis>>
    PROVE  IInv'
<1>1. Shape /\ LatestIsNew /\ RedisBounded /\ L1Bounded /\ HeldBounded
  BY DEF IInv
<1>2. UNCHANGED <<row, replica, age, l1, redis>>
  BY DEF database
<1>3. Shape' /\ LatestIsNew' /\ RedisBounded' /\ L1Bounded'
  BY <1>1, <1>2 DEF Shape, LatestIsNew, RedisBounded, L1Bounded, Live, HeldOK
<1>4. HeldBounded'
  BY <1>1, <1>2 DEF Shape, HeldBounded, HeldOK
<1> QED
  BY <1>3, <1>4 DEF IInv

\* A step that changes the entry of one process, to nothing or to an entry
\* that is not too old.
LEMMA L1Step ==
    ASSUME IInv, NEW n \in Nodes, NEW e \in Entry \cup {None},
           e # None => age[e.val] + e.left <= Bound(e.val),
           l1' = [l1 EXCEPT ![n] = e], UNCHANGED <<database, redis>>,
           read' \in [Readers -> ReadCall], \A r \in Readers : HeldOK(read'[r])
    PROVE  IInv'
<1>1. Shape /\ LatestIsNew /\ RedisBounded /\ L1Bounded
  BY DEF IInv
<1>2. UNCHANGED <<row, replica, age, redis>>
  BY DEF database
<1>3. Shape' /\ LatestIsNew' /\ RedisBounded'
  BY <1>1, <1>2 DEF Shape, LatestIsNew, RedisBounded, HeldOK
<1>4. L1Bounded'
  BY <1>1, <1>2 DEF Shape, L1Bounded, Live
<1>5. HeldBounded'
  BY <1>2 DEF HeldBounded, HeldOK
<1> QED
  BY <1>3, <1>4, <1>5 DEF IInv

LEMMA ReaderStep == ASSUME IInv, NEW r \in Readers, Reader(r) PROVE IInv'
<1> USE CacheAssumption
<1>t. Shape /\ LatestIsNew /\ RedisBounded /\ L1Bounded /\ HeldBounded
  BY DEF IInv
<1>h. HeldOK(read[r]) /\ read[r] \in ReadCall /\ read[r].left \in Nat
      /\ read[r].val \in Versions \cup {None}
  BY HeldNow DEF HeldOK, ReadCall
<1>n. Home[r] \in Nodes
  OBVIOUS
<1>0. HeldOK(NoRead)
  BY NoReadType DEF HeldOK
\* Moving on with what the request has.
<1>g. ASSUME NEW step \in {"get", "lock", "wait", "load", "filled", "stored", "unlock", "done"},
             \/ step \in {"get", "lock", "load"} /\ read[r].val = None
             \/ step = "wait"
             \/ step = "filled" /\ read[r].at = "fill"
             \/ step = "stored" /\ read[r].at = "loaded"
             \/ step = "unlock" /\ read[r].at = "store"
             \/ step = "unlock" /\ read[r].val = None
             \/ step = "done" /\ read[r].at = "unlock" /\ read[r].val # None
      PROVE  HeldOK(Goto(r, step))
  <2>1. Goto(r, step) \in ReadCall
    BY <1>g, <1>h, GotoType
  <2>2. CASE step = "done"
    <3>1. read[r].val \in Versions /\ age[read[r].val] + read[r].left <= Deadline
      BY <1>g, <1>h, <2>2 DEF HeldOK
    <3>2. age[read[r].val] <= Bound(read[r].val)
      BY <3>1, <1>t, <1>h, TTLType DEF Shape, Bound, TTLOf
    <3> QED
      BY <1>h, <2>1, <2>2, <3>1, <3>2 DEF HeldOK, Goto
  <2>3. /\ Goto(r, step).at = step /\ Goto(r, step).val = read[r].val
        /\ Goto(r, step).left = read[r].left
    BY DEF Goto
  <2>4. CASE step \in {"get", "lock", "load", "wait"}
    BY <1>g, <1>h, <2>1, <2>3, <2>4 DEF HeldOK
  <2>5. CASE step = "filled"
    BY <1>g, <1>h, <2>1, <2>3, <2>5 DEF HeldOK
  <2>6. CASE step = "stored"
    BY <1>g, <1>h, <2>1, <2>3, <2>6 DEF HeldOK
  <2>7. CASE step = "unlock"
    <3>1. read[r].val \in Versions => age[read[r].val] + read[r].left <= Deadline
      BY <1>g, <1>h, <2>7, CacheAssumption, NoneIsNoVersion DEF HeldOK
    <3> QED
      BY <1>h, <2>1, <2>3, <2>7, <3>1 DEF HeldOK
  <2> QED
    BY <2>2, <2>4, <2>5, <2>6, <2>7
<1>1. ASSUME ReadL1(r) PROVE IInv'
  <2> DEFINE left == IF read[r].at = "idle" THEN Deadline ELSE read[r].left
             lost == read[r].at = "wait"
             n == Home[r]
             c == IF Live(n)
                  THEN [at |-> "done", val |-> l1[n].val, left |-> left, lost |-> lost]
                  ELSE [at |-> IF l1[n] = None THEN "get" ELSE "evict",
                        val |-> None, left |-> left, lost |-> lost]
  <2>1. read' = [read EXCEPT ![r] = c] /\ UNCHANGED <<database, l1, redis>>
    BY <1>1 DEF ReadL1, memory
  <2>2. left \in Nat /\ left <= Deadline /\ lost \in BOOLEAN
    BY <1>h DEF HeldOK
  <2> HIDE DEF left, lost
  <2>3. CASE Live(n)
    <3>1. l1[n].val \in Versions /\ l1[n].left \in Nat /\ age[l1[n].val] \in Nat
      BY <2>3, <1>t, <1>n DEF Live, Shape, Entry
    <3>2. age[l1[n].val] <= Bound(l1[n].val)
      BY <2>3, <3>1, <1>t, <1>n, TTLType DEF L1Bounded
    <3>3. c \in ReadCall /\ HeldOK(c)
      BY <2>2, <2>3, <3>1, <3>2 DEF HeldOK, ReadCall
    <3> QED
      BY <2>1, <3>3, CallStep
  <2>4. CASE ~Live(n)
    <3>1. c \in ReadCall /\ HeldOK(c)
      BY <2>2, <2>4 DEF HeldOK, ReadCall
    <3> QED
      BY <2>1, <3>1, CallStep
  <2> QED
    BY <2>3, <2>4
<1>2. ASSUME Evict(r) PROVE IInv'
  <2>1. HeldOK(Goto(r, "get"))
    BY <1>2, <1>g, <1>h DEF Evict, HeldOK
  <2>2. read' \in [Readers -> ReadCall] /\ \A q \in Readers : HeldOK(read'[q])
    BY <1>2, <1>t, <2>1, HeldNow DEF Evict, Shape, HeldOK
  <2>3. l1' = [l1 EXCEPT ![Home[r]] = None] /\ UNCHANGED <<database, redis>>
    BY <1>2 DEF Evict
  <2> QED
    BY <2>2, <2>3, <1>n, L1Step
<1>3. ASSUME GetHit(r) PROVE IInv'
  <2>1. redis.val \in Versions /\ redis.left \in Nat /\ age[redis.val] \in Nat
    BY <1>3, <1>t DEF GetHit, Shape, Entry
  <2>2. age[redis.val] <= (Deadline - 1) + (TTLOf(redis.val) - 1)
    BY <1>3, <1>t, <2>1, TTLType DEF GetHit, RedisBounded, Shape
  <2>3. Holding(r, "fill", redis.val) \in ReadCall
    BY <1>h, <2>1, GotoType
  <2>4. HeldOK(Holding(r, "fill", redis.val))
    BY <1>h, <2>1, <2>2, <2>3 DEF HeldOK, Holding
  <2> QED
    BY <1>3, <2>4, CallStep DEF GetHit, memory
<1>4. ASSUME GetMiss(r) PROVE IInv'
  <2>1. read[r].val = None
    BY <1>4, <1>h DEF GetMiss, HeldOK
  <2>2. HeldOK(Goto(r, IF read[r].lost THEN "wait" ELSE "lock"))
    BY <1>g, <2>1
  <2> QED
    BY <1>4, <2>2, CallStep DEF GetMiss, memory
<1>5. ASSUME IndexL1(r) PROVE IInv'
  <2>1. HeldOK(Goto(r, IF read[r].at = "fill" THEN "filled" ELSE "stored"))
    BY <1>5, <1>g DEF IndexL1
  <2> QED
    BY <1>5, <2>1, CallStep DEF IndexL1
<1>6. ASSUME FillL1(r) PROVE IInv'
  <2> DEFINE v == read[r].val
             e == [val |-> v, left |-> L1TTL]
  <2>1. v \in Versions /\ age[v] \in Nat /\ age[v] <= (Deadline - 1) + (TTLOf(v) - 1)
    BY <1>6, <1>h, <1>t DEF FillL1, HeldOK, Shape
  <2>2. e \in Entry /\ age[e.val] + e.left <= Bound(e.val) /\ age[v] <= Bound(v)
    BY <2>1, TTLType DEF Entry, Bound
  <2>3. Goto(r, "done") \in ReadCall /\ HeldOK(Goto(r, "done"))
    BY <1>h, <2>1, <2>2, GotoType DEF HeldOK, Goto
  <2>4. read' \in [Readers -> ReadCall] /\ \A q \in Readers : HeldOK(read'[q])
    BY <1>6, <1>t, <2>3, HeldNow DEF FillL1, Shape, HeldOK
  <2>5. l1' = [l1 EXCEPT ![Home[r]] = e] /\ UNCHANGED <<database, redis>>
    BY <1>6 DEF FillL1, FillTTL
  <2> QED
    BY <2>2, <2>4, <2>5, <1>n, L1Step
<1>7. ASSUME LockWon(r) PROVE IInv'
  <2>1. HeldOK(Goto(r, "load"))
    BY <1>7, <1>g, <1>h DEF LockWon, HeldOK
  <2> QED
    BY <1>7, <2>1, CallStep DEF LockWon, memory
<1>8. ASSUME LockLost(r) PROVE IInv'
  <2> DEFINE c == [at |-> "wait", val |-> None, left |-> read[r].left, lost |-> TRUE]
  <2>1. c \in ReadCall /\ HeldOK(c)
    BY <1>h DEF HeldOK, ReadCall
  <2> QED
    BY <1>8, <2>1, CallStep DEF LockLost, memory
<1>9. ASSUME Fail(r) \/ Return(r) PROVE IInv'
  BY <1>9, <1>0, CallStep DEF Fail, Return, memory
<1>10. ASSUME Load(r) PROVE IInv'
  <2>1. replica \in Versions /\ age[replica] = 0 /\ read[r].left > 0
    BY <1>10, <1>t DEF Load, Shape, Versions, LatestIsNew
  <2>2. Holding(r, "loaded", replica) \in ReadCall
    BY <1>h, <2>1, GotoType
  <2>3. HeldOK(Holding(r, "loaded", replica))
    BY <1>h, <2>1, <2>2 DEF HeldOK, Holding
  <2> QED
    BY <1>10, <2>3, CallStep DEF Load, memory
<1>11. ASSUME LoadError(r) PROVE IInv'
  <2>1. HeldOK(Goto(r, "unlock"))
    BY <1>11, <1>g, <1>h DEF LoadError, HeldOK
  <2> QED
    BY <1>11, <2>1, CallStep DEF LoadError, memory
<1>12. ASSUME StoreL1(r) PROVE IInv'
  <2> DEFINE v == read[r].val
             ttl == IF TTLOf(v) < L1TTL THEN TTLOf(v) ELSE L1TTL
             e == [val |-> v, left |-> ttl]
  <2>1. v \in Versions /\ age[v] \in Nat /\ age[v] + read[r].left <= Deadline /\ read[r].left > 0
    BY <1>12, <1>h, <1>t DEF StoreL1, HeldOK, Shape
  <2>2. ttl \in Nat /\ ttl <= L1TTL /\ TTLOf(v) > 0
    BY <2>1, TTLType DEF TTLOf
  <2> HIDE DEF ttl
  <2>3. e \in Entry /\ age[e.val] + e.left <= Bound(e.val)
    BY <2>1, <2>2, <1>h, TTLType DEF Entry, Bound, HeldOK, ReadCall
  <2>4. Goto(r, "store") \in ReadCall /\ HeldOK(Goto(r, "store"))
    BY <1>h, <2>1, GotoType DEF HeldOK, Goto
  <2>5. read' \in [Readers -> ReadCall] /\ \A q \in Readers : HeldOK(read'[q])
    BY <1>12, <1>t, <2>4, HeldNow DEF StoreL1, Shape, HeldOK
  <2>6. l1' = [l1 EXCEPT ![Home[r]] = e] /\ UNCHANGED <<database, redis>>
    BY <1>12 DEF StoreL1, ttl
  <2> QED
    BY <2>3, <2>5, <2>6, <1>n, L1Step
<1>13. ASSUME Store(r) PROVE IInv'
  <2> DEFINE v == read[r].val
             e == [val |-> v, left |-> TTLOf(v)]
  <2>1. v \in Versions /\ age[v] \in Nat /\ age[v] + read[r].left <= Deadline /\ read[r].left > 0
    BY <1>13, <1>h, <1>t DEF Store, HeldOK, Shape
  <2>2. e \in Entry /\ e # None /\ e.left > 0 /\ age[e.val] + e.left <= (Deadline - 1) + TTLOf(e.val)
    BY <2>1, <1>h DEF Entry, TTLOf, HeldOK, ReadCall
  <2>3. redis' = e /\ read' = [read EXCEPT ![r] = Goto(r, "unlock")]
        /\ UNCHANGED <<row, replica, age, l1>>
    BY <1>13 DEF Store, database, memory
  <2>4. HeldOK(Goto(r, "unlock"))
    BY <1>13, <1>g DEF Store
  <2>5. Shape' /\ LatestIsNew' /\ RedisBounded' /\ L1Bounded'
    BY <1>t, <2>2, <2>3, <2>4 DEF Shape, LatestIsNew, RedisBounded, L1Bounded, Live, HeldOK
  <2>6. HeldBounded'
    BY <1>t, <2>3, <2>4 DEF Shape, HeldBounded, HeldOK
  <2> QED
    BY <2>5, <2>6 DEF IInv
<1>14. ASSUME StoreLost(r) PROVE IInv'
  <2>1. HeldOK(Goto(r, "unlock"))
    BY <1>14, <1>g DEF StoreLost
  <2> QED
    BY <1>14, <2>1, CallStep DEF StoreLost, memory
<1>15. ASSUME Unlock(r) \/ UnlockLost(r) PROVE IInv'
  <2>1. HeldOK(Ending(r))
    BY <1>15, <1>0, <1>g DEF Ending, Unlock, UnlockLost
  <2> QED
    BY <1>15, <2>1, CallStep DEF Unlock, UnlockLost, memory
<1> QED
  BY <1>1, <1>2, <1>3, <1>4, <1>5, <1>6, <1>7, <1>8, <1>9, <1>10, <1>11, <1>12, <1>13, <1>14,
     <1>15 DEF Reader

LEMMA OtherStep ==
    ASSUME IInv,
           \/ Replicate
           \/ \E w \in Writers : Writer(w)
           \/ \E n \in Nodes : Crash(n)
           \/ UNCHANGED vars
    PROVE  IInv'
<1> USE CacheAssumption
<1>t. Shape /\ LatestIsNew /\ RedisBounded /\ L1Bounded /\ HeldBounded
  BY DEF IInv
<1>h. read \in [Readers -> ReadCall] /\ \A r \in Readers : HeldOK(read[r])
  BY <1>t, HeldNow DEF Shape
\* Forgetting what is in Redis, and reading newer versions, is harmless.
<1>q. ASSUME UNCHANGED <<age, l1, read>>, redis' \in {redis, None},
             row' \in Versions, replica' \in 0..row', replica' >= replica
      PROVE  IInv'
  <2>1. Shape' /\ LatestIsNew'
    BY <1>q, <1>t DEF Shape, LatestIsNew, Versions
  <2>2. RedisBounded' /\ L1Bounded' /\ HeldBounded'
    BY <1>q, <1>t DEF RedisBounded, L1Bounded, Live, HeldBounded
  <2> QED
    BY <2>1, <2>2 DEF IInv
<1>p. replica \in Int /\ row \in Versions /\ replica \in 0..row
  BY <1>t DEF Shape, Versions
<1>1. CASE Replicate
  BY <1>1, <1>p, <1>q DEF Replicate, memory, Versions
<1>2. CASE UNCHANGED vars
  BY <1>2, <1>p, <1>q DEF vars
<1>3. ASSUME NEW w \in Writers, WriteRow(w) PROVE IInv'
  BY <1>3, <1>p, <1>q DEF WriteRow, memory, Versions
<1>4. ASSUME NEW w \in Writers,
             DropRedis(w) \/ DropRedisLost(w) \/ Scan(w) \/ ClearFound(w) \/ ClearLost(w)
      PROVE  IInv'
  BY <1>4, <1>p, <1>q DEF DropRedis, DropRedisLost, Scan, ClearFound, ClearLost, memory, database
<1>5. ASSUME NEW w \in Writers, DropL1(w) \/ ClearL1(w) PROVE IInv'
  <2>1. Home[w] \in Nodes
    OBVIOUS
  <2>2. UNCHANGED <<database, redis, read>>
    BY <1>5 DEF DropL1, ClearL1
  <2>3. CASE l1' = l1
    BY <2>2, <2>3, <1>p, <1>q DEF database
  <2>4. CASE l1' = [l1 EXCEPT ![Home[w]] = None]
    BY <2>1, <2>2, <2>4, <1>h, L1Step
  <2>5. l1' = [l1 EXCEPT ![Home[w]] = None] \/ l1' = l1
    BY <1>5, <1>t DEF DropL1, ClearL1, Shape
  <2> QED
    BY <2>3, <2>4, <2>5
<1>6. ASSUME NEW n \in Nodes, Crash(n) PROVE IInv'
  <2>1. l1' = [l1 EXCEPT ![n] = None] /\ UNCHANGED <<database, redis>>
    BY <1>6 DEF Crash
  <2>2. HeldOK(NoRead) /\ NoRead \in ReadCall
    BY NoReadType DEF HeldOK
  <2>3. read' \in [Readers -> ReadCall] /\ \A r \in Readers : HeldOK(read'[r])
    BY <1>6, <1>h, <2>2 DEF Crash, HeldOK
  <2> QED
    BY <2>1, <2>3, L1Step
<1> QED
  BY <1>1, <1>2, <1>3, <1>4, <1>5, <1>6 DEF Writer

LEMMA Invariance == Spec => []IInv
<1>1. IInv /\ [Next]_vars => IInv'
  BY TickStep, ReaderStep, OtherStep DEF Next
<1> QED
  BY InitInv, <1>1, PTL DEF Spec

-----------------------------------------------------------------------------
(* The rest of the state: the lock, the index, the writers. *)

Bookkeeping ==
    /\ \A v \in Versions : age[v] \in 0..MaxAge
    /\ index \in [Nodes -> BOOLEAN]
    /\ lock \in Nat
    /\ write \in [Writers -> WriteCall]

LEMMA BookkeepingStep == IInv /\ Bookkeeping /\ [Next]_vars => Bookkeeping'
<1> SUFFICES ASSUME IInv, Bookkeeping, [Next]_vars PROVE Bookkeeping'
  OBVIOUS
<1> USE CacheAssumption DEF Bookkeeping
<1>n. NoWrite \in WriteCall
  BY DEF NoWrite, WriteCall
<1>s. ASSUME NEW w \in Writers, NEW step \in {"dropped", "found", "cleared"},
             NEW found \in SUBSET {"key", "lock"}
      PROVE  Step(w, step, found) \in WriteCall
  BY <1>s DEF Step, WriteCall
<1>1. CASE Tick
  <2>1. \A v \in Versions : age'[v] \in 0..MaxAge
    BY <1>1 DEF Tick, Older
  <2>2. lock' \in Nat
    BY <1>1 DEF Tick, LockLeft, Less
  <2>3. \A w \in Writers : write'[w] \in WriteCall
    BY <1>1 DEF Tick, Less, WriteCall
  <2> QED
    BY <1>1, <2>1, <2>2, <2>3 DEF Tick
<1>2. CASE Replicate \/ UNCHANGED vars
  BY <1>2 DEF Replicate, vars, memory
<1>3. ASSUME NEW r \in Readers, Reader(r) PROVE Bookkeeping'
  <2>1. UNCHANGED <<age, write>>
    BY <1>3 DEF Reader, ReadL1, Evict, GetHit, GetMiss, IndexL1, FillL1, LockWon, LockLost, Fail,
       Load, LoadError, StoreL1, Store, StoreLost, Unlock, UnlockLost, Return, database
  <2>2. lock' = lock \/ lock' = 0 \/ lock' = LockTTL
    BY <1>3 DEF Reader, ReadL1, Evict, GetHit, GetMiss, IndexL1, FillL1, LockWon, LockLost, Fail,
       Load, LoadError, StoreL1, Store, StoreLost, Unlock, UnlockLost, Return
  <2>3. index' \in [Nodes -> BOOLEAN]
    BY <1>3 DEF Reader, ReadL1, Evict, GetHit, GetMiss, IndexL1, FillL1, LockWon, LockLost, Fail,
       Load, LoadError, StoreL1, Store, StoreLost, Unlock, UnlockLost, Return, memory
  <2> QED
    BY <2>1, <2>2, <2>3
<1>4. ASSUME NEW w \in Writers, Writer(w) PROVE Bookkeeping'
  <2>1. UNCHANGED age /\ (lock' = lock \/ lock' = 0) /\ index' \in [Nodes -> BOOLEAN]
    BY <1>4 DEF Writer, WriteRow, DropL1, DropRedis, DropRedisLost, Scan, ClearFound, ClearLost,
       ClearL1, memory, database
  <2>2. [at |-> "written", left |-> Deadline, found |-> {}] \in WriteCall
    BY DEF WriteCall
  <2>3. PICK new \in WriteCall : write' = [write EXCEPT ![w] = new]
    BY <1>4, <1>n, <1>s, <2>2 DEF Writer, WriteRow, DropL1, DropRedis, DropRedisLost, Scan,
       ClearFound, ClearLost, ClearL1
  <2> QED
    BY <2>1, <2>3
<1>5. ASSUME NEW n \in Nodes, Crash(n) PROVE Bookkeeping'
  BY <1>5, <1>n DEF Crash, database
<1> QED
  BY <1>1, <1>2, <1>3, <1>4, <1>5 DEF Next

\* Type correctness of the cache.
THEOREM TypeCorrect == Spec => []TypeOK
<1>1. Init => Bookkeeping
  BY CacheAssumption DEF Init, Bookkeeping, NoWrite, WriteCall
<1>2. IInv /\ Bookkeeping => TypeOK
  <2> SUFFICES ASSUME IInv, Bookkeeping PROVE TypeOK
    OBVIOUS
  <2>1. age \in [Versions -> 0..MaxAge]
    BY DEF IInv, Shape, Bookkeeping
  <2> QED
    BY <2>1 DEF IInv, Shape, Bookkeeping, TypeOK
<1> QED
  BY Invariance, BookkeepingStep, <1>1, <1>2, PTL DEF Spec

-----------------------------------------------------------------------------
(* Single flight.  Who won the lock holds it while its request lives, since  *)
(* the lock lives as long as any request; nobody else gets it meanwhile, and *)
(* only the holder deletes it: the holder, or a DelPattern that has scanned  *)
(* the lock of some load and deletes whatever lock is there by then.         *)

Holds(r) == read[r].at \in {"load", "loaded", "stored", "store", "unlock"} /\ read[r].left > 0

LockCovers == \A r \in Readers : Holds(r) => lock >= read[r].left

OneHolder == \A r, q \in Readers : Holds(r) /\ Holds(q) => r = q

FInv == IInv /\ Bookkeeping /\ LockCovers /\ OneHolder

\* DelPattern deletes the lock of a load that is under way.
Robs(w) == ClearFound(w) /\ "lock" \in write[w].found /\ \E r \in Readers : Holds(r)

NobodyRobs == [][\A w \in Writers : ~Robs(w)]_vars

LEMMA FlightStep ==
    ASSUME LockTTL >= Deadline, FInv, [Next]_vars,
           [\A w \in Writers : ~Robs(w)]_vars
    PROVE  LockCovers' /\ OneHolder'
<1> USE CacheAssumption
<1>t. /\ Shape /\ Bookkeeping /\ LockCovers /\ OneHolder
      /\ \A r \in Readers : read[r] \in ReadCall /\ read[r].left \in Nat /\ read[r].left <= Deadline
      /\ lock \in Nat
  BY DEF FInv, IInv, Shape, Bookkeeping, ReadCall
\* Who holds the lock has held it before, and the lock is as it was.
<1>q. ASSUME lock' = lock,
             \A r \in Readers : Holds(r)' => Holds(r) /\ read'[r].left = read[r].left
      PROVE  LockCovers' /\ OneHolder'
  BY <1>q, <1>t DEF LockCovers, OneHolder
<1>1. CASE Tick
  <2>1. \A r \in Readers : read'[r].at = read[r].at /\ read'[r].left = Less(read[r].left)
    BY <1>1 DEF Tick
  <2>2. \A r \in Readers : Holds(r)' => Holds(r) /\ read'[r].left = read[r].left - 1
    BY <2>1, <1>t DEF Holds, Less
  <2>3. lock' = Less(lock)
    BY <1>1 DEF Tick, LockLeft
  <2>4. LockCovers'
    BY <2>2, <2>3, <1>t DEF LockCovers, Less
  <2> QED
    BY <2>2, <2>4, <1>t DEF OneHolder
<1>2. CASE Replicate \/ UNCHANGED vars
  BY <1>2, <1>q DEF Replicate, vars, Holds
<1>4. ASSUME NEW r \in Readers, ReadL1(r) PROVE LockCovers' /\ OneHolder'
  BY <1>4, <1>q, <1>t DEF ReadL1, Holds, Shape
<1>5. ASSUME NEW r \in Readers, Evict(r) \/ GetHit(r) \/ GetMiss(r) \/ FillL1(r) \/ LockLost(r)
      PROVE  LockCovers' /\ OneHolder'
  BY <1>5, <1>q, <1>t DEF Evict, GetHit, GetMiss, FillL1, LockLost, Goto, Holding, Holds, Shape
<1>6. ASSUME NEW r \in Readers, IndexL1(r) \/ Load(r) \/ LoadError(r) \/ StoreL1(r) \/ Store(r)
                                 \/ StoreLost(r)
      PROVE  LockCovers' /\ OneHolder'
  BY <1>6, <1>q, <1>t DEF IndexL1, Load, LoadError, StoreL1, Store, StoreLost, Goto, Holding,
     Holds, Shape
<1>7. ASSUME NEW r \in Readers, Fail(r) \/ Return(r) \/ UnlockLost(r)
      PROVE  LockCovers' /\ OneHolder'
  BY <1>7, <1>q, <1>t DEF Fail, Return, UnlockLost, Ending, NoRead, Goto, Holds, Shape
<1>8. ASSUME NEW r \in Readers, LockWon(r) PROVE LockCovers' /\ OneHolder'
  <2>1. \A q \in Readers : ~Holds(q)
    BY <1>8, <1>t DEF LockWon, LockCovers, Holds
  <2>2. lock' = LockTTL /\ read'[r].left = read[r].left /\ \A q \in Readers : q # r => read'[q] = read[q]
    BY <1>8, <1>t DEF LockWon, Goto, Shape
  <2>3. \A q \in Readers : Holds(q)' => q = r
    BY <2>1, <2>2 DEF Holds
  <2>4. LockTTL >= read'[r].left
    BY <2>2, <1>t
  <2> QED
    BY <2>2, <2>3, <2>4 DEF LockCovers, OneHolder
<1>9. ASSUME NEW r \in Readers, Unlock(r) PROVE LockCovers' /\ OneHolder'
  <2>1. Holds(r)
    BY <1>9 DEF Unlock, Holds
  <2>2. ~Holds(r)' /\ \A q \in Readers : q # r => read'[q] = read[q]
    BY <1>9, <1>t DEF Unlock, Ending, NoRead, Goto, Holds, Shape
  <2>3. \A q \in Readers : ~Holds(q)'
    BY <2>1, <2>2, <1>t DEF Holds, OneHolder
  <2> QED
    BY <2>3 DEF LockCovers, OneHolder
<1>10. ASSUME NEW w \in Writers, Writer(w) PROVE LockCovers' /\ OneHolder'
  <2>1. UNCHANGED read /\ (lock' = lock \/ (ClearFound(w) /\ "lock" \in write[w].found))
    BY <1>10 DEF Writer, WriteRow, DropL1, DropRedis, DropRedisLost, Scan, ClearFound, ClearLost, ClearL1
  <2>2. CASE lock' = lock
    BY <2>1, <2>2, <1>q DEF Holds
  <2>3. CASE ClearFound(w) /\ "lock" \in write[w].found
    <3>1. ~UNCHANGED vars
      <4>1. write'[w].at = "cleared" /\ write[w].at = "found"
        BY <2>3, <1>t DEF ClearFound, Step, Bookkeeping
      <4> QED
        BY <4>1 DEF vars
    <3>2. ~Robs(w)
      BY <3>1
    <3>3. \A r \in Readers : ~Holds(r)
      BY <2>3, <3>2 DEF Robs
    <3> QED
      BY <2>1, <3>3 DEF LockCovers, OneHolder, Holds
  <2> QED
    BY <2>1, <2>2, <2>3
<1>11. ASSUME NEW n \in Nodes, Crash(n) PROVE LockCovers' /\ OneHolder'
  BY <1>11, <1>q, <1>t, NoReadType DEF Crash, Holds, Shape
<1> QED
  BY <1>1, <1>2, <1>4, <1>5, <1>6, <1>7, <1>8, <1>9, <1>10, <1>11 DEF Next, Reader

\* GetOrLoad lets one request at a time load a key, over all processes, as long
\* as the lock lives as long as a request: also when holders die, lose their
\* answers or run out of time.  The one thing that breaks it is a DelPattern
\* that deletes the lock of a load under way.
THEOREM OneLoadUnlessRobbed ==
    ASSUME LockTTL >= Deadline
    PROVE  Spec /\ NobodyRobs => []SingleFlight
<1> DEFINE Safe == \A w \in Writers : ~Robs(w)
<1>1. Init => FInv
  <2> SUFFICES ASSUME Init PROVE FInv
    OBVIOUS
  <2>1. Bookkeeping
    BY CacheAssumption DEF Init, Bookkeeping, NoWrite, WriteCall
  <2>2. LockCovers /\ OneHolder
    BY DEF Init, LockCovers, OneHolder, Holds, NoRead
  <2> QED
    BY <2>1, <2>2, InitInv DEF FInv
<1>2. FInv /\ [Next]_vars /\ [Safe]_vars => FInv'
  <2>1. FInv /\ [Next]_vars => IInv' /\ Bookkeeping'
    BY TickStep, ReaderStep, OtherStep, BookkeepingStep DEF FInv, Next
  <2> QED
    BY <2>1, FlightStep DEF FInv
<1>3. FInv => SingleFlight
  <2> SUFFICES ASSUME FInv, NEW r \in Readers, NEW q \in Readers,
                      read[r].at = "load" /\ read[r].left > 0,
                      read[q].at = "load" /\ read[q].left > 0
               PROVE  r = q
    BY DEF SingleFlight
  <2> QED
    BY DEF FInv, OneHolder, Holds
<1> QED
  BY <1>1, <1>2, <1>3, PTL DEF Spec, NobodyRobs

\* A key that no DelPattern matches is loaded once at a time, always.
THEOREM OneLoadAtATime ==
    ASSUME LockTTL >= Deadline, Pattern = {}
    PROVE  Spec => []SingleFlight
<1> DEFINE NoScan == \A w \in Writers : write[w].at # "found"
           Safe == \A w \in Writers : ~Robs(w)
<1>1. Init => Bookkeeping /\ NoScan
  BY CacheAssumption DEF Init, Bookkeeping, NoWrite, WriteCall
<1>2. IInv /\ Bookkeeping /\ NoScan /\ [Next]_vars => NoScan'
  <2> SUFFICES ASSUME Bookkeeping, NoScan, [Next]_vars, NEW w \in Writers PROVE write'[w].at # "found"
    OBVIOUS
  <2>1. write \in [Writers -> WriteCall]
    BY DEF Bookkeeping
  <2>2. CASE Tick
    BY <2>2 DEF Tick
  <2>3. CASE UNCHANGED write
    BY <2>3
  <2>4. ASSUME NEW v \in Writers, Writer(v) PROVE write'[w].at # "found"
    BY <2>1, <2>4 DEF Writer, WriteRow, DropL1, DropRedis, DropRedisLost, Scan, ClearFound,
       ClearLost, ClearL1, Step, NoWrite
  <2>5. ASSUME NEW n \in Nodes, Crash(n) PROVE write'[w].at # "found"
    BY <2>1, <2>5 DEF Crash, NoWrite
  <2>6. ASSUME NEW r \in Readers, Reader(r) PROVE UNCHANGED write
    BY <2>6 DEF Reader, ReadL1, Evict, GetHit, GetMiss, IndexL1, FillL1, LockWon, LockLost, Fail,
       Load, LoadError, StoreL1, Store, StoreLost, Unlock, UnlockLost, Return
  <2> QED
    BY <2>2, <2>3, <2>4, <2>5, <2>6 DEF Next, Replicate, vars
<1>3. NoScan => Safe
  BY DEF Robs, ClearFound
<1>4. IInv /\ Bookkeeping /\ [Next]_vars => Bookkeeping'
  BY BookkeepingStep
<1> HIDE DEF NoScan, Safe
<1>5. Spec => [][Safe]_vars
  BY Invariance, <1>1, <1>2, <1>3, <1>4, PTL DEF Spec
<1>6. Spec => NobodyRobs
  BY <1>5 DEF Safe, NobodyRobs
<1> QED
  BY <1>6, OneLoadUnlessRobbed, PTL

-----------------------------------------------------------------------------
\* GetOrLoad answers with nothing older than a request, a lifetime in Redis and
\* a lifetime in the L1 together, although loads race with updates, calls to
\* Redis fail and processes die before they invalidate.
THEOREM StalenessIsBounded == Spec => []BoundedStaleness
<1>1. IInv => BoundedStaleness
  BY DEF IInv, HeldBounded, BoundedStaleness
<1> QED
  BY Invariance, <1>1, PTL

=============================================================================

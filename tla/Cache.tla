------------------------------- MODULE Cache -------------------------------
(***************************************************************************)
(* The read-through cache of data/cache.go, seen from one key: an entry in *)
(* every server process (L1, ristretto), one in Redis, and the SETNX lock  *)
(* behind GetOrLoad's single flight.  The row behind the key is a version  *)
(* number; version 0 means there is no row, and its entry is EmptyMarker.  *)
(* Loaders read a replica when one is configured (dbresolver).             *)
(*                                                                         *)
(* Time is counted down: an entry, the lock and a request hold the ticks   *)
(* they have left.  Redis and the database refuse a request whose context  *)
(* has expired (the HTTP server gives it one second); the process's own    *)
(* memory does not.  Local steps take no time on this scale (Prompt).      *)
(***************************************************************************)
EXTENDS Integers, FiniteSets

CONSTANTS
    Nodes,         \* server processes
    Readers,       \* requests that run GetOrLoad ...
    Writers,       \* ... or update the row and invalidate the key
    Home,          \* the process of a request
    Pattern,       \* the writers that call DelPattern instead of Del
    Lagging,       \* a replica is configured and may lag
    Reliable,      \* Redis and the database never fail early, nothing crashes
    L1TTL, TTL, EmptyTTL, LockTTL, Deadline,
    MaxVersion, MaxAge,  \* bounds of the model
    None

Versions == 0..MaxVersion

\* How long an entry may live: ttlJitter, or 60 s for an empty value.
TTLOf(v) == IF v = 0 THEN EmptyTTL ELSE TTL

ASSUME CacheAssumption ==
    /\ Home \in [Readers \cup Writers -> Nodes]
    /\ Pattern \subseteq Writers
    /\ Lagging \in BOOLEAN /\ Reliable \in BOOLEAN
    /\ L1TTL \in Nat \ {0} /\ TTL \in Nat \ {0} /\ EmptyTTL \in Nat \ {0}
    /\ LockTTL \in Nat \ {0} /\ Deadline \in Nat \ {0}
    /\ MaxVersion \in Nat /\ MaxAge \in Nat
    /\ \A v \in Versions : MaxAge >= Deadline + TTLOf(v) + L1TTL - 1
    /\ None \notin Versions \cup [val: Versions, left: Nat]

VARIABLES
    row,      \* the version in the primary database ...
    replica,  \* ... and the one that loaders read
    age,      \* ticks since a version was last what loaders read
    l1,       \* per process: its entry; with left = 0 it is dead but not evicted
    index,    \* per process: is the key in the "expires" map of DelPattern
    redis,    \* the entry in Redis; an expired one is gone
    lock,     \* what is left of key:lock, 0 when there is none
    read, write  \* the requests

vars == <<row, replica, age, l1, index, redis, lock, read, write>>
memory == <<l1, index>>
database == <<row, replica, age>>

Entry == [val: Versions, left: Nat]
ReadCall == [at: {"idle", "evict", "get", "fill", "filled", "lock", "wait", "load",
                  "loaded", "stored", "store", "unlock", "done"},
             val: Versions \cup {None}, left: Nat, lost: BOOLEAN]
WriteCall == [at: {"idle", "written", "dropped", "found", "cleared"},
              left: Nat, found: SUBSET {"key", "lock"}]
NoRead == [at |-> "idle", val |-> None, left |-> 0, lost |-> FALSE]
NoWrite == [at |-> "idle", left |-> 0, found |-> {}]

TypeOK ==
    /\ row \in Versions /\ replica \in 0..row
    /\ age \in [Versions -> 0..MaxAge]
    /\ l1 \in [Nodes -> Entry \cup {None}]
    /\ index \in [Nodes -> BOOLEAN]
    /\ redis \in Entry \cup {None}
    /\ lock \in Nat
    /\ read \in [Readers -> ReadCall]
    /\ write \in [Writers -> WriteCall]

Init ==
    /\ row = 0 /\ replica = 0
    /\ age = [v \in Versions |-> 0]
    /\ l1 = [n \in Nodes |-> None]
    /\ index = [n \in Nodes |-> FALSE]
    /\ redis = None
    /\ lock = 0
    /\ read = [r \in Readers |-> NoRead]
    /\ write = [w \in Writers |-> NoWrite]

-----------------------------------------------------------------------------
(* Time. *)

Less(t) == IF t > 0 THEN t - 1 ELSE 0
Older(t) == IF t < MaxAge THEN t + 1 ELSE t

\* Mutants: the lock has no expiry; it is counted on after its expiry.
LockKept(t) == t
LockPast(t) == t - 1

\* SETNX gives the lock a lifetime of its own.
LockLeft(t) == Less(t)

\* A call to Redis or the database may fail.
Refused(left) == left = 0 \/ ~Reliable

\* Requests whose next step is local, or refused because their context has
\* expired: it happens before a tick.
Prompt(r) ==
    \/ read[r].at \in {"evict", "fill", "filled", "loaded", "stored", "done"}
    \/ read[r].at \in {"get", "lock", "load", "store", "unlock"} /\ read[r].left = 0

Tick ==
    /\ \A r \in Readers : ~Prompt(r)
    /\ age' = [v \in Versions |-> IF v < replica THEN Older(age[v]) ELSE age[v]]
    /\ l1' = [n \in Nodes |->
         IF l1[n] = None THEN None ELSE [val |-> l1[n].val, left |-> Less(l1[n].left)]]
    /\ redis' = IF redis = None \/ redis.left = 1
                THEN None ELSE [val |-> redis.val, left |-> redis.left - 1]
    /\ lock' = LockLeft(lock)
    /\ read' = [r \in Readers |->
         [at |-> read[r].at, val |-> read[r].val, left |-> Less(read[r].left), lost |-> read[r].lost]]
    /\ write' = [w \in Writers |->
         [at |-> write[w].at, left |-> Less(write[w].left), found |-> write[w].found]]
    /\ UNCHANGED <<row, replica, index>>

\* The replica catches up by one write.
Replicate ==
    /\ replica < row
    /\ replica' = replica + 1
    /\ UNCHANGED <<row, age, memory, redis, lock, read, write>>

-----------------------------------------------------------------------------
(* GetOrLoad. *)

Goto(r, step) == [at |-> step, val |-> read[r].val, left |-> read[r].left, lost |-> read[r].lost]
Holding(r, step, v) == [at |-> step, val |-> v, left |-> read[r].left, lost |-> read[r].lost]

\* Mutant: nobody looks at "dead".
LiveOrDead(n) == l1[n] # None

\* An entry that l1Get hands out.
Live(n) == l1[n] # None /\ l1[n].left > 0

\* l1Get: a hit is the answer; a dead entry is evicted; a miss asks Redis.
ReadL1(r) ==
    LET n == Home[r]
        left == IF read[r].at = "idle" THEN Deadline ELSE read[r].left
        lost == read[r].at = "wait"
    IN  /\ read[r].at \in {"idle", "wait"}
        /\ read' = [read EXCEPT ![r] =
             IF Live(n)
             THEN [at |-> "done", val |-> l1[n].val, left |-> left, lost |-> lost]
             ELSE [at |-> IF l1[n] = None THEN "get" ELSE "evict",
                   val |-> None, left |-> left, lost |-> lost]]
        /\ UNCHANGED <<database, memory, redis, lock, write>>

\* l1Del of a dead entry, which may have been replaced meanwhile.
Evict(r) ==
    /\ read[r].at = "evict"
    /\ l1' = [l1 EXCEPT ![Home[r]] = None]
    /\ index' = [index EXCEPT ![Home[r]] = FALSE]
    /\ read' = [read EXCEPT ![r] = Goto(r, "get")]
    /\ UNCHANGED <<database, redis, lock, write>>

GetHit(r) ==
    /\ read[r].at = "get" /\ read[r].left > 0
    /\ redis # None
    /\ read' = [read EXCEPT ![r] = Holding(r, "fill", redis.val)]
    /\ UNCHANGED <<database, memory, redis, lock, write>>

\* Nothing there, or an error, which is taken for a miss.
GetMiss(r) ==
    /\ read[r].at = "get"
    /\ redis = None \/ Refused(read[r].left)
    /\ read' = [read EXCEPT ![r] = Goto(r, IF read[r].lost THEN "wait" ELSE "lock")]
    /\ UNCHANGED <<database, memory, redis, lock, write>>

\* l1Set enters the key in the index, then in the cache.
IndexL1(r) ==
    /\ read[r].at \in {"fill", "loaded"}
    /\ index' = [index EXCEPT ![Home[r]] = TRUE]
    /\ read' = [read EXCEPT ![r] = Goto(r, IF read[r].at = "fill" THEN "filled" ELSE "stored")]
    /\ UNCHANGED <<database, l1, redis, lock, write>>

\* Mutant: the L1 keeps what it has got.
FillForEver(v) == MaxAge

\* The lifetime of an entry that Get copies from Redis.
FillTTL(v) == L1TTL

FillL1(r) ==
    /\ read[r].at = "filled"
    /\ l1' = [l1 EXCEPT ![Home[r]] = [val |-> read[r].val, left |-> FillTTL(read[r].val)]]
    /\ read' = [read EXCEPT ![r] = Goto(r, "done")]
    /\ UNCHANGED <<database, index, redis, lock, write>>

LockWon(r) ==
    /\ read[r].at = "lock" /\ read[r].left > 0
    /\ lock = 0
    /\ lock' = LockTTL
    /\ read' = [read EXCEPT ![r] = Goto(r, "load")]
    /\ UNCHANGED <<database, memory, redis, write>>

LockLost(r) ==
    /\ read[r].at = "lock" /\ read[r].left > 0
    /\ lock > 0
    /\ read' = [read EXCEPT ![r] = [at |-> "wait", val |-> None, left |-> read[r].left, lost |-> TRUE]]
    /\ UNCHANGED <<database, memory, redis, lock, write>>

\* Mutant: whoever fails deletes the lock.
FailUnlocks(r) ==
    /\ read[r].at = "wait" \/ (read[r].at = "lock" /\ Refused(read[r].left))
    /\ lock' = 0
    /\ read' = [read EXCEPT ![r] = NoRead]
    /\ UNCHANGED <<database, memory, redis, write>>

\* SETNX fails, or ten polls were not enough: the request fails.
Fail(r) ==
    /\ read[r].at = "wait" \/ (read[r].at = "lock" /\ Refused(read[r].left))
    /\ read' = [read EXCEPT ![r] = NoRead]
    /\ UNCHANGED <<database, memory, redis, lock, write>>

Load(r) ==
    /\ read[r].at = "load" /\ read[r].left > 0
    /\ read' = [read EXCEPT ![r] = Holding(r, "loaded", replica)]
    /\ UNCHANGED <<database, memory, redis, lock, write>>

LoadError(r) ==
    /\ read[r].at = "load" /\ Refused(read[r].left)
    /\ read' = [read EXCEPT ![r] = Goto(r, "unlock")]
    /\ UNCHANGED <<database, memory, redis, lock, write>>

\* Set: l1Set keeps the shorter of the two lifetimes, then Redis is written;
\* its error is ignored.
StoreL1(r) ==
    LET ttl == TTLOf(read[r].val)
    IN  /\ read[r].at = "stored"
        /\ l1' = [l1 EXCEPT ![Home[r]] =
             [val |-> read[r].val, left |-> IF ttl < L1TTL THEN ttl ELSE L1TTL]]
        /\ read' = [read EXCEPT ![r] = Goto(r, "store")]
        /\ UNCHANGED <<database, index, redis, lock, write>>

Store(r) ==
    /\ read[r].at = "store" /\ read[r].left > 0
    /\ redis' = [val |-> read[r].val, left |-> TTLOf(read[r].val)]
    /\ read' = [read EXCEPT ![r] = Goto(r, "unlock")]
    /\ UNCHANGED <<database, memory, lock, write>>

StoreLost(r) ==
    /\ read[r].at = "store" /\ Refused(read[r].left)
    /\ read' = [read EXCEPT ![r] = Goto(r, "unlock")]
    /\ UNCHANGED <<database, memory, redis, lock, write>>

\* Where GetOrLoad ends: with what it loaded, or with the loader's error.
Ending(r) == IF read[r].val = None THEN NoRead ELSE Goto(r, "done")

\* The deferred DEL of the lock asks nobody whose lock it is.
Unlock(r) ==
    /\ read[r].at = "unlock" /\ read[r].left > 0
    /\ lock' = 0
    /\ read' = [read EXCEPT ![r] = Ending(r)]
    /\ UNCHANGED <<database, memory, redis, write>>

UnlockLost(r) ==
    /\ read[r].at = "unlock" /\ Refused(read[r].left)
    /\ read' = [read EXCEPT ![r] = Ending(r)]
    /\ UNCHANGED <<database, memory, redis, lock, write>>

Return(r) ==
    /\ read[r].at = "done"
    /\ read' = [read EXCEPT ![r] = NoRead]
    /\ UNCHANGED <<database, memory, redis, lock, write>>

-----------------------------------------------------------------------------
(* Writers: the row, then Del (L1, Redis) or DelPattern (SCAN and DEL in     *)
(* Redis, then the L1 by its index).  Errors of Redis are ignored.           *)

WriteRow(w) ==
    /\ write[w].at = "idle"
    /\ row < MaxVersion
    /\ row' = row + 1
    /\ replica' = IF Lagging THEN replica ELSE row + 1
    /\ write' = [write EXCEPT ![w] = [at |-> "written", left |-> Deadline, found |-> {}]]
    /\ UNCHANGED <<age, memory, redis, lock, read>>

Step(w, step, found) == [at |-> step, left |-> write[w].left, found |-> found]

DropL1(w) ==
    /\ write[w].at = "written" /\ w \notin Pattern
    /\ l1' = [l1 EXCEPT ![Home[w]] = None]
    /\ index' = [index EXCEPT ![Home[w]] = FALSE]
    /\ write' = [write EXCEPT ![w] = Step(w, "dropped", {})]
    /\ UNCHANGED <<database, redis, lock, read>>

DropRedis(w) ==
    /\ write[w].at = "dropped" /\ write[w].left > 0
    /\ redis' = None
    /\ write' = [write EXCEPT ![w] = NoWrite]
    /\ UNCHANGED <<database, memory, lock, read>>

DropRedisLost(w) ==
    /\ write[w].at = "dropped" /\ Refused(write[w].left)
    /\ write' = [write EXCEPT ![w] = NoWrite]
    /\ UNCHANGED <<database, memory, redis, lock, read>>

\* The pattern of a key also matches its lock.
Scan(w) ==
    /\ write[w].at = "written" /\ w \in Pattern /\ write[w].left > 0
    /\ write' = [write EXCEPT ![w] = Step(w, "found",
         {x \in {"key", "lock"} : IF x = "key" THEN redis # None ELSE lock > 0})]
    /\ UNCHANGED <<database, memory, redis, lock, read>>

ClearFound(w) ==
    /\ write[w].at = "found" /\ write[w].left > 0
    /\ redis' = IF "key" \in write[w].found THEN None ELSE redis
    /\ lock' = IF "lock" \in write[w].found THEN 0 ELSE lock
    /\ write' = [write EXCEPT ![w] = Step(w, "cleared", {})]
    /\ UNCHANGED <<database, memory, read>>

ClearLost(w) ==
    /\ write[w].at \in {"written", "found"} /\ w \in Pattern
    /\ Refused(write[w].left)
    /\ write' = [write EXCEPT ![w] = Step(w, "cleared", {})]
    /\ UNCHANGED <<database, memory, redis, lock, read>>

ClearL1(w) ==
    /\ write[w].at = "cleared"
    /\ l1' = [l1 EXCEPT ![Home[w]] = IF index[Home[w]] THEN None ELSE @]
    /\ index' = [index EXCEPT ![Home[w]] = FALSE]
    /\ write' = [write EXCEPT ![w] = NoWrite]
    /\ UNCHANGED <<database, redis, lock, read>>

-----------------------------------------------------------------------------
\* A process dies: its memory and its requests are gone, Redis keeps the lock.
Crash(n) ==
    /\ ~Reliable
    /\ l1' = [l1 EXCEPT ![n] = None]
    /\ index' = [index EXCEPT ![n] = FALSE]
    /\ read' = [r \in Readers |-> IF Home[r] = n THEN NoRead ELSE read[r]]
    /\ write' = [w \in Writers |-> IF Home[w] = n THEN NoWrite ELSE write[w]]
    /\ UNCHANGED <<database, redis, lock>>

Reader(r) ==
    \/ ReadL1(r) \/ Evict(r) \/ GetHit(r) \/ GetMiss(r)
    \/ IndexL1(r) \/ FillL1(r)
    \/ LockWon(r) \/ LockLost(r) \/ Fail(r)
    \/ Load(r) \/ LoadError(r)
    \/ StoreL1(r) \/ Store(r) \/ StoreLost(r)
    \/ Unlock(r) \/ UnlockLost(r) \/ Return(r)

Writer(w) ==
    \/ WriteRow(w)
    \/ DropL1(w) \/ DropRedis(w) \/ DropRedisLost(w)
    \/ Scan(w) \/ ClearFound(w) \/ ClearLost(w) \/ ClearL1(w)

Next ==
    \/ Tick
    \/ Replicate
    \/ \E r \in Readers : Reader(r)
    \/ \E w \in Writers : Writer(w)
    \/ \E n \in Nodes : Crash(n)

Spec == Init /\ [][Next]_vars

\* Time passes, whatever the requests do; since a tick waits for what a process
\* does locally, running processes go on.  The replica catches up.
Fairness == []<><<Tick>>_vars /\ WF_vars(Replicate)

FairSpec == Spec /\ Fairness

-----------------------------------------------------------------------------
(* What must hold. *)

\* How old a value may be: it was loaded and stored within a request, then lived
\* in Redis, then in some process.  A tick less for the first two, since both the
\* context and the entry in Redis must still be good when they are used.
Bound(v) == (Deadline - 1) + (TTLOf(v) - 1) + L1TTL

\* GetOrLoad never answers with a value that the database stopped giving
\* longer ago than that, although updates race with loads, invalidations fail
\* and processes crash between the update and its invalidation.
BoundedStaleness ==
    \A r \in Readers : read[r].at = "done" => age[read[r].val] <= Bound(read[r].val)

\* Single flight: the database works on at most one load of the key.
SingleFlight ==
    \A r, q \in Readers :
        /\ read[r].at = "load" /\ read[r].left > 0
        /\ read[q].at = "load" /\ read[q].left > 0
        => r = q

\* When the updates stop, every cache forgets what is out of date for good.
Fresh ==
    /\ redis # None => redis.val = row
    /\ \A n \in Nodes : Live(n) => l1[n].val = row
EventuallyFresh == <>[]Fresh

\* A lock whose holder died or ran out of time does not stay for ever.
LockIsFreed == []<>(lock = 0)

=============================================================================

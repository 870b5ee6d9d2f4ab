-------------------------------- MODULE Auth --------------------------------
(***************************************************************************)
(* Sessions: pkg/auth.go and biz/user.go on the server, api_client.dart in *)
(* the application, Redis and the user table between them.                 *)
(*                                                                         *)
(* A login or a refresh yields an access token, which nobody can take back *)
(* before it expires, and a refresh token, a Redis key that GETDEL spends. *)
(* The tabs of a browser share its storage: each copies the tokens into    *)
(* its memory when it opens (init), and every save and logout goes to      *)
(* both, to the storage by writes that nobody watches and that may fail.   *)
(* Time is counted down in ticks.  A request that no one waits for any     *)
(* more still runs on the server, or is lost.                              *)
(***************************************************************************)
EXTENDS Integers, FiniteSets

CONSTANTS
    Users, Roles,
    Admin,         \* the role of administrators
    Elsewhere,     \* administrators whose own sessions are not modelled
    Tabs,          \* running instances of the application ...
    Storage,       \* ... and the storage each of them uses
    Requests,      \* requests a tab can have in flight
    Tab,           \* the tab of a request
    AccessTTL, RefreshTTL,
    Deadline,      \* what a handler may take from reading the user to signing
    Account0,      \* the user table at the start
    MaxTokens, MaxAge,   \* bounds of the model
    None

Tokens == 1..MaxTokens
Stores == {Storage[t] : t \in Tabs}
Account == [role: Roles, open: BOOLEAN]

ASSUME AuthAssumption ==
    /\ Admin \in Roles
    /\ IsFiniteSet(Requests) /\ Tab \in [Requests -> Tabs]
    /\ Account0 \in [Users -> Account]
    /\ AccessTTL \in Nat \ {0} /\ RefreshTTL \in Nat \ {0} /\ Deadline \in Nat
    /\ MaxTokens \in Nat /\ MaxAge \in Nat /\ MaxAge >= AccessTTL + Deadline
    /\ None \notin Users \cup Roles \cup [user: Users, role: Roles, left: Nat]

VARIABLES
    account,   \* novel_user: role and status of a user
    since,     \* ticks since a user was last admitted with a role
    redis,     \* refresh:<token> -> its user and the ticks it has left
    parent,    \* the token a refresh token was exchanged for, 0 after a login
    spent,     \* refresh tokens that GETDEL has consumed
    used,      \* refresh tokens issued so far
    memory,    \* per tab: its tokens
    stored,    \* per storage: the tokens kept in shared_preferences
    restored,  \* refresh tokens that an opening tab took from a storage
    call       \* the requests: the access token they carry or are given, at
               \* "read" the user's row with the ticks left to sign it

vars == <<account, since, redis, parent, spent, used, memory, stored, restored, call>>
users == <<account, since>>
server == <<redis, parent, spent, used>>
client == <<memory, stored, restored>>

Access == [user: Users, role: Roles, left: Nat]
Session == [access: Access \cup {None}, refresh: 0..MaxTokens]
LoggedOut == [access |-> None, refresh |-> 0]
Key == [user: Users, left: Nat]
Call == [at: {"idle", "sent", "joined", "login", "refresh", "consumed", "read",
              "signed", "refused"},
         awaited: BOOLEAN, old: 0..MaxTokens, new: 0..MaxTokens,
         user: Users \cup {None}, access: Access \cup {None}]
NoCall == [at |-> "idle", awaited |-> FALSE, old |-> 0, new |-> 0,
           user |-> None, access |-> None]

TypeOK ==
    /\ account \in [Users -> Account]
    /\ since \in [Users -> [Roles -> 0..MaxAge]]
    /\ redis \in [Tokens -> Key \cup {None}]
    /\ parent \in [Tokens -> 0..MaxTokens]
    /\ spent \subseteq Tokens
    /\ used \in 0..MaxTokens
    /\ memory \in [Tabs -> Session]
    /\ stored \in [Stores -> Session]
    /\ restored \subseteq Tokens
    /\ call \in [Requests -> Call]

Admitted(u, r) == account[u].open /\ account[u].role = r

Init ==
    /\ account = Account0
    /\ since = [u \in Users |-> [r \in Roles |-> IF Admitted(u, r) THEN 0 ELSE MaxAge]]
    /\ redis = [n \in Tokens |-> None]
    /\ parent = [n \in Tokens |-> 0]
    /\ spent = {}
    /\ used = 0
    /\ memory = [t \in Tabs |-> LoggedOut]
    /\ stored = [s \in Stores |-> LoggedOut]
    /\ restored = {}
    /\ call = [q \in Requests |-> NoCall]

-----------------------------------------------------------------------------
(* Time. *)

Less(n) == IF n > 0 THEN n - 1 ELSE 0
Older(n) == IF n < MaxAge THEN n + 1 ELSE n

\* What stands in a token that has expired nobody looks at any more.
AnyRole == CHOOSE r \in Roles : TRUE
Fading(a) ==
    IF a = None THEN None
    ELSE [user |-> a.user, role |-> IF a.left > 1 THEN a.role ELSE AnyRole, left |-> Less(a.left)]

\* A handler that has read the user has less time to sign.
Hurrying(a) == [user |-> a.user, role |-> a.role, left |-> Less(a.left)]
Aging(s) == [access |-> Fading(s.access), refresh |-> s.refresh]

\* Mutant: an expired key stays.
KeyLeftPast(k) == IF k = None THEN None ELSE [user |-> k.user, left |-> k.left - 1]

\* A key that expires is gone.
KeyLeft(k) == IF k = None \/ k.left = 1 THEN None ELSE [user |-> k.user, left |-> k.left - 1]

\* A handler that has read the user signs within the deadline: everything in
\* between runs under the request's context or takes no time on this scale.
Tick ==
    /\ \A q \in Requests : call[q].at = "read" => call[q].access.left > 0
    /\ since' = [u \in Users |-> [r \in Roles |-> IF Admitted(u, r) THEN 0 ELSE Older(since[u][r])]]
    /\ redis' = [n \in Tokens |-> KeyLeft(redis[n])]
    /\ memory' = [t \in Tabs |-> Aging(memory[t])]
    /\ stored' = [s \in Stores |-> Aging(stored[s])]
    /\ call' = [q \in Requests |->
         [at |-> call[q].at, awaited |-> call[q].awaited, old |-> call[q].old,
          new |-> call[q].new, user |-> call[q].user,
          access |-> IF call[q].at = "read" THEN Hurrying(call[q].access)
                                            ELSE Fading(call[q].access)]]
    /\ UNCHANGED <<account, parent, spent, used, restored>>

-----------------------------------------------------------------------------
(* The server. *)

\* The handler behind request q goes on to the next step.
Goto(q, step) ==
    [at |-> step, awaited |-> call[q].awaited, old |-> call[q].old, new |-> call[q].new,
     user |-> call[q].user, access |-> call[q].access]

\* Mutant: the refresh token is read, not consumed.
KeyAfterGet(n) == redis[n]

\* GETDEL: of two requests with one token, one gets it.
KeyAfter(n) == None

Consume(q) ==
    LET n == call[q].old
    IN  /\ call[q].at = "refresh"
        /\ redis[n] # None
        /\ redis' = [redis EXCEPT ![n] = KeyAfter(n)]
        /\ spent' = spent \cup {n}
        /\ call' = [call EXCEPT ![q] =
             [at |-> "consumed", awaited |-> call[q].awaited, old |-> n, new |-> 0,
              user |-> redis[n].user, access |-> None]]
        /\ UNCHANGED <<users, parent, used, client>>

ConsumeMiss(q) ==
    /\ call[q].at = "refresh"
    /\ redis[call[q].old] = None
    /\ call' = [call EXCEPT ![q] = Goto(q, "refused")]
    /\ UNCHANGED <<users, server, client>>

\* Mutant: the status is not looked at again.
MayEnterAnyway(q) == TRUE

\* The account is not banned.
MayEnter(q) == account[call[q].user].open

\* Login and Refresh read the user from the primary database.
ReadUser(q) ==
    /\ call[q].at \in {"login", "consumed"}
    /\ MayEnter(q)
    /\ call' = [call EXCEPT ![q] =
         [at |-> "read", awaited |-> call[q].awaited, old |-> call[q].old, new |-> 0,
          user |-> call[q].user,
          access |-> [user |-> call[q].user, role |-> account[call[q].user].role, left |-> Deadline]]]
    /\ UNCHANGED <<users, server, client>>

\* A wrong password, a banned user, an error of Redis or the database, a crash.
ServerRefuses(q) ==
    /\ call[q].at \in {"login", "refresh", "consumed", "read"}
    /\ call' = [call EXCEPT ![q] = Goto(q, "refused")]
    /\ UNCHANGED <<users, server, client>>

\* Mutant: an access token that does not expire while it can be refreshed.
SignedTTLOfRefresh == AccessTTL + RefreshTTL

\* How long an access token is valid, from its signature on.
SignedTTL == AccessTTL

\* Issue: the access token is signed, the refresh token stored in Redis; an
\* error of the SET is not looked at.
Issue(q) ==
    LET n == used + 1
    IN  /\ call[q].at = "read"
        /\ used' = n
        /\ \/ redis' = [redis EXCEPT ![n] = [user |-> call[q].user, left |-> RefreshTTL]]
           \/ UNCHANGED redis
        /\ parent' = [parent EXCEPT ![n] = call[q].old]
        /\ call' = [call EXCEPT ![q] =
             [at |-> "signed", awaited |-> call[q].awaited, old |-> call[q].old, new |-> n,
              user |-> call[q].user,
              access |-> [user |-> call[q].user, role |-> call[q].access.role, left |-> SignedTTL]]]
        /\ UNCHANGED <<users, spent, client>>

-----------------------------------------------------------------------------
(* The administration of users, by whoever holds an admin's token. *)

Wields(a) ==
    \/ a \in Elsewhere
    \/ \E t \in Tabs :
          /\ memory[t].access # None
          /\ memory[t].access.user = a /\ memory[t].access.role = Admin
          /\ memory[t].access.left > 0

SetAccount(u, new) ==
    /\ account' = [account EXCEPT ![u] = new]
    /\ since' = [since EXCEPT ![u] =
         [r \in Roles |-> IF new.open /\ new.role = r THEN 0 ELSE since[u][r]]]
    /\ UNCHANGED <<server, client, call>>

SetUserStatus(a, u, open) ==
    /\ Wields(a) /\ a # u
    /\ account[u].open # open
    /\ SetAccount(u, [role |-> account[u].role, open |-> open])

SetUserRole(a, u, role) ==
    /\ Wields(a) /\ a # u
    /\ account[u].role # role
    /\ SetAccount(u, [role |-> role, open |-> account[u].open])

-----------------------------------------------------------------------------
(* The application. *)

OfTab(q, t) == Tab[q] = t /\ call[q].awaited

\* _refreshing: a refresh of the tab is on its way.
Refreshing(t) ==
    \E q \in Requests :
        OfTab(q, t) /\ call[q].old # 0
        /\ call[q].at \in {"refresh", "consumed", "read", "signed", "refused"}

\* The bound: a token for every request that may still ask for one.
Room == used + Cardinality({q \in Requests : call[q].at # "idle"}) < MaxTokens

\* A tab opens, or is reloaded: nobody waits for its requests any more.
Open(t) ==
    /\ memory' = [memory EXCEPT ![t] = stored[Storage[t]]]
    /\ restored' = restored \cup ({stored[Storage[t]].refresh} \ {0})
    /\ call' = [q \in Requests |->
         IF Tab[q] = t /\ call[q].at # "idle"
         THEN [at |-> call[q].at, awaited |-> FALSE, old |-> call[q].old, new |-> call[q].new,
               user |-> call[q].user, access |-> call[q].access]
         ELSE call[q]]
    /\ UNCHANGED <<users, server, stored>>

\* The two keys of a storage are written one by one, and nobody looks whether
\* a write succeeded or the application was killed before it: each of them has
\* the new value or still the old one.
Written(old, new) ==
    [access: {old.access, new.access}, refresh: {old.refresh, new.refresh}]

\* Every save and every logout goes to memory and, unwatched, to the storage.
Keep(t, session) ==
    /\ memory' = [memory EXCEPT ![t] = session]
    /\ \E kept \in Written(stored[Storage[t]], session) :
          stored' = [stored EXCEPT ![Storage[t]] = kept]
    /\ UNCHANGED restored

Logout(t) ==
    /\ memory[t] # LoggedOut
    /\ Keep(t, LoggedOut)
    /\ UNCHANGED <<users, server, call>>

Login(q, u) ==
    /\ call[q].at = "idle" /\ Room
    /\ call' = [call EXCEPT ![q] =
         [at |-> "login", awaited |-> TRUE, old |-> 0, new |-> 0, user |-> u, access |-> None]]
    /\ UNCHANGED <<users, server, client>>

\* A request with the tab's access token, or without if it has none.
Send(q) ==
    /\ call[q].at = "idle" /\ Room
    /\ call' = [call EXCEPT ![q] =
         [at |-> "sent", awaited |-> TRUE, old |-> 0, new |-> 0, user |-> None,
          access |-> memory[Tab[q]].access]]
    /\ UNCHANGED <<users, server, client>>

Good(a) == a # None /\ a.left > 0

\* The token is good, none is asked for, or there is nothing to refresh with.
Served(q) ==
    /\ call[q].at = "sent" /\ call[q].awaited
    /\ Good(call[q].access) \/ call[q].access = None \/ memory[Tab[q]].refresh = 0
    /\ call' = [call EXCEPT ![q] = NoCall]
    /\ UNCHANGED <<users, server, client>>

\* Mutant: everyone refreshes.
JoinsNobody(q) == FALSE

\* Somebody else of the tab is refreshing already.
Joins(q) == Refreshing(Tab[q])

\* The token has expired or is missing: join the refresh of the tab or start it.
Unauthorized(q) ==
    /\ call[q].at = "sent" /\ call[q].awaited
    /\ ~Good(call[q].access)
    /\ memory[Tab[q]].refresh # 0
    /\ call' = [call EXCEPT ![q] =
         [at |-> IF Joins(q) THEN "joined" ELSE "refresh", awaited |-> TRUE,
          old |-> IF Joins(q) THEN 0 ELSE memory[Tab[q]].refresh, new |-> 0,
          user |-> None, access |-> None]]
    /\ UNCHANGED <<users, server, client>>

\* Mutant: those who joined are not told.
AloneSettled(q) == {q}

\* A request that ends, and with a refresh all that joined it.
Settled(q) ==
    {q} \cup (IF call[q].old = 0 THEN {}
              ELSE {x \in Requests : OfTab(x, Tab[q]) /\ call[x].at = "joined"})

Finish(q) == call' = [x \in Requests |-> IF x \in Settled(q) THEN NoCall ELSE call[x]]

\* _saveSession
Save(q) ==
    /\ call[q].at = "signed" /\ call[q].awaited
    /\ Keep(Tab[q], [access |-> call[q].access, refresh |-> call[q].new])
    /\ Finish(q)
    /\ UNCHANGED <<users, server>>

\* _refreshOrLogout after a failure; a failed login leaves the session alone.
GivesUp(q) ==
    /\ IF call[q].old # 0
       THEN Keep(Tab[q], LoggedOut)
       ELSE UNCHANGED client
    /\ UNCHANGED <<users, server>>

Refused(q) ==
    /\ call[q].at = "refused" /\ call[q].awaited
    /\ GivesUp(q)
    /\ Finish(q)

\* The client sees a timeout; the server may not have seen anything yet.
TimeOut(q) ==
    /\ call[q].at \in {"sent", "login", "refresh", "consumed", "read", "signed", "refused"}
    /\ call[q].awaited
    /\ GivesUp(q)
    /\ call' = [x \in Requests |->
         IF x = q
         THEN [at |-> call[q].at, awaited |-> FALSE, old |-> call[q].old, new |-> call[q].new,
               user |-> call[q].user, access |-> call[q].access]
         ELSE IF x \in Settled(q) THEN NoCall ELSE call[x]]

\* What nobody waits for comes to its end, or never reached the server.
Vanish(q) ==
    /\ call[q].at # "idle" /\ ~call[q].awaited
    /\ call' = [call EXCEPT ![q] = NoCall]
    /\ UNCHANGED <<users, server, client>>

-----------------------------------------------------------------------------
Handler(q) ==
    \/ Consume(q) \/ ConsumeMiss(q) \/ ReadUser(q) \/ ServerRefuses(q) \/ Issue(q)

Application(q) ==
    \/ Served(q) \/ Unauthorized(q) \/ Save(q) \/ Refused(q) \/ TimeOut(q) \/ Vanish(q)

Next ==
    \/ Tick
    \/ \E q \in Requests : Handler(q) \/ Application(q) \/ Send(q)
    \/ \E q \in Requests, u \in Users : Login(q, u)
    \/ \E t \in Tabs : Open(t) \/ Logout(t)
    \/ \E a \in Users \cup Elsewhere, u \in Users :
          \/ \E open \in BOOLEAN : SetUserStatus(a, u, open)
          \/ \E role \in Roles : SetUserRole(a, u, role)

Spec == Init /\ [][Next]_vars

-----------------------------------------------------------------------------
(* What must hold. *)

\* The tokens that are about: in memory, in a storage, on their way.
Abroad ==
    {memory[t].access : t \in Tabs} \cup {stored[s].access : s \in Stores}
    \cup {call[q].access : q \in {x \in Requests : call[x].at \in {"sent", "signed"}}}

\* Bans and demotions take effect: a valid access token stands for an admission
\* that was true less than an access lifetime and a handler ago, although
\* nobody can take a token back, logins race with bans, and refresh tokens
\* live much longer.
RevocationIsBounded ==
    \A a \in Abroad : a # None /\ a.left > 0 =>
        since[a.user][a.role] < AccessTTL + Deadline

\* Rotation: a refresh token is exchanged for at most one other, however many
\* requests present it at the same time.
OneHeir ==
    \A n, x \in 1..used : parent[n] = parent[x] /\ parent[n] # 0 => n = x

\* A tab never presents a refresh token that was consumed already, unless it
\* had it from the storage when it opened (another tab of the storage may have
\* used it, or the write of its successor failed): the refresh is made once for
\* all requests that failed together.
NeverTwice ==
    \A q \in Requests : call[q].at = "refresh" /\ call[q].awaited /\ call[q].old \in spent =>
        call[q].old \in restored

\* Whoever joined a refresh has one to wait for: when it succeeds, fails or
\* times out, everybody who joined is told.
NobodyIsForgotten ==
    \A q \in Requests : call[q].at = "joined" /\ call[q].awaited => Refreshing(Tab[q])

=============================================================================

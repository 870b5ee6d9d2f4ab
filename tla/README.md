# Open Novel: formal verification of the backend

Open Novel is a platform for reading novels in many languages: a Go service
(`src/kratos/backend`, on the Kratos framework), Flutter clients (`src/apps`),
MySQL with an optional replica, Redis, an in-process cache and OpenSearch. This
directory models the parts of it whose correctness depends on what happens
*between* two statements: TLA+ modules translated from the code, TLC instances
that check them, and TLAPS proofs of what matters most for every instance.

Paths below are relative to `src/kratos/backend/internal/` unless they begin
with `src/`. `PROJECT.json` has the exact lines of every definition (`map`),
the hazards, the runs, the mutants that show each property can fail, the
findings and the theorems.

## Contents

| file | what it is |
|---|---|
| `VipLedger.tla` | abstract: what the payment subsystem promises about money and VIP time |
| `PlanPricing.tla`, `PlanPricingProofs.tla` | how the table of plans becomes a price list, and a price a plan |
| `Payment.tla`, `MCPayment.tla`, `MCPayment*.cfg` | orders, callbacks, settlement, channel and price administration |
| `PaymentProofs.tla` | atomicity, payment, prices, finality, no dead end, stacking, and that Payment implements VipLedger |
| `Cache.tla`, `MCCache.tla`, `MCCache*.cfg`, `CacheProofs.tla` | the two-level read-through cache: staleness, one load at a time |
| `BookIndex.tla`, `MCBookIndex.tla`, `.cfg`, `BookIndexProofs.tla` | books, their translations and the search index |
| `Chapter.tla`, `MCChapter.tla`, `.cfg`, `ChapterProofs.tla` | a chapter's text from the database through the origin to the CDN's edge |
| `Reader.tla`, `MCReader.tla`, `.cfg` | the reader's page of the client and the reading progress |
| `Auth.tla`, `MCAuth.tla`, `.cfg`, `AuthProofs.tla` | tokens, sessions and the refresh of the client |
| `LikeBoard.tla` | abstract: comments, who likes them and the number that is shown, without transactions |
| `Comment.tla`, `MCComment.tla`, `.cfg`, `CommentProofs.tla` | likes, reports and moderation, and that Comment implements LikeBoard |
| `RateLimiter.tla` | the limiter of a path |
| `Server.tla`, `MCServer.tla`, `.cfg`, `ServerProofs.tla` | the life of the process and its two servers, composed with the limiter |

Run them here with `tlc -config MCPaymentSettle.cfg MCPayment`,
`tlapm PaymentProofs.tla`, and so on.

## Inventory

All components run in one Go process per server; any number of processes share
MySQL, Redis and OpenSearch. A request is a goroutine; handlers interleave at
every database or Redis statement. Nothing serialises them except row locks,
unique keys and single Redis commands. The HTTP server cancels the context of
a request after one second (the default of `src/kratos/transport/http/server.go:182`,
which the backend leaves alone), but much of the code does not pass the
context on. Reads go to a replica unless they carry dbresolver's `Write`
clause; without a configured replica the primary takes its place
(`data/data.go` 76-80).

| component | state | operations | hard behaviour | what makes it correct |
|---|---|---|---|---|
| **VIP payment** `biz/payment.go`, `service/payment.go` | `novel_payment_order`, `novel_vip_order`, `novel_user.vip_expires_at`, `novel_payment_provider`; pages and charges at the channel | CreateOrder, GetOrder (closes after 15 min), Webhook/settle, administration of channels | repeated, late and overlapping callbacks; a transaction that fails half-way; prices that change under an order | settlement is all or nothing, once, paid for, and worth what was sold; whoever paid gets it |
| **plan catalogue, channel routing** `biz/payment.go` | `novel_vip_plan` | effectivePlans, planForAmounts, pickProvider, CreatePlan … | price clashes, fallbacks | one price, one plan; a channel for every language |
| **two-level cache** `data/cache.go` | an L1 per process with an index of keys, Redis entries, a SETNX lock per key | Get, Set, Del, DelPattern, GetOrLoad | loads racing invalidations, lost invalidations, expired contexts, crashes, a lagging replica | bounded staleness, convergence, one load at a time, no lock for ever |
| **users and sessions** `biz/user.go`, `pkg/auth.go`; `src/apps/client/flutter/lib/api/api_client.dart` | `novel_user.role/status`, `refresh:<token>` in Redis; memory and storage of each tab | Login, Refresh, SetUserStatus, SetUserRole; `_refreshOnce`, `_saveSession`, `clearSession`, `init` | an access token cannot be taken back; several requests of a tab fail together; reloads, time-outs | revocation in bounded time; rotation is one to one; one refresh per tab, and everybody who waits is told |
| **comments and likes** `biz/comment.go` | `novel_comment` with counters, `novel_like`, `novel_favorite` | CreateComment, Like/Unlike, Report, SetCommentStatus, HandleCommentReport | two requests of one user, failures between row and counter, decisions on what was read before | counters are exact; only administrators bring a comment back |
| **books and search index** `biz/book.go`, `biz/search.go`, `biz/recommend.go`, `data/es.go` | `novel_book`, translations, the index, cached rankings | CreateBook, UpsertTranslation, SetBookStatus, syncBookIndex, Search, Hot | two syncs in opposite orders; a sync that failed; lists nobody invalidates | the index converges to the database; an offline book disappears |
| **chapters, bookshelf, CDN** `biz/chapter.go`, `biz/cdn.go`, `cdn/` | chapters and texts, progress, shelves; the edge cache | CreateChapter, GetChapterContent, SetChapterStatus, UpdateProgress, purge | an asynchronous purge against a refill; access checked before the text is read, on a replica | what has ended leaves the edge in bounded time and does not come back; one row of progress |
| **translation** `biz/translate.go` | texts per language | TranslateBook, TranslateBookChapters | a loop of slow external calls under a one-second context | what was translated is indexed and, in the end, shown |
| **request middleware** `middleware/` | timestamps per address (`ratelimit.go`) | allow, prune, sweep | clock read before the lock; a map with a key per address | never more than the limit in a minute; a bounded map |
| **client pages** `src/apps/client/flutter/lib/pages/reader_page.dart` | chapter, text and place of the page; calls under way | `_load`, `_goto`, `_saveProgress`, `_restorePosition` | calls that nothing orders; answers for a chapter that was left | the reader finds his place again |
| **administration, reports** `biz/admin.go`, `biz/reports.go` | categories, tags, audit log | single-row updates, SQL aggregates | the check for a cycle or a name before an insert | unique names, a tree |
| **provider adapters** `biz/provider_*.go` | none | checkout, verification of callbacks | cryptography and encodings | only genuine notifications get through |
| **start-up, Kratos' application** `cmd/server`, `src/kratos/app.go`, `src/kratos/transport/` | main goroutine, a serving and a stopping one per server, the errgroup's context | Run, Stop, Start | a signal at any time; a server that is stopped before it serves; handlers that are still running | the process ends, but not before its requests have |
| **identifiers, configuration, the rest of Kratos, generated API** | – | – | – | third-party, generated, or read once |

How they interact: settlement extends the membership that chapter access
looks at (`IsVipActive`); every list and text is read through the cache and
invalidated by the writers of its rows; status changes of books and
translations are copied into the search index after the commit; a token's
role decides who may moderate and administer; the middleware stands before
all of it. The modules compose accordingly: `Payment` implements
`VipLedger` and takes its price lists from `PlanPricing`; `Comment` implements `LikeBoard`; `Server` extends
`RateLimiter`, and every request of its HTTP server goes through it; `Chapter`
uses of `Cache` the bound that `CacheProofs` proves (`CacheBound`); `BookIndex`
and `Chapter` share the administrator who takes a book down, each with its own
half of `SetBookStatus`; `Reader` is the client of the progress that `biz/chapter.go`
keeps; `Auth`'s administrators are the actors of `Comment` and of the
channel administration.

## Modules

### VipLedger and Payment

`VipLedger` has three variables: the orders whose price was *charged*, the
*grant* of each order, the *expiry* of each user. An order is charged, then
settled at most once; the grant lasts at least the days sold from the moment of
settlement. `StackingSpec` adds what the comment of `settle()` promises:
days are added after the time the user still owns.

`Payment` has one variable per table column group (`order` for what INSERT
writes once, `status`, `grant`, `vip`, `provider`), one for what the channel
knows (`sessions`, `charges`), and one record per handler in flight. One action
per database statement:

| code | actions |
|---|---|
| `CreateOrder` | `CreatePick` (channels, `EffectivePlans`), `CreateReuse` / `CreateMiss` (lookup of a pending order), `CreateInsert`, `CreateCheckout`, `CreateFail` |
| `GetOrder`, `maybeClose` | `QueryOverdue`, `QueryClose` (`UPDATE … WHERE status = 0`) |
| `Webhook`, `settle` | `HookAckPaid`, `HookLoad`, `HookClaim` / `HookClaimed` (the conditional UPDATE hits or misses), `HookReadUser`, `HookExtend`, `HookCommit`, `HookCommitUnanswered`, `HookAbort` |
| `CreateProvider` … `DeleteProvider` | `ProviderCreate`, `ProviderToggle` / `ProviderUpdate` then `ProviderWrite`, `ProviderDeleteCheck` then `ProviderDelete` |
| plan administration | `ChangePrices` |
| the channel (external) | `Pay`: an order that was reused may have several pages open and be paid more than once, up to `MaxCharges`; a notification is any charge, any number of times |

Transactions are modelled as InnoDB runs them: an UPDATE takes the row's lock
until commit (`OrderLocked`, `UserLocked`), a plain SELECT takes none even with
dbresolver's `Write` clause, and nothing is visible before `HookCommit`. The
amounts are in cents; `AmountOK` and `CreditDays` are `amountOK` and
`creditDays`. Which channel suits which language is left open: any enabled
channel. The price list is whatever `plansFromRows` makes of one of `Tables`, or the
built-in one when the query fails (`EffectivePlans`), each time one is asked for. Two
charges of one order over the same amount are one charge.

`PlanPricing` has no state: `Filled` puts the built-in plans where USD has no row,
`PlansFromRows` rejects a list with two plans at one price, `PlanFor` is
`planForAmounts`, `PublicPlans` what the page of plans shows, `NoTwin` the check that
CreatePlan and UpdatePlan make before they write.

### Cache

One key seen from all processes: `l1` and `index` per process (ristretto and the
`expires` map of DelPattern), `redis`, `lock`, and the database `row` as a version
number with the `replica` behind it. `age[v]` counts the ticks since loaders
stopped reading version `v`. A request walks through `GetOrLoad`: `ReadL1`,
`Evict`, `GetHit` / `GetMiss`, `IndexL1` and `FillL1` (the backfill), `LockWon` /
`LockLost`, `Load` / `LoadError`, `StoreL1`, `Store` / `StoreLost`, `Unlock` /
`UnlockLost`, `Return`, `Fail`. Writers update the row, then `Del` (`DropL1`,
`DropRedis`) or `DelPattern` (`Scan`, `ClearFound`, `ClearL1`). Time is counted down
by `Tick`; a call to Redis or the database needs a live context, the process's
own memory does not; local steps take no time (`Prompt`). `Crash` loses a
process. Lifetimes are parameters: one tick of the runs stands for the shortest.

### Auth

The server's half: `Consume` / `ConsumeMiss` (GETDEL), `ReadUser`, `Issue` (sign, then
SET, whose error nobody looks at), `ServerRefuses`; the table: `SetUserStatus`,
`SetUserRole`, for whoever `Wields` an administrator's token. The client's half:
`Open` (`init` copies the storage into memory; a reload abandons requests), `Login`,
`Send`, `Served`, `Unauthorized` (start or join `_refreshOnce`), `Save`, `Refused`,
`TimeOut`, `Logout`. A request that nobody waits for any more still runs on the
server, or is lost (`Vanish`). `since[u][r]` counts the ticks since user `u` was last
admitted with role `r`. The role in a token that has expired is forgotten (`AnyRole`), since
`Parse` rejects the token before it looks. Simplified: administrators whose own sessions do not
matter are the set `Elsewhere`; the request that is repeated after a successful
refresh is one more `Send`.

`_saveSession` and `logout` write the two keys of the storage in a future nobody awaits:
in `Keep` memory changes at once and either key of the storage has its new value or still
its old one (`Written`). A reload may therefore find an access token without its refresh
token, tokens of two sessions, or a refresh token that is spent already; the last is
why `NeverTwice` leaves out tokens that came from the storage. A write that lands only
after the tab has been opened again is not modelled: the storage keeps the old value
for good or has the new one at once.

### Comment

`LikeComment` and `UnlikeComment` are transactions of two statements: the like row
behind its unique key (`LikeWrite`), the counter (`LikeCount`), the commit
(`LikeCommit`) or a rollback (`LikeAbort`), with the locks of both rows.
`ReportComment` and `SetCommentStatus` are single UPDATEs, `HandleCommentReport` a
read (`HandleRead`, perhaps from the replica) and an UPDATE by id (`HandleWrite`). The
replica catches up with the current status in one jump: every read sees a status
the comment had, but two reads see two old ones only if it caught up in between.

`LikeBoard` is what readers are promised: a like and its count are one step, a
report asks for a decision on a comment that is up, and only a decision takes a
comment down or brings it back. Under the mapping (`Statuses`, `Fans`, `Counts` at the end of
`Comment`) a transaction shows at its commit.

### BookIndex

`book` is the row with its translations on the primary, `replica` what a replica
shows, `index` the documents, `edit` the handlers of CreateBook, UpsertTranslation,
TranslateBook (with DeepL's answer: `Translated`, `Refused`, `WriteText`) and
SetBookStatus. After its commit each runs `syncBookIndex`: `SyncBook` and `SyncTexts` read
row and translations from the primary one after the other, `Upsert` is the PUT of the
whole document when the engine takes it, `SyncFails` whatever goes wrong, which is
only logged. `EnsureIndex` is `esSearch` creating a lost index anew. Two auxiliary
sets say when the index may be wrong: `stale` has the handlers whose book was
written after they began to read it, `unsound` the books of which a stale document
came last, a synchronisation failed or the document was lost, with no fresh document
since. No other excuse exists, and that is what `InSync` claims.

### Chapter

One chapter in one language. Three things may end: the chapter's being up, the book's
being up, the text (`TranslateBookChapters` replaces it). `valid` is what has not
ended on the primary, `shown` what the replica says, `since` how long ago each ended.
A request reads the chapter (`GetChapterContent`), the book (`ReadBook`), the text
through the cache (`LoadText`, at most `CacheBound` behind what a load would read), and
its `Answer` fills the edge for `EdgeTTL` unless it is `no-store`. `SetChapterStatus`
starts a purge, a goroutine with two attempts (`PurgeOne`, `PurgeFails`);
`SetBookStatus` and `TranslateBookChapters` start none. VIP is a constant, since
nothing in the code writes the column. The comment at `cdn/cdn.go:49` speaks of an hour at
worst, which is the edge's lifetime alone; the bound checked and proved here adds how
old the answer may be that fills the edge: the request, the lag and, for a text, the cache.

### RateLimiter and Server

`RateLimiter` has the clock, the noted readings per address and the requests:
`Stamp` reads the clock, `Allow` is the critical section with `Prune`, `Room` and `Sweep`,
and `Tick` lets a request wait `Delay` for the mutex at most. `ratelimit.go:3` speaks of a
fixed window; the code, and the model, have a sliding one.

`Server` is `kratos.App`: the main goroutine (`Notify`, `Return`), the signal (`Signal`,
`AppStop`), and for each server the goroutine that serves (`Begin`, `Serve`, `ServeFails`,
`ServeEnds`) and the one that stops it (`Stop`, `StopEnds`). The context of the errgroup is
`cancelled` by App.Stop and by the first error. `Enter` is an accepted connection, `Ask`,
`Decide` and `Leave` run its request through the limiter, the first of them perhaps after
the server was told to stop; gRPC has no limiter. A signal before
`signal.Notify` kills the process.

### Reader

The page's `chapter`, `text`, `covered` (the lock or the error in the text's place), `place`,
and the calls under way; the rows of progress and which of them are the latest
(`updated_at` counts seconds, so several may be). `Load`, `Open`, `Goto`, `Retry`,
`TurnPage` and `Close` are the user's, `MemberAnswer`, `TextAnswer`, `TextFails` and `Restore`
continue after an await, `GetProgress` and `UpdateProgress` are the backend's
handlers. The module states its types (`TypeOK`); the run checks only `Resumes`.

## What is checked

| run | instance | what it shows |
|---|---|---|
| `payment_settle` | 2 callback workers, 1 device, 2 orders, 2 price lists of one plan (other days), charges exact, one and two cents short, 1 fault, 1 tick | types; an order is paid iff its membership row exists (`PaidIffGranted`); behind every grant there is a covering charge (`NoUnpaidGrant`); success is answered only for paid orders (`AckedIsPaid`); the days are those sold (`GrantHonoursSale`); a pending order is reused (`OnePending`); payment is final (`PaidIsFinal`); Payment implements `VipLedger!Spec` (`LedgerSpec`); no charge is turned away and no transaction waits for ever (`NoDeadEnd`) |
| `payment_live` | 2 workers, 1 order that may be charged twice, the channel's row can be toggled, deleted and created again, 1 fault | every covering charge is activated, also after GetOrder closed the order, unless its channel is deleted (`ChargedIsActivated`) |
| `payment_serial` | 1 worker; an order from before plans were recorded beside a new one, each charged up to twice; 2 plans, whose prices come within a cent of the old order's | one callback at a time *does* stack (`StackingLedger`); an old order is credited only at the exact price of a plan (`LegacyGrantIsPriced`); price and days come from one list (`SoldFromOneList`) |
| `payment_overlap` | 2 workers, 2 orders of one user, no fault | **violates** `DaysStack` |
| `cache_bounds` | 2 processes, 2 readers, one writer with Del and one with DelPattern, a lagging replica, Redis errors, crashes | no answer is older than a request, a Redis lifetime and an L1 lifetime together (`BoundedStaleness`) |
| `cache_fresh` | the same without DelPattern, a lock that outlives the context | one load at a time (`SingleFlight`); caches converge after the last update (`EventuallyFresh`); a lock does not stay (`LockIsFreed`) |
| `auth_sessions` | 1 user, 1 tab, 2 requests at a time, 3 tokens, writes to the storage that fail, administrators elsewhere | `RevocationIsBounded`, `OneHeir`, `NeverTwice`, `NobodyIsForgotten` |
| `comment_likes` | 2 users, 3 handlers, 2 administrators, a lagging replica, 2 reports | the counter is the number of likes (`LikesCounted`), only an administrator brings back what is down (`DownStaysDown`), Comment implements `LikeBoard!Spec` (`BoardSpec`) |
| `search_index` | 1 book, 3 handlers, 2 texts, a lagging replica; any synchronisation may fail, the index may vanish | a quiet book is shown as it is, unless unsound (`InSync`); a fresh document is the truth when it arrives (`FreshRepairs`); a book that stays down disappears from the search (`DownDisappears`) |
| `chapter_edge` | a free chapter, 2 requests, 1 purge; replica, cache and request one tick each, the edge two | what the edge shows ended at most an edge lifetime, a request and a lag ago, for a text the cache's bound more (`EdgeIsBounded`); nothing refills it once replica and old requests are done (`NotRefilled`); it forgets what stays down (`ForgottenAtLast`) |
| `server_life` | an HTTP and a gRPC server, 2 requests, 2 addresses, a limit of 1 in 3 ticks, signals and failing listeners at any time | the limit holds in every window less the wait for the mutex (`WindowHolds`); the map does not keep every address (`MapIsBounded`); Run returns only when no handler runs (`DrainedBeforeExit`), and it does return (`Stops`) |
| `reader_resume` | 1 user, 2 chapters of 2 pages, one VIP, 3 calls at a time | **violates** `Resumes` |

Why these bounds are enough to be interesting. Two workers are the smallest number
that contend for a row, two orders the smallest that contend for a user's expiry;
one tick makes an order overdue because `CloseAfter` is 0; one fault hits every
statement in some behaviour. Two readers in two processes and two writers make
every race of a load with an invalidation; `MaxVersion = 1` has a row that appears
while its absence is cached. Request, Redis and L1 have two ticks each in
`cache_bounds`, so that each of them contributes to the age that is reached (three
ticks of the four that `Bound` allows); ages are counted up to `MaxAge`, one more
than `Bound`. In `auth_sessions` an access token lives for one tick, a handler
for one, a refresh token for two, and the oldest admission behind a valid token
is one tick old, the most that `RevocationIsBounded` allows. Two requests of a tab overlap in a refresh, and three
tokens allow a login, a rotation and a second rotation or login; `Room` gives every
request that may ask for a token one, so the bound never makes the server
refuse. Three likers of two users include two requests of one user. Bounds
appear as `MaxOrders`, `MaxCharges`, `MaxNow`, `MaxFaults`, `MaxRows`, `MaxVersion`, `MaxAge`,
`MaxTokens`, `MaxReports`, `MaxTime`. Three handlers of one book make a stale
document come before or after a fresh one while a third commits, two texts for a mixed document. Each
part of `Chapter`'s bound has a tick of its own, and `since` is counted to one more than
the bound. In `server_life` a reading can be overtaken, a window can pass within `MaxTime`,
and the second address has the map swept (`Cap` is 1). `BookIndex`,
`Chapter` and `Server`'s lifecycle need no bound but the sizes of their sets. Symmetry is used for workers, requests, likers, users
and administrators only in runs without liveness.

Deadlock is checked except in the payment runs and `server_life`: with bounded orders,
ticks and faults and nobody obliged to create an order, the system may really come
to rest, and a process that has ended takes no step.

**Fairness.** `ChargedIsActivated` assumes that the channel delivers the notification of
an order again until it is answered (`server.go` 153-171 answers an error with a
non-2xx status, on which channels repeat) and that a handler that can take its
next statement takes it; users, administrators and the clock are free to do
nothing, and faults are bounded (`MaxFaults`), since no retry survives a database that
always fails. `EventuallyFresh` and `LockIsFreed` assume that time passes and that the
replica catches up; since `Tick` waits for local steps, running processes go on.
No fairness is assumed of readers, writers, Redis or crashes.
`DownDisappears` assumes that a handler that has begun ends, one way or another: its
calls have timeouts (`data/es.go:95`, the context of DeepL). `ForgottenAtLast` assumes
that time passes, requests end and the replica works, and nothing of purges.
`Stops` assumes that goroutines run and handlers end; without a stop timeout
(`app.go:106`; `cmd/server/main.go` sets none) a handler that hangs keeps the process.

Each property of a passing run has a mutant in `PROJECT.json`: a definition of the
model changed as a plausible bug in the code would (written beside it, marked
*Mutant*), which violates it.

## Findings

1. `payment_overlap`: "VIP 激活（可叠加）" (`biz/payment.go:377`). `settle` reads
   `vip_expires_at` with a plain SELECT and writes an absolute end. Two orders of
   one user settled at once both extend the same old value: two payments, one
   extension. Serially the code is right (`payment_serial`).
2. `reader_resume`: "恢复同章节的精确位置" (`reader_page.dart:126`). When the text of a chapter
   has come, `_load` saves the place of a page that was just reset to 0 and then asks
   for the saved one. If the backend handles the two in the order they are sent,
   the place is gone.

## What is proved

TLAPS proves the following for every value of the constants that satisfies the
named assumptions: any number of users, orders, channels, handlers, processes,
tabs and comments, any prices and lifetimes.

| theorem | property | rests on |
|---|---|---|
| `PaymentProofs!TypeCorrect` | `TypeOK` | `PaymentAssumption` |
| `PaymentProofs!SettlementAtomic`, `GrantsArePaid`, `AcksAreSettled`, `SalesAreHonoured` | `PaidIffGranted`, `NoUnpaidGrant`, `AckedIsPaid`, `GrantHonoursSale` | `PaymentAssumption` |
| `PlanPricingProofs!PricesAreUnique`, `PlanForInverts`, `ListedIsSold` | – | `PricingAssumption` |
| `PaymentProofs!OrdersAreSoldFromOneList`, `LegacyGrantsArePriced` | `SoldFromOneList`, `LegacyGrantIsPriced` | `PaymentAssumption`, `PricingAssumption` |
| `PaymentProofs!PendingIsReused` | `OnePending` | the same, and one handler per user at a time (`OneDeviceEach`), no two old orders of one user, channel and price (`LegacyApart`) |
| `PaymentProofs!PendingOrdersAreBounded` | – (`PendingPerHandler`) | the same, finitely many handlers, `LegacyApart`; any number of them of one user |
| `PaymentProofs!NothingIsStuck` | `NoDeadEnd` | `PaymentAssumption`, `PricingAssumption` |
| `PaymentProofs!KeepsStackingLedger`, `DaysStackAlone`, `NoDayIsSoldTwice` | `StackingLedger`, `DaysStack` (of the run that refutes it without the hypothesis), – (`NoDayTwice`) | the same; behaviours in which no two settlements of one user overlap between read and commit (`Alone`) |
| `PaymentProofs!OneWorkerStacks` | `StackingLedger` | the same, and one callback at a time |
| `PaymentProofs!PaymentsAreFinal` | `PaidIsFinal` | the same invariant |
| `PaymentProofs!KeepsLedger` | `LedgerSpec`: `Payment!Spec => VipLedger!Spec` under the mapping at the end of `Payment` | the same invariant |
| `CacheProofs!TypeCorrect`, `StalenessIsBounded` | `TypeOK`, `BoundedStaleness` | `CacheAssumption` |
| `CacheProofs!OneLoadUnlessRobbed` | `SingleFlight` | `LockTTL >= Deadline`; behaviours in which no DelPattern deletes the lock of a load under way (`NobodyRobs`) |
| `CacheProofs!OneLoadAtATime` | `SingleFlight` | `LockTTL >= Deadline`, no pattern that covers the lock (`Pattern = {}`) |
| `BookIndexProofs!TypeCorrect`, `SearchAgrees`, `OnePutRepairs` | `TypeOK`, `InSync`, `FreshRepairs` | `BookIndexAssumption` |
| `ChapterProofs!TypeCorrect`, `EdgeForgetsInTime`, `EdgeIsNotRefilled` | `TypeOK`, `EdgeIsBounded`, `NotRefilled` | `ChapterAssumption` |
| `ServerProofs!ServerLimits`, `LimitIsKept`, `MapStaysBounded`, `RefusalsAreDue` | `WindowHolds`, `MapIsBounded`, – (`RefusedAtLimit`) | `LimiterAssumption` |
| `ServerProofs!TypeCorrect`, `NobodyIsCutOff`, `ShutdownGoesOn` | `TypeOK`, `DrainedBeforeExit`, – (`NoStandstill`) | `LimiterAssumption`, `ServerAssumption` |
| `CommentProofs!TypeCorrect`, `CountersAreExact`, `DownIsFinal` | `TypeOK`, `LikesCounted`, `DownStaysDown` | `CommentAssumption` |
| `CommentProofs!ImplementsBoard` | `BoardSpec`: `Comment!Spec => LikeBoard!Spec` | `CommentAssumption` |
| `AuthProofs!TypeCorrect`, `RevocationTakesEffect` | `TypeOK`, `RevocationIsBounded` | `AuthAssumption` |
| `AuthProofs!RotationIsLinear`, `OneSessionPerLogin`, `OnePresentation`, `JoinersAreTold` | `OneHeir`, – (`OneTokenPerLogin`), `NeverTwice`, `NobodyIsForgotten` | `AuthAssumption` |

**Payment.** `PaidIffGranted` is not inductive: `HookCommit` marks and grants an order,
and nothing in it says that the order was neither. The invariant `IInv` adds why: a
worker past the conditional UPDATE has an order that is still settleable
(`ClaimHolds`), nobody else has claimed it (`OneClaim`), and what the worker carries
is a charge that covers the order (`EventsHold`, `ChargesMatch`), whose row never
changes once it exists (`RowsExist`). `OneClaim` is where the row lock enters. The
refinement needs the invariant in one place, the commit; every other step is a
charge or a stutter, as is a second charge of an order that has been covered. The prices of one list are unique (`PricesAreUnique`), so the plan
of an amount is the plan it was sold as (`PlanForInverts`), whatever two
administrators wrote.

*Stacking.* `DaysStack` is refuted with two settlements of one user (finding 1), so it
cannot be a theorem of `Spec`. What is proved is that nothing else breaks it: as
long as at most one settlement of a user is between its SELECT of `vip_expires_at`
and its COMMIT (`Alone`, a hypothesis on behaviours that constrains neither other
users nor repeated notifications), Payment implements the ledger in which days are
added. What a worker has read is then still what the user owns
(`SeenHolds`), a user owns what each of his grants ends with (`GrantsAreOwned`), and so a
new grant begins where the last one ends: no day is sold twice (`NoDayTwice`). With one worker
`Alone` always holds (`OneWorkerStacks`). A behaviour that violates `Alone` is the one TLC
shows in `payment_overlap`, so the hypothesis cannot be dropped.

*Pending orders.* With one handler per user the lookup decides (`OnePending`). With
several, both may look before either inserts; the invariant that remains counts: the
pending orders of a purchase and the handlers about to insert one are together no
more than the handlers of the user (`RoomLeft`), since whoever inserts found no pending
order, and inserts once.

*No dead end.* `NoDeadEnd` is the safety core of `ChargedIsActivated`. A notification that
covers its order is accepted and worth some days, whatever GetOrder, prices and
channels have done since (`CoveringIsAccepted`, from `ChargesMatch` and the recorded plan);
and the locks are taken in one order, order row before user row, so that the one
who holds a user row waits for nothing, and the membership row it is going to insert
does not exist yet (`SomeoneGoesOn`, from `ClaimHolds`).

**Cache.** A copy of a value is `age` old and has `left` to live. While it lives, the sum
does not grow, since time takes from one what it adds to the other; a loaded
value starts at `Deadline` (the context in which it was loaded), Redis adds
`TTL` (`RedisBounded`), the backfill adds `L1TTL` (`L1Bounded`), less the tick that the
context and the entry in Redis must still have when they are used, and the
requests between them keep it (`HeldBounded`). `LatestIsNew` starts the clock: what loaders read is
not old. No failure or race adds anything. The oldest answers come from an L1
that was filled by the backfill; the cap in `l1Set` does not help there.

One load at a time needs that the lock a load holds is there as long as its context
lives. It can end in three ways: it expires (not before the context, if
`LockTTL >= Deadline`), its holder deletes it (when the load is over), or a DelPattern
whose pattern covers the lock's key does (`Robs`). `OneLoadUnlessRobbed` proves that the last is
the only way two loads come to run, with any patterns, errors and crashes;
`OneLoadAtATime` is the case without such patterns, which the run checks.

**Comment.** `LikesCounted` needs the lock of the like's unique key: from INSERT or DELETE to
the commit no one else writes that pair (`OneWriter`), so what the statement found
is still so when both changes show (`FoundStays`), and the counter moves exactly
with the set of likers. A handler may like only a comment that exists (`Known`).
As a consequence the subtraction never runs at zero, where the unsigned column
would fail before GREATEST could help. For the refinement (`ImplementsBoard`) every
statement but the last is a stutter; a commit is a `Like` or an `Unlike` because what
its statement found is still so (`FoundStays`) and the counter is positive when there is
something to take away; every UPDATE of a status is a `Report` or a `Decide`.

**Auth.** Five invariants, each inductive with those before it. `Shape` has the types
and that the remaining tokens suffice for all requests that may still ask for
one. `Admissions` is a sum again: the ticks since a user was admitted with a role and
what is left of a token with that role are together at most a lifetime and a
handler, so that a token with time left stands for less. `Lineage`: a refresh token is in Redis, or spent by the one refresh that
will be given its heir, or has its heir. `Holding`: a token that was not copied
from a storage (`Fresh`) is in one tab's memory only (`OneHolder`), is being exchanged
by one refresh at most (`OneExchange`, `OneRefresh`), a new one on its way is nowhere
else (`NewIsNew`), a refresh that timed out took its token out of memory
(`Orphaned`), and a spent token still in memory is being exchanged right now
(`GoodOrExchanged`). `AuthAssumption` asks that `MaxAge` reach the bound, so that
the ticks counted in `since` are not cut off below it.
`Logins` looks at whole chains of tokens: a function `root` takes every token to the login
it goes back to, `owner` a login to its user, and of a chain only the last token can be in
Redis or being exchanged (`OneEnd`). A chain has no bound, so its length is not
computed anywhere: the invariant says that such functions exist, and `Issue` extends
them by the new token, at the end of the chain of the one it was exchanged for.

**BookIndex.** A handler that is not stale carries what the book is (`ReadsHold`); one that is
stale has read it before (`StaleRead`); and a book that is not unsound is either in the
index as it is, or somebody who is not stale will put it there (`Promised`). When all
are done only the first is left.

**Chapter.** Ages add up along the way of a text: what the replica shows is at most a lag
old (`LagHolds`), what a request has read at most a lag and the time it has used
(`SeenHold`), what the edge has kept that and the time since (`EntryHolds`). Purges and
invalidations do not enter: they only make it better.

**Server.** The server takes every step of the limiter and none of its own
(`ServerLimits`), so the limiter's invariant `LInv` is proved for the limiter alone: readings
are between their verdict less `Delay` and their verdict (`Clock`), what is noted was
admitted and what is not noted any more is a window old (`Kept`), no address has more
than the limit noted (`Full`). `DrainedBeforeExit` follows the goroutines:
a request is active only at a server that has served and whose stop is not
done. The limiter also refuses nobody without cause (`RefusedAtLimit`): the
admissions that filled the window are the witness of a refusal and stay admitted;
they may have read the clock after the one they keep out, which waited longer for the
mutex. `NoStandstill` is the safety core of `Stops`: if the main goroutine cannot go on, no server's
goroutine and no handler can either only if all have ended, since a signal
that was taken has cancelled the context (`Heard`), and then the main goroutine can.

All these invariants were first checked with TLC as invariants of the instances
above.

**Model-checked only.** Liveness (`ChargedIsActivated`, `EventuallyFresh`, `LockIsFreed`,
`DownDisappears`, `ForgottenAtLast`, `Stops`), which TLAPS cannot handle: of
`ChargedIsActivated` and `Stops` the safety cores `NoDeadEnd` and `NoStandstill` are proved, which say that
the way to the end is never closed, while that it is gone rests on fairness. `TypeOK` of
`Reader`, whose only run is the one that refutes `Resumes`, is not claimed by any run or
proof. The refuted properties are refuted by instances.

**Proved only.** `PendingPerHandler`, `NoDayTwice`, `RefusedAtLimit`, `NoStandstill` of `Server` and
`OneTokenPerLogin` are stated beside their proofs and in no run's configuration; TLC
agreed with each on an instance (`RefusedAtLimit` on the limiter alone with four
requests and a limit of two).

## Not modelled

- Cryptography, encodings and HTTP of the payment channels; passwords. `Webhook`
  starts from a verified notification, a login from a user.
- Of Kratos, registry, selectors, encodings and clients, which the backend does not
  use or which keep nothing; generated code; configuration; pages and widgets other
  than the reader's page.
- Of the cache's loaders, the one of chapter texts (`biz/chapter.go:181-184`), which takes every
  error of the database for a text that does not exist: such an answer stays for the
  marker's lifetime and is never on the edge, since `GetChapterContent` answers it with
  an error. In `Cache` a loader that fails caches nothing.
- Administration of categories and tags, the audit log, reports: single-row
  statements or aggregates in SQL.
- Bookshelf, favourites, profiles, listings: single statements behind a unique key.
- The rankings and `search:hot`, which nobody invalidates: the code promises nothing
  about them but the cache's lifetime.
- Choice of the channel by language and region (`matchLangRegion`, `pickProvider`): pure
  functions whose result `Payment` leaves open.
- The configuration of a channel, of which `Payment` keeps only whether notifications can
  be verified.

## Plan

What is left, in order of what it would protect:

1. Sharper statements about what the models reach and no property forbids: a
   checkout page for an order that was paid after it was found; GetOrder answering *closed*
   for an order that was paid meanwhile; an eviction between `IndexL1` and `StoreL1` that leaves an entry
   DelPattern cannot see; a logout overtaken by the answer of a refresh; a moderator's
   decision on a report that was decided meanwhile; the text of a chapter that was
   left, shown under the title of the next.
2. Compositions: `Auth` with `Comment` (a decision counts only from a valid
   administrator's token), `Payment` with `Chapter` (who paid can read), `Cache` with
   `BookIndex` for the rankings.
3. Theorems: the safety cores of the other liveness properties, as `NoDeadEnd` and
   `NoStandstill` are of theirs (a lock that nobody renews, a purge that nobody undoes); an abstract
   specification of the rotation that `Auth` implements, of which `Logins` is the mapping;
   the types of `Reader`.

# A TLA+ verification of the go-splitfi backend

This directory holds TLA+ models of the go-splitfi backend (`src/`), the TLC
configurations that check them on small instances, and TLAPS proofs of theorems
about them.  `PROJECT.json` is the index: components, runs, mutants, the map from
definitions to source lines, findings, hazards and theorems.

## 1. The system and its parts

go-splitfi serves a GraphQL API over Postgres, Redis, Google Cloud Tasks and
Pub/Sub.  The processes are the API server (`server/`), the emails service
(`emails/`), the token processing service (`tokenprocessing/`), the streamer
(`streamer/`) and the admin server (`admin/`).  They share the database and Redis
and talk through tasks (at-least-once HTTP calls) and Pub/Sub messages.

| Part | State it keeps | What is hard about it | Module |
|---|---|---|---|
| Batcher (`util/batch`), behind every dataloader | numbered batches, result cache, subscribers | lock-free batch ID, timeout against filling, index alignment | `Batcher` |
| Sessions (`service/auth`) | session rows, forced-refresh times in Redis, roles, cookies | tokens outlive the state they were issued from; checks and writes are separate calls | `Session` |
| Login credentials (`service/auth`) | nonce rows, Redis set-if-absent keys | double use, expiry, clocks | `LoginTokens` |
| Users and wallets (`service/user`, `persist/postgres/user.go`, `publicapi/user.go`) | user and wallet rows, wallet arrays, primary wallet | statements without a transaction, check-then-act | `Users` |
| Chain addresses (`persist/wallet.go`, `token.go`) | keys of accounts | casing folded at several places, fields set one at a time | `ChainAddresses` |
| Migrations (`db/migrate.go`) | schema version, dirty flag | two roles, streaks of files, runs that stop half-way | `Migrations` |
| Rate limiters (`service/limiters`) | buckets and a lock in Redis, one lock handle per process | the handle is shared by requests, locks expire | `RateLimiter`, `TokenBucket` |
| Caches (`service/redis`) | keys with TTL | slow loads store old values | `LazyCache` |
| Throttle (`service/throttle`) | one Redis key per task | get-then-set, expiry, crashes | `Throttle` |
| Retryer (`util/retry`) | one queue, one worker, a limiter | blocked senders, closing | `Retryer` |
| Events and notifications (`event`, `service/notifications`) | event and notification rows, a lock in Redis | read and write are separate statements, weeks and time zones | `Notifications` |
| Delivery (`service/notifications`, subscription resolvers) | a channel per user, a goroutine per subscription | slow or gone clients, replaced channels | `Subscriptions` |
| Push tokens (`publicapi/user.go`) | token rows | look-up and change are two statements | `PushTokens` |
| Emails (`emails`) | verified and unverified addresses, unsubscriptions, Sendgrid lists, the job's key | stale reads before a write, paging over users, goroutines and channels | `EmailVerification`, `Unsubscriptions`, `Digest`, `DigestMail` |
| Pagination (`publicapi/pagination.go`) | cursors | off by one, direction, ties, rows that change between pages | `Pagination`, `PageRequest`, `PageWalk`, `SharedPage`, `Cursor`, `KeysetWindow` |
| Dataloaders (`graphql/dataloader`) | a cache per loader | loaders prime each other's caches while others write | `Dataloaders` |
| Mutations (`graphql/resolver/handlers.go`) | the PublicAPI on the context | caching is switched off and on around each mutation | `MutationCaching` |
| Reading URIs (`service/rpc`, `rpc/ipfs`, `util`) | goroutines and unbuffered channels | races of sources, timeouts, recursion | `UriReader`, `HeaderRace` |

### What makes each part correct

* **Batcher**: a batch that somebody waits for is submitted exactly once, with at most `maxBatchSize`
  distinct parameters; a caller gets the result fetched for its own parameter; a
  subscriber is primed before callers go on; every call returns.
* **Sessions**: a forced refresh is never undone; a session that was logged out
  neither issues nor keeps alive a token; a token has a row of its user, unless the
  user's creation failed to commit.
* **Login credentials**: a nonce and a one-time token log in one client.
* **Users and wallets**: the primary wallet is on its user's list; a listed wallet
  is live and on one list only; nobody takes a wallet from a registered user; an
  account has one key whichever way a message about it takes.
* **Migrations**: each file runs as the role it is meant for, and success means
  that nothing is left.
* **Limiters, caches, throttle**: only a request's own process can cost it the lock it
  has on a bucket; as long as locks are not outstayed, the bucket behaves as if taken
  from in one step; a cached value is no older than its TTL
  and one computation; no key is held for ever.
* **Notifications**: a viewer is shown once in what the process takes for a week,
  notifications are a day apart, amounts are right; a client gets the notifications of
  its own user, each once; a slow client holds up nobody; only its owner unregisters a device.
* **Emails**: a verified address was confirmed by its user; the record of
  unsubscriptions agrees with Sendgrid; a digest job reaches everybody once.
* **Pagination**: each page is the one the Relay specification asks for, and
  following cursors in either direction visits every row once, while rows come and
  go.
* **Loaders**: answers were true at some time since the request began; a mutation
  sees its own writes.
* **Retryer, URIs**: a call comes back unless the server it waits for never answers, and
  with an error only when no source had the data.

The places where these are at risk are listed, with their lines, under `hazards`
in `PROJECT.json`.

## 2. How the project is organised

Each module models one component and knows no other; `Pagination` holds the
operators that `PageRequest`, `PageWalk` and `SharedPage` use.  Components with
theorems, and the batcher and the sessions, are checked in runs of their own
(`MCBatcher`, `MCSession`).  The other components are instantiated in five modules,
one for each question asked of several of them:

| Module | Instantiates | Question |
|---|---|---|
| `MCRedis` | `LoginTokens`, `RateLimiter` (twice, with `TokenBucket`), `LazyCache` | does what Redis forgets, or holds too long, do harm? |
| `MCDatabase` | `Users`, `ChainAddresses`, `Migrations` | do separate statements keep the tables consistent? |
| `MCMessages` | `Notifications` (twice), `Subscriptions`, `PushTokens`, `EmailVerification`, `Unsubscriptions`, `Digest`, `DigestMail` | do the right people get the right messages? |
| `MCApi` | `PageRequest`, `PageWalk`, `SharedPage`, `Cursor`, `KeysetWindow`, `Dataloaders`, `MutationCaching`, `UriReader` | does a request read what it should? |
| `MCReturns` | `Retryer` (twice), `UriReader`, `HeaderRace`, `Throttle`, `Subscriptions`, `Digest`, `DigestMail` | does everything that waits come back? |

In these, a variable `part` is chosen in `Init` and never changes; the steps of a
behaviour are those of the chosen component, and the variables of the others keep
their initial values.  So a run explores the state spaces of its components side by
side, never their product: in the code they share no state beyond what each module
already includes.  A property conjoins what the components promise about one
question, and the type invariants of the components are conjuncts of these
properties.  `MCBatcher` does the same with two instances of `Batcher`: single loads with
the cache and a subscriber, and lists without them.  These modules declare the constants
of their components, and the cfg gives them values.  Assumptions about constants are definitions of the components and
are assumed by the module that declares the constants.

The proofs follow the same division: `BatcherProofs`, `SessionProofs` and `CursorProofs`
extend their component; `RedisProofs`, `DatabaseProofs`, `MessagesProofs`, `ApiProofs`
and `ReturnsProofs` extend the module of their question.  So what a theorem states for
every value of the constants is the very definition that TLC checks for some, about the
specification of the component that the instance names (`Limiter!Spec => []HolderHasLock`)
or, in `ReturnsProofs`, about that of `MCReturns` itself.  `Cursor` writes its recursion as
recursive functions for their sake.  `ApiProofs` takes the theorem of `CursorProofs` over
to the instance that `MCApi` checks (`CodingIsPacking`).

**Where components do interact**, the interaction is in the component's own module
as the environment's actions: `Prime` in `Batcher` stands for a subscriber in another
loader, and `Dataloaders` has the loaders that prime one another, using of `Batcher`
what is proved and checked there (a call gets a result fetched for its own parameter
after it began); `SharedPage` uses of `Batcher` that calls with one parameter share
one result; `Session` includes the changes of roles by `publicapi`.

**An abstract specification.**  `TokenBucket` says what a rate limiter promises:
every key has a bucket, and an admission takes a token in one step.  `RateLimiter`
reads and writes the bucket in two calls under a lock that expires, with one handle
per process; `ImplementsTokenBucket` is the refinement, with the bucket mapped to
itself and everything else hidden, for a limiter whose locks are not outstayed
(`HoldAssumption`).

## 3. Modules

Every module's variables carry the names of the fields, tables or Redis caches
they stand for, and every action the name of the function or statement.  `map` in
`PROJECT.json` has the lines.

### Batcher (`util/batch/batch.go`)

`Goroutine`s call `DoAll` with up to `MaxParams` parameters (`Do` is a list of
one).  `pc` follows a goroutine through `DoThunk` and `addParamToBatch`: `lookup`
(cache), `readID` (atomic load of `currentBatchID`), `assign` (`LoadOrStore` of the
batch and the atomic increment of `numCallers`), `lock` (the section under `b.mu`:
`FindClosed`, `FindParam` or `AppendParam`), `bump` (compare-and-swap of the ID),
`submit`, `publish`, `close` (`submitBatch`, run by the goroutine that filled the
batch), `advance`, and `wait` (calling the thunks).  `timer` follows
`closeAfterTimeout` of each batch in the same way.  A result is abstracted to the
parameter it is for and the batch that fetched it, so that two fetches of one
parameter differ and a wrong index shows.  `Prime` stands for another loader's
subscriber and may happen at any time.  The increment of `numCallers` is one step
with the `LoadOrStore`, because nothing else tells the two apart.  The batch
function is external: one result and one error per parameter, or, for batchers that
publish nothing, one error for all.

`SubmittedExactlyOnce` is "exactly once" as a safety property.  Not twice: `SubmitOnce`,
one submitter per batch.  Not never: `NeverStranded`, a batch with a parameter that is not
done is open with a sleeping timeout, or somebody is submitting it; and a caller only ever
waits for a batch with a parameter (`AwaitedIsFilled`).

### Session (`service/auth/auth.go`, `service/redis/redis.go`, `publicapi/{auth,user}.go`)

A request (`pc`, `ctx`, `issue`, `force`, `reply`) runs `ContinueSession`, then a
resolver, and ends when its cookies reach the client's `jar` or are lost; two
requests interleave at every Postgres or Redis call.  `sessions` is the table, `users`
are those whose transaction has committed,
`authRefreshCache` the Redis cache of forced-refresh times with their expiry,
`roles` the `user_roles` table.  `lastForced` and `loggedOut` are history.  An
`ErrSessionInvalidated`, a failing statement (`ReadRolesFails`, `UpsertFails`,
`InvalidateFails`, `SetTimeFails`) and a forced refresh each take the path the code
takes.  Assumptions: one clock serves all servers; `Tick` lets at most `Wiggle`
seconds pass between parsing a token and asking Redis, which is what the extra
minute in `ForceAuthTokenRefresh` is for; a failed call has had no effect.

`UpsertSession` is a statement of its own, except in `CreateUser`, where `StartSession`
runs in the transaction that inserts the user.  The row is then written with `txn`
`"open"`, context and cookies are set, and the request is at `commit`: `Commit` makes row
and user visible, `CommitFails` leaves the row `"rolledBack"` while context and cookies
stay, as the code does (user.go:83-98, publicapi/user.go:469-493).  A row that was rolled
back is kept in the model to say so; no statement sees it, and the foreign key refuses a
row for a user who was not created.  `TokensHaveSessions` says what is then true of every
token that a client holds or is sent: its session was started for its user, and the row is
committed if the user exists; if not, the user is one whose creation was rolled back, for
whom nobody can get another token.

### LoginTokens (`service/auth/auth.go`, `service/auth/jwt.go`)

`issued` are the claims of one-time tokens, `consumed` the Redis keys with their
expiry, `nonces` the table.  Server `s` reads the clock `now + Skew[s]`; Postgres
and Redis have `now`.  The assumption `WiggleAssumption` (differences of clocks plus
the longest stall are at most the extra minute) is what the comment beside the key's
expiry says the minute is for.  Signature checks and magic links are external.

### Users (`service/persist/postgres/user.go`, `service/user/user.go`, `publicapi/user.go`)

`users` and `wallets` are the tables.  `AddWalletToUser` and its unchecked admin
variant run `createWalletWithTx` as separate committed statements (`getWallet`,
`getOwner`, `deleteUser`, `deleteWallet`, `insert`), with the unique index on live
wallets in `InsertWallet`/`InsertConflict`; `CreateUser` runs the same statements in
one transaction, whose writes appear at `Commit` and which holds the index entry
until then (`indexFree`).  `RemoveWalletsFromUser` checks first and then removes
wallet by wallet, each under the condition of its statement.  `StatementFails` ends
a request anywhere and keeps what was committed.  Isolation is READ COMMITTED.  An
address stands for an address and its L1 chain, because every chain `L1Chains`
knows maps to one L1 chain.  Email addresses, ENS names and traits are left out.

### ChainAddresses (`service/persist/wallet.go`, `token.go`)

Two messages are followed from the client's text to the key the system uses: the
setters of `ChainAddressInput` and `ChainPubKeyInput` in either order, the folding of
the casing, and a wallet row an earlier message has left.  An address is the account
it names and whether its text has upper case letters.

### Migrations (`db/migrate.go`)

`RunMigrations` is followed step by step with its locals (`curVer`, `ver`,
`superStreak`, the migrator's client), every choice of sudo files and every version
that creates the migrator's role.  Any file may fail and leave the dirty flag, a
process may crash, and `Repair` is the operator's correction.  golang-migrate is
external: a call holds its lock, applies files one by one, goes up or down.

### RateLimiter, TokenBucket (`service/limiters/limiters.go`)

Requests of two processes enter `ForKey` under the mutex of the key, obtain the lock
in Redis, read and write the bucket and release whatever lock the process's handle
holds.  A lock expires after `LockTTL` whether its holder is done or not; a release may
fail and a process may end anywhere.  `MaxHold` bounds the time a request takes, and is no
bound at all when it is as long as the run.  `outstayed` is history: the processes of which
a request was still at a bucket when its lock's time was over, until the process has none
left.  `HolderHasLock` assumes nothing about that time: whoever is at a bucket holds
the lock, unless a request of its own process outstayed one, because its `Unlock` releases
what the shared handle holds by then.  `ImplementsTokenBucket` needs `HoldAssumption`
(`MaxHold < LockTTL`), which nothing in the code sees to: two requests that read the bucket
at once take one token together.  The bucket library and the lock client are external.

### LazyCache (`service/redis/redis.go`)

A value is named by the time the data became what it is, so that the age of what
`Load` returns can be read off.  A computation reads the data at one moment and takes
up to `MaxCalc`, in which others store newer values.

### Throttle (`service/throttle/throttle.go`)

`IsLocked` and `Set` are two Redis calls; the key expires, calls fail and tasks
crash between `Lock` and `Unlock`.

### Retryer (`util/retry/retry.go`)

`sendq` are the senders blocked on the unbuffered channel, oldest first, `worker` the
one goroutine that takes them and asks the limiter, `closer` the function `New`
returns.  Senders go back to the queue after a 429.  `RetryRequestWithRetry`, the loop
without a limiter, is the second half (`LoopNext`); the request and its answer are two
steps (`Ask`, `Answered`), because the answer may never come.  `RetryFunc` is the same loop over
a function.

### Notifications (`event`, `service/notifications`, their statements)

Each `Dispatch` is a goroutine: store the event, obtain the lock for owner and action,
read the owner's notifications of this week, insert a row or add the viewers to the
youngest, release.  A view names its user and may name an external viewer
(`UnauthedViewerIDs`); a row's `viewers` are both.  `Clear` is the owner who has seen them.
With `MayFail` the lock may not be obtained and statements fail, and the code goes on as it
does.  A day has `Day` units of time and the process's zone is `Offset` units ahead of Los
Angeles, or behind.  History: `orderly` are the rows inserted under the lock after a SELECT
that succeeded, `lapsed` says that some handler went on without.

The comments promise a viewer once in a week of Los Angeles.  `ViewerOncePerWeek` says that
and is refuted by a process that is ahead, without a failure (`views_week`).
`GroupedByWindow` is what the code does in any zone, with failures: rows in `orderly` are a
day apart, unless a beginning of a week as the process computes it lies between them,
whatever handlers without the lock do meanwhile; and until a handler has lapsed, a viewer
shows up twice only across such a beginning.

### Subscriptions (`service/notifications`, `schema.resolvers.helpers.go`)

A channel for each user, shared by the user's subscriptions, a forwarding goroutine
for each of them that hands on only if its client is waiting, and a receiver for each
Pub/Sub message that offers it until a timeout and acknowledges it in any case.

### PushTokens (`publicapi/user.go`)

`CreatePushTokenForUser`, `DeletePushTokenByPushToken` and `logout`, statement by
statement; the unique index refuses a second live row for a token.

### EmailVerification, Unsubscriptions (`emails/verify.go`, `subscriptions.go`, `publicapi/user.go`)

A handler reads the row, decides, and writes or calls Sendgrid in later steps; users
change their address, verify, sign up with proved addresses, and tasks list addresses
meanwhile.  `confirmed` is history.  In `Unsubscriptions` a handler starts a goroutine
for each Sendgrid call, writes the whole record as it computed it, and waits; `clean`
is history: no overlap and no failure since record and groups last agreed.

### Digest, DigestMail (`emails/send.go`)

`Digest` pages through the users by (created_at, id) while users appear and disappear,
also below the cursor, and runs a goroutine for each; `throughout` is history: who was
eligible in all queries.  `DigestMail` is the work for one user: a goroutine for each
notification sends its data or its error on unbuffered channels, and the handler stops
early when the mail is full.

### Pagination, PageRequest, PageWalk, SharedPage, Cursor, KeysetWindow (`publicapi/pagination.go`)

A row is the rank of its sort key.  `Pagination` has what one request computes: the
query with its limit (as an int32), `applyCursors`, `pageEdgesFrom`, `pageInfoFrom`.
`PageRequest` compares this with the Relay specification for every table and every
request; `PageWalk` is a client that follows the cursors while rows are inserted and
deleted; `SharedPage` has two resolvers whose loader gives them the same slice, which
is reversed in place, row by row.  `Cursor` packs and unpacks cursors of every kind,
with varints in base 2 in place of 128.  `KeysetWindow` compares the default keys of
every paginator with the keys that rows can have.

### Dataloaders (`graphql/dataloader`, its statements)

The loaders of users, wallets and splits with their keys, statements and subscriptions.
A call looks in its cache, queries, primes the subscribers one by one and stores its own
result; other requests write to the tables meanwhile.  `UpdateByID` asks for a free
username and writes in two statements without a unique index, so two users may have one
name; the loader by username then gets one of the rows (`Answers`).

### MutationCaching (`graphql/resolver/handlers.go`)

The mutations of a request run one after the other; each gets a copy of the PublicAPI
without caching, which is overwritten with a caching one before the fields below it run
concurrently.  Resolvers fail, panic, read and write; other requests write.

### UriReader, HeaderRace (`service/rpc/rpc.go`, `rpc/ipfs/ipfs.go`, `util/helpers.go`)

`UriReader` follows the caller, its worker goroutine, the race of the gateways and the
goroutine that waits for the pool; a send on an unbuffered channel happens together with
its receive, and whoever sends to a call that has returned stays behind.  The recursive
call on data that is itself a URI starts over with `again`; an IPFS API's URI that does
not parse ends it before any gateway is asked (`ParseFails`).  `reader` is where the caller
reads from: `ReadsServer` says that it reads from a server without a timeout, on a live
context.  `HeaderRace` is `firstNonError`: its select evaluates the fetch first, and its
loop counts twice.

## 4. Runs

| Run | Shows | Bounds, and why they are enough |
|---|---|---|
| `batcher` | submission exactly once, publication, size of batches, alignment of answers, freezing of closed batches and cache stability | 3 goroutines, 2 parameters, batch size 2, with the cache, `Prime` and a subscriber: a batch is over-subscribed, one is passed over, a timeout races the filling caller; 2 `DoAll` calls of up to 2 parameters, with whole-batch errors: a call fills a batch with itself, repeats a parameter or spans two batches |
| `batcher_live` | every call returns, with whole-batch errors | 3 single loads (`FairSingleSpec`), no symmetry |
| `session_logout` | logout, and tokens and their rows, with failures, lost responses and a user whose creation fails to commit | 2 requests, 2 sessions, a user who exists or is created, clock to 2: tokens and keys expire within the run |
| `session_force` | a forced refresh is never undone, with changes of roles | 2 requests, clock to 4, `AuthTTL` 2, `Wiggle` 2: a key is dropped while a request that parsed its token earlier is still waiting |
| `redis` | single use of credentials; the limiter's lock and its refinement; staleness | 2 servers one second apart, 2 requests, clock to 6; 3 requests of 2 processes on 2 keys, bucket of 2, once with a lock of 2 and requests of 1, to time 3, for the refinement, and once with a lock of 1 and requests of any length, to time 2: a lock expires while its holder is at the bucket and another process, or another request of its own, obtains it; with crashes and failing releases in both; 2 loaders, TTL 2, clock to 5: a key and a value expire while somebody relies on them |
| `database` | wallets and primary wallets; keys of accounts; migrations | 2 requests, a registered and a universal user, a new one, 4 wallets, failing statements; 2 messages about 2 accounts; 5 files, 3 runs: two streaks with a failure in the first, the second or between |
| `messages` | grouping, delivery, devices, addresses, unsubscriptions, digests | 3 views from a Friday to Sunday in days of two units, by a process one unit ahead of Los Angeles: the week begins twice for it; and 3 with failures in one day; 3 subscriptions of 2 users, 3 messages; 2 calls about 2 devices, 3 rows; 2 users, 2 addresses, 2 handlers; 4 users in pages of 2; 6 notifications for a mail of 3 |
| `api` | pages, walks, cursors, windows, loaders, mutations, reads of URIs | 5 rows and all subsets of them, pages of 0 to 6; walks of up to five pages; 2 resolvers; strings of up to two bytes, numbers of -5..5 (up to four varint bytes in base 2); 3 calls and a write; 3 mutations with 2 fields; 3 gateways |
| `returns` | whoever waits has somebody who will answer; under fairness, everything comes back but who waits for a server that never answers | 3 senders on 2 hosts with one token each, a loop long enough for `MaxWait` to cap it; 3 gateways; 3 fetches; 4 tasks; 2 subscriptions and 2 messages; 3 users in pages of 2; 4 notifications for a mail of 2 |
| `session_roles_now`, `shared_page_backward`, `views_week` | what comments say; TLC refutes each | as above; 4 rows, 2 resolvers; 2 views |

Deadlock is checked in the runs of the sessions.  In the others calls are finite in
number and all really end (goroutines return, jobs finish, tables are full), so a
state without a successor is not an error.

**Symmetry** is used for requests, calls, events, users, addresses and IDs that
nothing distinguishes, in safety runs only.

**Fairness.**  `batcher_live` has weak fairness of each goroutine's steps and of the
timeout goroutines; `MCReturns` states what each component is given.  The Go scheduler
runs every runnable goroutine and timers fire, so a goroutine's own steps and timeouts
are weakly fair; the mutex sections contain no wait.  Database queries and batch functions
return; Pub/Sub delivers; buckets refill; time passes (`Tick`).  The one strong fairness is
the retryer's `Stop`: the worker's `select` chooses among ready cases at random, so a
closing that is ready again and again is served.  Nothing obliges a caller to start, a
client to wait, a task to finish, or a context to end.

A server need not answer: `defaultHTTPClient` has `Timeout: 0` (rpc.go:233), and
`http.DefaultClient` (rpc.go:891) has none.  So there is no fairness on the answers of
services, gateways and HTTP servers, nor on the bodies that the caller reads outside its
`select` (`Headers`, `Copy`, rpc.go:548, 557) when they come from such a client; only the
gateways' clients have a timeout (ipfs.go:89, 167), so that what they send ends.
`RequestsReturn` says what is left, and nobody else can hold up: a call of `DoRetry` or of
the loop comes back unless the service never answers one of its own requests, although one
worker serves all; reading a URI returns, by `retrieveTimeout`, unless the call reads for
ever from a server that stopped sending; the header race returns with the last answer, or
with one good answer whatever the other servers do.

**Mutants.**  Beside the definitions stand operators named `Definition_Change`; each
is a plausible bug, and the run of its property fails when the definition is replaced
by it.

## 5. What the models say against the code

Three disagreements have a run:

1. `issueSessionTokens` reads roles before it stamps the token; a change of roles in
   between, with its forced refresh, leaves a believed token with old roles
   (`session_roles_now`).
2. `paginate` reverses in place the slice it got from a dataloader, which other
   resolvers of the request share: the second field that reads backward with the same
   parameters gets the rows in the wrong order (`shared_page_backward`).  Readers in
   forward direction are not affected (`PageIsRight`).
3. `beginningOfWeek` subtracts the weekday in the process's zone from the date in Los
   Angeles: on a Saturday evening a process that runs in UTC takes that Saturday for the
   beginning of the week, and a viewer of the days before shows up again (`views_week`).

The others came up while modelling.  Each is stated as a definition in its module with
the comment it is taken from, and is refuted there by the actions named (a cfg that
checks it alone shows a short behaviour):

| Definition | What the repository says | What the code does |
|---|---|---|
| `Session.LogoutIsImmediate` | existing tokens "should be refreshed" when a user logs out (auth.go:453) | `mustRefreshAuthToken` compares seconds strictly: a token issued in the second of the logout is believed until it expires.  `LoggedOutStaysOut` is what holds |
| `Session.EndSessionInvalidates` | "EndSession invalidates the current session" (auth.go:569) | a failed `InvalidateSession` is only logged |
| `Users.NoWalletBeforeInsert` | "we know there's no existing wallet in the database" (postgres/user.go:194) | another request may have inserted one; the unique index refuses the second, and `ListedWalletsLive` shows no harm comes of it |
| `Users.UsernamesUnique` | "username not available" (persist/user.go:250) | checked and written in two statements, without a unique index: two users can get one username |
| `Users.CookiesForUsers` | tokens are set after the session is in the database (auth.go:587) | a failed commit of `CreateUser` leaves cookies of a session and a user that do not exist; `Session.TokensHaveSessions` says that these are the only ones |
| `RateLimiter.AtMostTwiceAmount`, which is what holds | "`amount` operations `every` duration" (limiters.go:27) | a full bucket and its refill let nearly twice `amount` pass, and more when requests outstay the lock's second |
| `Retryer.SentWithToken` | the limiter is checked before sending (retry.go:31) | `do` drops the error of waiting (retry.go:107) |
| `Retryer.NoSenderPanics` | "flushing buffered requests" (retry.go:144) | closing `q` makes blocked senders panic |
| `Retryer.SleepAtLeastMin` | "Min amount of time to sleep per iteration" (retry.go:21) | `WaitTime` is 0 in the first iteration |
| `Throttle.NotDoneTwice` | "a task is not being done twice at the same time" (throttle.go:16) | two tasks that both find no key both run, and `Unlock` deletes anybody's key |
| `Notifications.ViewerOncePerWeek` with `MayFail` | "each viewer does does not show up mutliple times in a week" (notifications.go:281) | errors of the lock and of the SELECT are dropped (notifications.go:205, 285), so that two handlers group by what both have read |
| `Notifications.ViewerIsShown` | a view in the window updates the youngest notification (notifications.go:339) | a row inserted without viewers has amount 1, and `UpdateNotification` skips a row that has the new amount already |
| `Notifications.AnnouncementNotifies` | the event "will have notification handlers" (emails/send.go:167) | no handler is registered for it |
| `Unsubscriptions.SettingsAreServed` | "update unsubscriptions" (publicapi/user.go:647) | the client posts to `/unsubscriptions`, the service serves `/subscriptions` |
| `Digest.OneSender` | "notification emails already being sent" (emails/send.go:142) | Get and Set are two calls whose errors are dropped |
| `PageRequest.LimitIsOneMore` | "Limit is intentionally 1 more than requested" (pagination.go:187) | 1 + first is converted to int32, and nothing bounds first |
| `HeaderRace.HeadersReturned` | "returns the headers for the given IPFS hash" (rpc.go:755) | the loop counts twice per answer: of two requests, only the first answer is looked at |
| `Migrations.NeverDown` with two processes | "runs unapplied migrations" (migrate.go:106) | the version is read once; `Migrate(ver - 1)` goes down when another process has gone further |
| `Migrations.ClientInitted` | the assertion "splitfi_migrator client never initted!" (migrate.go:212) | fires when the last streak creates the role |
| `Dataloaders.RepeatableRead` | results are "returned for subsequent calls with the same parameter" (batch.go:51) | the thunk returns its own result although the cache has another that was primed meanwhile |

Two more need no state machine: registering a push token twice at once ends with the
unique index's error although `CreatePushTokenForUser` "returns the existing push
token" (publicapi/user.go:756), and the resolver of `logout` ignores its argument
`pushTokenToUnregister` (schema.resolvers.go:200), so that the device stays registered.

Further places that are hard to test and have no property, because the property one
would want is one of the above or the repository promises nothing: a slow response that
deletes the cookies of a newer login (auth.go:540); the error for an unproved address,
which dereferences a nil user (user.go:148); the email statements whose errors are only
logged but abort the transaction (postgres/user.go:280); a verified address whose
listing failed and is never tried again (verify.go:107); goroutines and response bodies
left behind by a read that was given up (rpc.go:476); the streamer's answer of 200
before its task exists (streamer/process.go:33).

## 6. Proofs

`BatcherProofs` proves, for all goroutines, parameters and batch sizes, that
`TypeOK`, `SubmitOnce`, `BatchBounded` and `AnswerForOwnParam` are invariants, from
`SizeAssumption`, `FlagAssumption` and `ParamAssumption`.  None is inductive alone.
`IInv` adds: `ProgressInv` (how many thunks and answers a goroutine at each point
has, and that it has a batch), `ThunkInv` (the index in a thunk names the thunk's
parameter in its batch), `SlotInv` (the same for the goroutine that is submitting),
`ResultInv` (results stand at their parameters' indices and only closed batches have
them; what a batch function returned is complete before anyone reads it) and
`CacheInv`.  The argument: parameters of a batch are only appended (`ParamsGrow`), so
an index keeps its meaning (`ThunkForGrows`); the batch function aligns results with
parameters; so whatever a thunk reads is for its parameter.  There is one lemma per
action, and `QuietStep`, `ReturnFrame` and `ResolveStep` are the frames they share.

For `LoginTokens`, `RedisProofs` proves `TypeOK`, `OneTimeTokenOnce` and `NonceOnce` for any
number of servers, requests, tokens and nonces and any lifetimes, from
`TimeAssumption` and `WiggleAssumption`.  The invariant has to say why forgetting is
harmless: a request on its way to `SetNX` parsed its token at most `Stall` ago on a
clock before the expiry (`PendingInv`); a key stays until `Stall` after the expiry on
the slowest clock (`KeyInv`, which is where the extra minute is used); so a used
token is in Redis or too old for any server, and for any request under way
(`SpentInv`).

`SessionProofs` proves `TypeOK` and `ForcedRefreshHolds` for any number of requests,
clients, users and sessions and any lifetimes, from `TTLAssumption`.  `StageInv` says
what a request holds where it is, above all that one about to ask Redis parsed a token
that was valid, at most `Wiggle` ago.  `ForcedInv` says why a key may expire: Redis has
the latest time that was stored for the user, or that time is at least `AuthTTL` plus
`Wiggle` ago, and then every older token had expired before any request now asking
Redis could have parsed it.  The script of `SetTime` keeps this whichever of two
writers comes last (`SetTimeScript`).

Its second part builds on that and proves `TokensHaveSessions` and
`LoggedOutStaysOut`, with `NoneAssumption` in addition.  Its invariant `LInv`: all
cookies that are anywhere are backed by rows, committed or not, and no younger than their
session's logout
or than the time a logout has read and not yet stored (`HeldInv`); a session being
started has no row, one being continued or logged out has (`RowInv`); no two requests
start one session (`StartInv`); a session that was logged out is invalidated and its
user was forced to refresh no earlier (`EndedInv`).  A token of such a session was then
issued no later than the logout, by `HeldInv`, and a believed one no earlier, by
`EndedInv` and `ForcedRefreshHolds`: only the second of the logout is left.  `Dead` takes
a session that was rolled back for ended, because a logout of it finds no row to
invalidate.  `TInv` is about transactions, and assumes of them only that a commit may fail:
nobody but the request that runs it knows of a session whose transaction is open
(`SettledInv`); rows are committed with their users (`UserInv`); and a user who is being
created, with the session, belongs to one request (`CreateInv`).  So a token that has left
the server is of a row that is committed or rolled back, and which of the two is decided by
whether the user exists.

`BatcherProofs` goes on with `PublishedBeforeDone` and the two action properties.
`PublishInv` says of a batch that is done or about to be (`Settled`) that its results are
`Delivered`; submitters fill in results only while the batch is not settled
(`SubmittedIsNotSettled`, from `SubmitOnce`), and no subscriber comes later, since nobody
registers once a call has begun.  `ClosedIsFrozen` needs no more than `IInv`: a closed
batch is only written to by its submitter, whose batch is not done (`BatchFrozen`).
`CacheIsStable` rests on `LoadOrStore` alone.

Last, it proves `SubmittedExactlyOnce`, the safety core of `EveryCallReturns`.
`NeverStranded` is inductive once `IInv` holds.  A batch gets its first parameter and its
timeout in one section under the mutex; whoever closes it, the caller that fills it or the
timeout, submits it; a timeout that finds it closed leaves it to the caller that closed
it; and no step but closing `done` ends a submission.  Each step changes one batch at most, for
which this has to be shown; all others are covered by a frame (`ServedFrame`,
`ServedButOne`).  That a caller waits for no empty batch follows from `ThunkInv`.
What remains to TLC is that the sleeping timeouts and the submitters make their steps.

The other modules of proofs, but for `CursorProofs`, each take the components of one question, as instances
with variables of their own.  Their assumptions are those of the components, except where
one is named here.

`RedisProofs`.  `StalenessBound`: a value about to be stored is the data, or was until less
than its computation ago (`LoadersFresh`); a stored one, until that and its age ago
(`CacheFresh`).  `HolderHasLock` is proved from `LimiterAssumption` alone, with
no bound on how long a request takes.  `HoldInv` says that the lock of a holder expires
`LockTTL` after it was obtained unless its process has outstayed one, and `HandleInv` that a
process's handle is of one of its own requests: so a lock goes early only by a release
through that handle, and only when the process has outstayed.  A crash forgets handle and
requests, and a failing release leaves a lock to its time.  For the refinement
`HoldAssumption` (`MaxHold < LockTTL`) is assumed in addition; then nobody outstays.
`ReadIsCurrent` adds that the bucket a request
has read is still in Redis when it writes; then `SetState` is the abstract `Take` at the
time of the read and every other step a stutter or a tick (`LimiterRefines`).  The second
half of `ImplementsTokenBucket`, `AtMostTwiceAmount`, is about how many requests a window
of length `every` lets through.  `AmountInv` is what makes it inductive: in every window,
the requests that passed since its start and the tokens the bucket still has are paid for
by one full bucket and by the time up to the bucket's last refill (`Paid`).  A refill that
does not fill the bucket adds the same to both sides; one that fills it throws time away
and starts again from a full bucket (`TakePays`).  At a request within the window the last
refill is at most `every` after its start, so that twice the capacity is the bound
(`PaidIsBounded`).  A request that has taken its token but not yet left counts already
(`Pending`), and one about to write has read the clock no earlier than those counted; one
that crashes only makes the sum smaller.

`DatabaseProofs`.  For `Users`, `RequestOK` says what a request may rely on between two
statements: the ID of a user it is creating is nobody's, a wallet it is about to delete
has no owner but the universal user that goes with it, whoever removes wallets is a
member.  It is kept for the requests that do not move because every step stays within
`Frame`: rows never go, nobody becomes universal or ceases to be, members are not deleted,
a live wallet gets no new owner.  `PrimaryIsOwned`, `ListedWalletsLive` and `NotTakenOver`
follow.  For `ChainAddresses`, `MessageOK`: the fields that are set are those that were
sent, and the address of a full object is folded unless it is a public key.  For
`Migrations`, with `OneProcess`: the files up to the version were run by the right roles
(`SchemaOK`), and those between the version and the next stop are of the sort the plan
says (`PlanOK`).  With two processes the version may go down (section 5).

`MessagesProofs`.  `AmountIsViewers` and `GroupedByWindow` hold with failures and in any
zone, from `TimeAssumption` and `NamesAssumption`.  For the second: only the
holder of the lock reads and writes until somebody lapses (`OneWriter`); then what it read
is what is there (`UpToDate`).  With lapsed handlers about, a holder whose SELECT succeeded
still knows every row that others inserted likewise (`KnowsOrderly`), because such rows are
only inserted under the lock it has; rows are in order of their times (`InOrder`).
Delivery: a channel
belongs to one user (`ChannelsOK`) and a message has one holder (`HeldOnce`).  Devices: the
row a call found keeps its user and token (`RowsKept`).  Verification: an address on its
way through a handler was confirmed, whatever the row says by now (`HandlerOK`).
Unsubscriptions: while nothing overlaps or fails, one handler at most is under way and
each group and the record is where it was or where it is going (`OnItsWay`).  Digest: the
job has handled exactly those up to the cursor whom all queries so far would have found
(`JobOK`); the mail counts whom it has heard (`MailInv`).

`ApiProofs`.  Pages and walks are proved for any finite set of rows, from
`PaginationAssumption` and `SizesFit`: the limit of every page fits an int32, which
nothing in the code ensures (`LimitIsOneMore` in section 5).  The list in ascending order
is described by the rank of each row, so that no induction over lists is needed; the
query's window, its limit and the cut of the extra row are then arithmetic on ranks.
`WalkInv`: the cursor is the outermost row seen, and every row that was there throughout
and has not been seen lies beyond it.  `SharedInv`: a slice loaded by a forward request is
what the query returned, because only those that read backward reverse theirs.
`WindowInv` serves the default keys.  Loaders, from `LowerAssumption` (lower-casing twice
is lower-casing once) and `TablesAssumption`: every cached entry is what the loader's own
statement could have answered since the request began (`CachesAreTrue`), and so is what a
call carries (`CallIsTrue`).  Mutations: `MutationChildren` says that the fields under a
mutation read through caching loaders of their own that were empty when it began.  URIs:
a gateway that has ended in an open race has failed (`UriRace`), and whoever reports a
failure comes after all others (`UriFailed`).

`CursorProofs` proves `RoundTrip` for every base, every set of strings and numbers and lists
of any length, from `CursorAssumption`.  What a recursive function computes for every
argument is where induction over data would come in.  The library's induction theorems take
an operator, which the provers cannot instantiate; here the induction is over a set: a set
of numbers that is not empty has a least one (`LeastNat`), so the numbers for which a claim
fails are none if none of them can be least.  With the same argument `RecursiveFunction`
says, for a recursion given by sets and functions alone (a rank that decreases, a step), that
there is a function that solves it; each recursive definition of `Cursor` is put in that form
and has its values by it.  Then one lemma for each type says that reading what was packed,
with anything behind it, returns the value and leaves what was behind (`ValueComesBack`),
and `CursorInv` that what is left in the buffer are the bytes of the fields not yet read.
An error leaves no bytes unread but those of an empty id at the end (`EndsEmpty`): a read of
no bytes at the end of a `bytes.Reader` fails.

`ReturnsProofs` proves `WaitersAreServed`, from the assumptions of `Retryer`, `HeaderRace` and
`DigestMail`: the safety that liveness rests on.  `QueueInv`: nobody is in the queue twice, the
worker is busy with exactly the sender that waits, and a request was sent once for each retry
(`SentOK`).  `LoopInv`: the sleep of a round is a number (2^n is how many subsets `1..n` has)
that `MaxWait` bounds.  `RaceInv`: while the receiver waits nobody was told to leave, so
each request that is gone while the context lives was counted, twice; were all gone, the
loop would have ended.  `CollectInv`: the digest's loop counts the goroutines it has heard.

**Only model-checked.**  `EveryCallReturns` and the temporal properties of `returns`
(`RequestsReturn`, `NeverLockedForever`, `EveryMessageAcked`, `DigestEnds`) are liveness under
fairness, which the provers do not reach.  All other properties of the passing runs have a
theorem.

## 7. Plan

The models are complete along the plan, and so are the proofs of the properties that the
runs check and the provers can reach.  What could still be added: safety of the components
that so far only have liveness, such as that `HeaderRace` returns only headers that were
fetched.

## 8. Not modelled

* **Token processing and streamer.**  At this commit the transfer task has one outcome
  (its statement refers to a name its FROM clause lacks, Postgres refuses it, and the
  handler answers 500); the wallet removal task only logs and the pool webhooks only
  answer.
* **The admin server**: its prepared statements name columns the schema does not have, so
  it panics when it starts.  **One-off commands** (`cmd/`) other than the migrations.
* **Event dispatch to immediate and grouped handlers**: no such handler is registered.
* **Splits**: creating one is a single statement; the resolvers that hide, delete, reorder
  and edit splits are not implemented.
* **Generated code, contract bindings and the code generators** (about half of the
  repository's lines): the SQL and GraphQL they come from is modelled where a component
  uses it.  This is why the mapped share of all lines is small.
* **Conversions without a state**: token ids, URIs, media types, the JSON and database
  forms that nothing uses; query scrubbing, persisted queries, error remapping.
* **Calls to nodes, Arweave, Sendgrid and cloud services**: external, with their
  outcomes as choices where a component depends on them.  Signatures and tokens are taken
  to be sound.
* **The emails package** names fields that the generated code does not have at this
  commit; it is read by its use.
* `boolIDFloatIDPaginator`, which nothing uses, loses the rows with `true` at its default
  key (`Lost` in `KeysetWindow`); the lexical default key of 255 Z is behind every username
  only under a collation that puts upper case after lower case.
* **Start-up, configuration, logging, tracing, Sentry.**

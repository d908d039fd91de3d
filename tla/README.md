# Formal model of slip-slap-slop

A URL shortener in two services. `link-svc` (TypeScript, NestJS) owns accounts,
sessions and links, in PostgreSQL and Redis, and serves `GetLink` over gRPC.
`redirect-svc` (Go, Fiber) answers `GET /:code` with a redirect, from its Redis
cache or by asking `link-svc`. This directory holds TLA+ models of the parts
where steps interleave, fail or go stale, their TLC configurations, and proofs
for TLAPS. All source paths below are relative to `src/`; `PROJECT.json` gives the
lines of code each definition stands for.

## 1. Inventory

| Part | Code | State | Operations | What is hard |
| --- | --- | --- | --- | --- |
| Redirect handler and service | `redirect-svc/internal/delivery/http/handler.go`, `domain/link/service.go` | per request: what it has got so far | `GET /:code`: cache get, gRPC call, cache fill, 301 or 500 | the cache is never invalidated; late fills; ignored errors |
| Redirect cache | `infrastructure/cache/redis.go` | one Redis key with a TTL per code | `Get`, `Set` (`Delete` has no caller) | failures, expiry, Redis restored from a snapshot |
| gRPC client | `infrastructure/grpc/client.go` | a connection | `GetLink` with a 2 s deadline | no answer, late answer |
| Life cycle of redirect-svc | `internal/app/app.go`, `cmd/server/main.go` | the listener, three clients | start, signal, shutdown | two goroutines, the order of closing, requests in flight |
| Links | `link-svc/src/modules/link` | table `links` | create, update, delete, list, `GetLink` | run concurrently with every redirect |
| Sessions | `modules/auth/services/session.service.ts` | a key per session, a key per user with the list of his sessions | create, get, update, destroy, destroy all, list | read-modify-write of the list; two TTLs, or none if the setting is falsy; swallowed errors |
| Redis service | `shared/cache/redis.service.ts` | three connections | get, set, del (+ exists, expire, publish, subscribe without callers) | `get` turns an error into "absent" |
| Authentication | `services/auth.service.ts`, `auth.controller.ts` | accounts and refresh-token rows | register, login, refresh, logout, change password, list sessions | check-then-act over several statements; no transaction around revocation |
| Refresh tokens | `repositories/refresh-token.repository.ts` | table `refresh_tokens` | create, revoke all (`revokeToken`, `deleteExpiredTokens` are not reached) | revoked one at a time |
| Guards, strategies | `modules/auth/guards`, `strategies`, `auth.module.ts` | none | access check | a guard whose strategy no module provides |
| Users, invitations | `modules/user` | table `users` | profile read and update, create in a transaction | unique login and username; connections and transactions that end badly |
| Base repository | `common/repositories`, `common/entities` | none of its own | typed CRUD, pagination (soft deletion and restore without callers) | offset pages under writes; pages ordered by a time that may tie |
| Life cycle of link-svc | `main.ts`, `config/`, `shared/database`, `docker-compose.yml` | settings, one pool of connections, the listeners | start in stages, exit on failure, restart by Docker | PostgreSQL comes and goes during the start and during requests; settings that make no sense |
| Click queue | `infrastructure/queue/redis.go` | a Redis stream | `PublishClick` without a caller | - |
| HTTP plumbing | `common/interceptors`, `common/filters` | none | the layout of answers and errors | what a client learns of further pages |
| Health, Swagger, generated gRPC, logger | - | none | - | - |

How they interact: a browser talks to `redirect-svc` (one goroutine per request);
that one talks to Redis and, over gRPC, to `link-svc`; API clients talk to
`link-svc`, one Node process whose requests interleave at every `await`; `link-svc`
talks to PostgreSQL and to Redis. Nothing tells `redirect-svc` that a link has changed:
time is the only thing that refreshes its cache.

What makes each part correct:
* redirects: bounded staleness, no answer that was never right, no failure caused by
  the cache, every request ends, the process can be stopped;
* sessions: the list names the user's live sessions, a logout deletes them, users do not
  disturb each other, what is forgotten expires if keys have an expiry at all, every call ends;
* authentication: a token or a new password takes proof of the password, one account
  per login, a logout or password change revokes what there was, in both stores;
* registration: connections come back, keys are freed, nobody waits for ever;
* the listing: a client that walks the pages misses or repeats no more than was deleted or
  inserted meanwhile;
* life cycle: a process that cannot serve ends, and one that can ends up serving.

## 2. Modules

| Module | Contents |
| --- | --- |
| `StaleRead` | Abstract specification of the redirect path: a register per link with stale reads |
| `Redirect` | The redirect path: handlers, cache, gRPC call, link operations, Redis, time |
| `RedirectProcess` | Extends `Redirect` with the life cycle of the process |
| `Sessions` | `SessionService` over Redis |
| `Auth` | `AuthService` over PostgreSQL |
| `Account` | Composes `Auth` and `Sessions`: whole requests over both stores |
| `Accounts` | Abstract specification of registration: an account is created at once and once |
| `Registration` | `createWithTransaction` statement by statement, over pool and transactions |
| `LinkProcess` | Extends `Registration` with the start, the end and the restarts of link-svc, and PostgreSQL's |
| `Listing` | `findPaginated` under writes, the interceptor, and a client that walks the pages |
| `MC*` | The instances TLC checks |
| `*Proofs` | Theorems and proofs |

Definitions marked "Mutant" are wrong variants of the definition that follows; each
property is known to fail when one of them takes its place. No specification uses them.

### Redirect

`link[c]` is the row of a code (`Unborn`, a URL, or `Gone`), `cache`/`ttl` the Redis
keys, `saved`/`savedTtl` Redis's last snapshot. A handler is in one of the stages
`get` (cache.Get), `call` (waiting for link-svc), `reply`/`refused` (link-svc has
answered), `set` (cache.Set), `answer`; `url`, `timer` and `status` are its locals and its
result. A reply longer than `GRPC_MAX_MESSAGE_SIZE` is a lost call. `Receive`, `CacheHit`,
`CacheMiss`, `CacheError`, `LinkFound`, `LinkRefused`, `CallLost`, `CallDeadline`, `CacheSet`,
`CacheSetError`, `Answer` follow `Redirect` in service.go and handler.go; `ServeGetLink`,
`CreateLink`, `UpdateLink`, `DeleteLink` follow link.controller.ts.

Modelling decisions:
* The code of a link is a fresh UUID v4, so a code is never used again. The method named
  softDeleteLink deletes the row. A PATCH may store an empty URL, because `originalUrl` is
  only optional in its DTO; an empty cached URL is never a hit.
* `GetLink`'s errors are none of the values the handler compares with, so every error is
  answered 500 (`Fail`).
* One tick is a unit of time in which anything may happen. A request whose stage has
  used up its limit must move before the next tick: `GrpcTimeout` is the context deadline,
  `RedisTimeout` the longest the handler spends on one Redis command, retries included. A
  command given up by its client is taken not to be carried out later.
* Redis may fail or lose time at any command, saves a snapshot at any moment and restarts from
  the last one; keys carry absolute expiry times there, so `savedTtl` runs on.
* `CACHE_TTL` is positive (24 hours by default). With a duration of zero go-redis would store
  keys without an expiry, and a link could be redirected to an old URL for ever.
* A crash of redirect-svc loses every request; Docker starts it again.
* `age` (how long ago a URL was last current, capped just above the bound) and `excuse`
  are read by no action.

### RedirectProcess

`run` is where the goroutine of `Run` is (serving, draining, the closing of the clients,
exit, down), `listens` the state of the listener. It conjoins the handlers' steps with what
they need: a closed cache client can only fail, a closed gRPC client can only lose the call.
Three facts come from Fiber and fasthttp, whose code is not in the repository:
`Shutdown` closes the listener and waits for open connections without a time limit; before
`Listen` it returns at once; and the context a handler gets from `c.Context()` ends when
`Shutdown` begins. go-redis and gRPC give up a command whose context has ended.

### Sessions

One step per awaited Redis command. `owner`, `left` are the session keys (their userId and
remaining lifetime), `list`, `listLeft` the list keys; `call`, `pc`, `held`, `work` are the running
calls. `RedisService.set` uses SETEX when its `ttl` is truthy and a plain SET otherwise, so
`Lifetime` is the setting or, if that is falsy, `Forever`: `AUTH_SESSION_EXPIRATION` has no default,
and the start accepts it unset (undefined), 0 or not a number (NaN), which are all `TTL = 0` here.
(A negative or a fractional setting makes every SETEX fail, a "write" fault.)
The stored array is a set because ids are fresh. `Faults` says what may fail: a "get"
returns nothing (it swallows errors), a "write" (`set`, `del`) throws, one parallel delete
fails while any of the others are still carried out, a "crash" loses every call. A write that
fails after it was carried out needs no case of its own: what follows is what follows a crash
or a later failure. `Serves` says which users' requests a slot runs: it is how an instance
allows or forbids overlapping requests of one user. Login calls `Create` without a session id,
logout calls `Logout`, `GET /auth/sessions` calls `List`; `ById` (get, update, destroy) has no
caller in the repository and is modelled as part of the service. `sure` and `owed` are read by
no guard: the sessions a user was told of and that nothing has refreshed since, and those of
them a logout has to delete.

### Auth

One step per statement. `password` is what an account's hash was made from (hashing and
comparing are equality), `owner`/`revoked` the refresh-token rows. `createWithTransaction`
is one step here (`Registration` takes it apart): it commits or rolls back. The unique index
on the login makes the second of two inserts fail. Requests that need an access token are
enabled when the account has a row (`Authenticated`), since a row is what every login and
registration leaves. `Refresh` is refused by its guard before anything looks at the token. Expiry
of tokens is not modelled (a token's row gets a lifetime in milliseconds from a setting in
seconds; nothing reads it, because no refresh gets that far). A username that is taken is one of
the failures of `StatementFails`.

### Account

Instantiates `Auth` and `Sessions` on disjoint variables and takes their steps apart from the
two where a request goes from PostgreSQL to Redis: `Saved` (login: the token's row, then
`Create`) and `Revoked` (logout: the last token, then `Logout`). `Statement` and `Command` are
the other steps of the two, `Throw` fails a request in its Redis half, `Crash` loses every request
wherever it is. The `get` of sessions does not fail in the instance: a list that cannot
be read is written anew, without the sessions it named.

### Registration and LinkProcess

`row[k]` is the request that committed the row with the key k, `pending[k]` the uncommitted
insert that holds it, where k is a key of one of the two unique indexes of `users`, of the logins or
of the usernames (a username that is not given is the login; it is still a value of its own index).
`queue` and `out` are the waiters and the users of the pool; `pc` is the statement a request
awaits and `next` where it goes on; `Serves` says which logins a slot may register. `Find`,
`Begin`, `Insert`, `Commit`, `Rollback`, `Release`, `SaveToken` follow `AuthService.register` and
`createWithTransaction`, with the failures of each: a `COMMIT` may fail with its row stored,
`ROLLBACK` may fail, and `finally` releases after either. `connect` and `startTransaction` come
before the `try`: a connection that cannot be made was never taken, and `BEGIN` fails only with a
broken connection, which the driver takes out of the pool itself. From pg, TypeORM and PostgreSQL,
whose code is not here: waiters are served in order and without a time limit; an INSERT enters its
keys index by index, login first (`Insert`), username second (`InsertUsername`), waits at each for
an uncommitted insert of the same key, and is refused at either (`InsertRefused`); an error frees
the keys of its transaction at once; the transactions of a dead client keep theirs, under the
login they register, until PostgreSQL notices.

`LinkProcess` adds `run`: settings, database, grpc, redis, http, serving, exited or
stopped, in the order of `bootstrap()` and the modules it starts. `Pass` is a stage that
succeeds or ends the process with code 1. `Number()` does not throw, so a bad number becomes NaN and
only a bad port is noticed, when it is bound; a bad boolean throws while the settings load. An HTTP
port that is not set lets the system choose one. (Without a good DB_PORT the driver uses its
own default.) `RedisService` creates its clients and waits for nothing: it reports
a connection before there is one, and commands fail after three attempts. There are
no shutdown hooks, so `docker stop` is a crash that is not restarted. `DbStops` may come at any
moment, and breaks every connection.

### Listing

A link is `Stamp`ed with the clock of link-svc, then inserted. `ReadRows` is what OFFSET and LIMIT
can cut from the rows in any order that respects the creation times, so equal times are
ordered anew by each query; `CountRows` is the second statement of `findAndCount`, in no transaction
with the first, and is left out by TypeORM when the page is not full. `Transformed`
is `TransformInterceptor`: it looks for `items` and `meta`, which `findPaginated` does not
return, so the whole body becomes `data` and the client works out from `total` whether there is
another page. `isDeleted` is never set, because deletion removes the row. The client asks for
the next page until there is none, asks again when a query failed, and may start anew.

## 3. Runs

| Run | Instance | Checks |
| --- | --- | --- |
| `redirect_safety` | 1 code, URLs u1, u2, empty, 2 requests, TTL 2, both time limits 1, request symmetry; 2.1 million states | types; no redirect older than `MaxAge`; no empty URL from the cache; only excused failures; the inductive invariant of staleness |
| `redirect_refines` | 2 codes, URLs u1, empty, 2 requests, TTL 1; 0.8 million states | `Redirect` implements `StaleRead` |
| `redirect_process` | 1 code, URLs u1, empty, 1 request, TTL 2, fair; 67 thousand states | closing order; shutdowns end; requests end; the cache ends up fresh |
| `account` | 1 user with one slot, 1 password, 4 tokens, 3 sessions, TTL 2, failing writes, crashes, symmetry; 0.2 million states | the list names the sessions the user was told of; a session has a token; a logout finishes both stores |
| `sessions` | 2 users, one slot for the first and one for both, 2 sessions, TTL 1, every operation, every fault, fair; 0.4 million states | types; a request touches only its own user; what no list names expires under a setting that is not falsy; calls end |
| `auth` | 1 login, 2 passwords, 2 tokens, 2 requests, faults; 0.56 million states | revocation, proof of the password, both inductive invariants |
| `listing` | 4 links, 2 per page, clock up to 3, symmetry; 1 million states | how many links a walk misses or repeats |
| `link_process` | 2 logins (one for two of the requests), 1 username, 3 requests, 2 connections, 2 attempts, 8 environments, fair; 88 thousand states | types; the inductive invariant of the pool; one account per login; registrations end; the process ends up serving |
| `redirect_shutdown` | violation | a graceful shutdown fails no request |
| `sessions_race` | violation: 2 slots for one user, a falsy setting, no faults | a logout deletes every session |
| `auth_password` | violation | a password change leaves no token of the old password |
| `listing_ties` | violation: 2 links, 1 per page, clock up to 1 | a walk without writes shows every link |

Why the bounds are enough. Interference in the redirect path is between one request that
fills or reads a key and one that overtakes it, with a write between; two requests and two
URLs (three with the empty one) cover every such order, and the safety properties are
proved for any number. Time limits of 1 and a TTL of 2 make fills, reads, expiry and
snapshots overlap in every order, and `MaxAge` is attained in the instance: with a bound
one smaller TLC finds a violation. The refinement needs two codes, to see one key
answered for another; the empty URL stands beside one other. In `redirect_process` one request
suffices for the temporal properties, since requests never wait for each other; the
closing order with several requests is proved. In `sessions` two slots and two
sessions are what a race on one list takes, and the slot that serves both users makes their
requests overlap too; TTL 1 keeps expiry between any two commands, and types and isolation are
proved for any number. In `account` the requests of the user follow each other, because overlapping
ones break the list (`sessions_race`); three sessions and four tokens allow a logout that failed,
further logins and the logout that has to clean up after all of them, and TTL 2 lets the list and
its sessions expire at different times; its three properties are proved for any number of
users, slots, sessions and tokens. In `listing` four links give two pages and a
half with two per page, so that a row can cross a boundary in either direction and the last page
can be full or not; the clock gives each link a time of its own, and the bounds are proved
for any number of links and any page size. In `link_process` three requests
on two connections make a waiter, a holder of a key and one that waits for it; two of them race for
a login and all three for the username, so that a request can wait for the username with its login
in hand while another waits for that login. Different logins share the pool and the usernames, and
both are shared here; the refinement and the invariants are proved for any number. The usable
environment leaves the HTTP port to the system. Each of the others has one variable more that is
not fine: settings do not influence each other. In `auth` every property concerns one account, two
requests and the tokens they insert; two tokens let one be inserted while the other is being
revoked.

`BareView` drops the auxiliary `age` and `excuse` from the state in the refinement run;
no action and no definition of the refinement reads them. Symmetry is used on
interchangeable requests, links, sessions, passwords and tokens and only in runs without
liveness. Deadlock is not checked where the supply of tokens runs out, in the run of `Auth` that
looks for a violation.

Fairness. `PFairness`: time passes; a handler that can go on does, because the Go scheduler runs
it and every command it awaits has a time limit; so does the goroutine of `Run`, and
`Listen` succeeds or fails. Nothing obliges link-svc to answer, Redis to work, anyone to
send a signal or the container to restart. `Sessions!Fairness`: time passes and every call
goes on, because the event loop resumes it and ioredis answers or fails each command.
`LinkProcess!Fairness`: bootstrap goes on, Docker restarts what exits, a request goes on when its
statement can be answered or its connection is gone, PostgreSQL ends the
transactions of dead clients; and an insert that is woken again and again finds
its key free at some time (strong fairness: PostgreSQL wakes the waiters when a transaction
ends, and with weak fairness alone TLC shows one that rivals overtake for ever). Nothing keeps
PostgreSQL up or the process alive: `KeepsStarting` assumes that both hold from some moment on.

## 4. What the runs show

* A changed or deleted link is redirected to its old URL for at most `MaxAge`: a gRPC
  deadline and a cache write, a TTL, and one more read of the cache. The bound is exact.
* Redis can only slow a redirect down: a failure needs a lost call or a missing link. An empty URL,
  which an update may store, is never served from the cache, where it looks like a missing key: it
  is gone from the answers as soon as the requests that got it from link-svc have ended.
* Sessions are consistent for a user who does one thing at a time, as long as the reads of Redis
  work: whatever writes fail and wherever link-svc dies, the list names what he was told
  of until it is refreshed, and a logout that succeeds finishes what earlier ones left in PostgreSQL
  and in Redis (`account`). A read that fails looks like an absent list, and loses it.
* Overlapping requests break it. In `sessions_race` a logout reads an empty list, a login writes
  the list with its session, and the logout deletes that list; the next logout finds none
  and leaves the session alive. (Two overlapping logins do the same: the second writes back a list
  without the first's session.) So does a listing, which renews the sessions but not the list:
  after the list has expired the sessions live on, unlisted; the properties of `account` leave
  refreshed sessions out for that reason.
* Such a session expires by itself (`OrphansExpire`), as long as nobody calls the unused by-id
  operations and `AUTH_SESSION_EXPIRATION` is not falsy. If it is unset, 0 or not a number, and
  nothing in the start objects, sessions and lists have no expiry, and a session that no list names
  stays in Redis for good. (The settings in `docker/env` set it.)
* Registration, login and password change never act without a password the account had
  meanwhile. A login that began before a password change may leave a token that the
  change does not revoke (`auth_password`).
* `POST /auth/refresh` refuses everybody: `RefreshTokenGuard` asks for the strategy `jwt-refresh`,
  and no module provides `JwtRefreshStrategy` (`Refresh` in `Auth`).
* Registration creates one account per login and says "ok" only to the request that created it;
  one that fails may have created it all the same. Connections always come back and no
  registration waits for ever, because each gives its connection back before it asks for the next,
  and every INSERT takes its two keys in the same order. A taken username is an error of the
  INSERT, since nothing looks it up, and the client gets 500.
* link-svc never stays up without serving: whatever fails in the start ends it, and
  once PostgreSQL stays up and the settings are usable it serves.
* A walk through the pages misses at most as many links as were deleted and repeats at most as many
  as were inserted, if no two were created in the same millisecond. With ties a walk can miss a link
  although nothing was written (`listing_ties`).
* A shutdown cuts the requests it waits for (`redirect_shutdown`): the handler passes on the
  request's context, which the server ends first. It then closes the clients
  only when no request is left, unless the signal precedes `Listen`.

## 5. Proofs

Everything is proved for arbitrary constants under the named assumptions only:
`SentinelAssumption` and `TimeAssumption` (Redirect), `AuthAssumption` (Auth),
`SessionAssumption` (Sessions), `AccountAssumption`, `ListingAssumption`,
`RegistrationAssumption` and `LinkProcessAssumption`. Where a theorem needs more, its statement
says so: `OneAtATime` (no two slots serve the same user, so that a user does one thing at a
time), `ReadsWork` (a `get` does not fail), `NoLoginBetween`, `Untied`. None can be dropped:
`sessions_race` breaks `OneAtATime`, `auth_password` `NoLoginBetween`, `listing_ties` `Untied`;
and a `get` that fails looks like an absent list, so that the next login writes the list with its
own session only (TLC finds this on one user and one slot with `Faults = {"get"}`).

* `RedirectProofs`
  * `TypeCorrect`. The type invariant includes that a stage that holds a URL holds one, and
    that a clock is within its stage's limit, which the staleness proof needs.
  * `StalenessInvariant`, `AnswersAreFresh`. "No answer is older than MaxAge" is not
    inductive: the answer was read from a key, filled by a request, or restored from a
    snapshot. `StalenessInv` bounds the age at each of these stops: in a reply by the time
    the call has run, while filling by the gRPC limit plus the time spent, in a key by age plus
    remaining TTL, in an answer by the age a key can have plus the time spent. A tick adds one to
    an age and to the clock it is bounded by, or takes one from the TTL.
  * `EmptyNeverStale`: a request reaches the answer with an empty URL only from its own cache fill
    (`EmptyByCall`), so `EmptyInv` bounds the URL's age by the gRPC limit and the time spent since,
    without the TTL.
  * `RefusalsAreExcused`, by `ExcuseInv`: a request that has been refused, or whose link is missing
    now, already has its excuse.
  * `RedirectImplementsStaleRead`: `remembered` maps to the URLs of a code in the key, in
    the snapshot and held by requests. Writes map to `Write`, `ServeGetLink` to `Learn`, expiry,
    overwriting and restarts to `Forget`, answers to `Reply`, a crash to `Lose`, the
    rest to stuttering.
* `RedirectProcessProofs`: every step of the process is a step of `Redirect` or
  leaves it alone (`ProcessImplementsRedirect`), so the theorems above hold of the process; and
  `ProcessInvariant`, and `ClosesWhenQuiet` from it.
* `AuthProofs`: `TypeCorrect`; `RevokeInvariant` (a row that was there is revoked or still to
  do) and from it `RevocationComplete`; `ProofInvariant` (a request past its check gave a
  password its account had during the request) and from it `PasswordsProve`.
  `OnlyOvertakenLoginsSurvive` is what remains true of the comment that `auth_password` refutes:
  a change leaves a token of the old password only if a login has passed its check
  and not yet saved its token when the change has read the rows.
* `SessionProofs`
  * `TypeCorrect`, for every setting: under one that is not falsy each key has an expiry and no
    longer to live than the setting, under a falsy one each key stored has none. `Lives`, `Expiry`
    and `Ticking` are the facts about lifetimes it rests on.
  * `UsersAreIsolated`. That a call changes nothing of
    another user depends on the ids it holds, which it read some steps before: the invariant
    `CallInv` says that they are its user's, as is everything in a user's list.
  * `LiveSessionsAreListed` and `LogoutsDelete`, under `OneAtATime` and `ReadsWork`. "The list names
    the live sessions" is not inductive, since a call rewrites the list from what it read several
    commands ago. `OrderInv` says what of it holds in the middle of each call: between reading
    and writing, what was read (`held`) stands for the list; a logout still owes (`owed`)
    what it has not deleted; a session not yet listed is not one its user was told of; the list
    outlives what it names. `sessions_race` shows that it takes `OneAtATime`.
* `AccountProofs` uses the lemmas of `AuthProofs` and `SessionProofs` through INSTANCE.
  * `AccountImplementsSessions`: a step of a whole request is a step of `Sessions` or
    leaves it alone; a crash that finds no call in Redis loses none there.
  * `RevocationComplete`, `PasswordsProve`, `UsersAreIsolated`: what holds of either half alone
    holds of whole requests. `Account` is no refinement of `Auth`: a request that has ended there
    may still fail in Redis. The invariants of `AuthProofs` do not look at how a request ended.
  * `LiveSessionsAreListed` and `LogoutIsComplete`, under `OneAtATime` and `ReadsWork`: with
    `OrderInv`, by `Halves` (a request is in one store at a time, and works for a user its slot
    serves) and `Revoking` (what a logout has not revoked is still to do, and nothing is
    left while it deletes sessions: no other request adds a row to its account).
  * `SessionsAreBacked`, by counting: a step that opens a session has just added a row, and
    sessions and rows keep their owners. It needs no condition.
* `ListingProofs`: `TypesHold`, `WalksMissAtMostDeleted`, `WalksRepeatAtMostInserted`,
  `UntiedQuietWalkShowsAll`. A row's place is its rank, the number of younger rows; without ties no
  two rows share one, a page is the rows whose rank is from `Skip(page)` up to the next page
  (`PageRows`), and a row that comes or goes moves one other row at most over a given rank
  (`RowComes`, `RowGoes`). So the bounds need no induction over pages: `Repeating` says that the
  links shown already that stand at or behind the next page, with those repeated so far, are no more
  than the inserts, and `Missing` that the links not shown that stand before it are no more
  than the deletions; each has a form for the time between the two statements of a page.
  `LastPage` is the arithmetic of `TotalPages`. `listing_ties` shows that it takes `Untied`.
* `RegistrationProofs`: `PoolIsSafe`, by `PoolInv`. That a connection is out only for a
  request that uses it needs `QueueInv` (who is in the queue waits, once, and goes on with a
  statement of his own) for the step that hands one out; that a row is stored only by
  the holder of its key needs `KeyInv`: from its INSERT on a request holds the keys it has
  `Taken`, of either index. `RegistrationImplementsAccounts` then maps a carried-out `COMMIT`,
  answered or not, to `Create`, a crash to `Lose` with the commits PostgreSQL still carries out,
  each end of a request to `Reply`, the rest to stuttering. `ProcessTypes` adds the types of the
  life cycle. A stop of PostgreSQL is a step of its own in all of these.

Only model-checked: liveness (`ShutdownEnds`, `EveryRequestEnds`, `EventuallyFresh`,
`OrphansExpire`, `CallsEnd`, `RegistrationsEnd`, `KeepsStarting`), since reasoning about fairness
is beyond the prover. Every invariant, action property and refinement of the passing runs is
proved, two of those of `Account` on the conditions named above, which its instance meets. Each
inductive invariant was model-checked before it was proved, `OrderInv` with two users, those of
`Account` with two users (seven million states, not all of them), `OldInv` on the instance of
`auth_password` with faults, those of `Listing` on the instance of its run.

## 6. Not modelled

Signatures and expiry of tokens, cookies, validation of DTOs beyond the empty URL, response
layout, logging, health checks, Swagger and generated code: no
state, or none that a property is about. The settings of redirect-svc: defaults for
strings and numbers. The click queue: `sendAnalytics` is empty and
`PublishClick` has no caller. Functions without callers: RedisCache.Delete, logoutFromDevice,
deleteExpiredTokens, publish and subscribe, softDelete and restore, createInvitation,
`UserService.create`. `refreshTokens` cannot be reached. Reading and patching a profile are single
statements on one row. How ioredis, pg and gRPC reconnect: theirs.

## 7. Plan

Done: the redirect path with its abstract specification, its process and their proofs; sessions,
authentication and both together; registration over pool and transactions with its abstract
specification and proofs; the life cycle of link-svc; the listing; the proofs of both together
and of the listing. What could follow:

1. `PATCH /links/:id` as the UPDATE and the SELECT it is: whose values the answer shows when two
   patches and a deletion overlap.
2. `Account` with overlapping requests of one user, against an abstract account that
   knows which sessions a logout may leave.

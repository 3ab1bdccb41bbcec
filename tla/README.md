# A verification project for the NestJS backend template

TLA+ modules, TLC configurations and TLAPS proofs about the program in this
repository: a NestJS service with `auth` (sessions, lockout) and `identity`
(roles, teams, users) as its reference modules, over one Redis and one
PostgreSQL. Paths below are relative to `src/src/` unless they start with
`docs/`, `migrations/` or `scripts/`.

Every handler of the service is asynchronous. Node runs many requests at the
same time and switches between them at every `await`; an `await` is a command to
Redis or a query to PostgreSQL. No service opens a transaction. So what can go
wrong lies *between* the awaits, and the models have one action per command or
query, with other requests' steps, faults and crashes in between.

## 1. Inventory

### Sessions (`modules/auth`, `core/auth`)

| part | state it keeps | operations | modelled in |
|---|---|---|---|
| `AuthService` | none of its own | `login`, `refresh`, `logout`, `revokeAllSessions` | `AuthSession`, `Lockout` |
| `RefreshTokenStore` | Redis `rt:{user}:{family}` = the family's current jti | `issue`, `rotate`, `revoke`, `revokeAllFamilies` | `AuthSession`, `TokenFamily` |
| `SessionEpochStore` | Redis `session:epoch:{user}` | `current`, `revokeAll` | `AuthSession` |
| `AuthGuard` | none; reads `blocked:{jti}` and the epoch | `canActivate` | `AuthSession` |
| lockout | Redis `login:fail:{email}` with a TTL | `assertNotLocked`, `recordFailedAttempt`, `clearFailedAttempts` | `Lockout` |
| `TokenService`, `AuthCookieService` | none; cookies in the browser | sign, verify, set cookies | claims in `AuthSession` and `Identity`, lifetimes in `TokenLifetime` |
| `RedisClient` | see below | raw and `safe*` commands | the commands used |

A login opens a *family* of refresh tokens; each refresh exchanges the current
token of the family for a new one with a compare-and-set script. A token that is
presented after it has been exchanged counts as stolen and kills the family.
Access tokens carry the user's *epoch*; logout puts an access token on a
blocklist, `revokeAllSessions` increments the epoch and deletes all families.

*Hard*: two refreshes with one token; the probe after a lost compare-and-set; a
deletion of the user, a logout or a `revokeAllSessions` during a refresh; SCAN
is no snapshot; Redis failing before or after it applied a command, which the
raw commands report and the `safe*` commands hide; the process dying between two
commands.

*Correct means*: a token is exchanged at most once; a refused family never comes
back; an honest client is never called a thief; logout and `revokeAllSessions`
void what they say; the guard refuses what was voided; without faults a failed
login counter always has its window and concurrent attempts overshoot it only by
their number.

### Identity (`modules/identity`, `lib/access-control`, `common/base`)

| part | state it keeps | operations | modelled in |
|---|---|---|---|
| `RoleService`, `TeamService`, `UserService` | the tables `roles`, `teams`, `users` (soft-deleted rows, partial unique indexes, foreign keys) | create, update, delete of each | `Identity` |
| `BaseRepository`, repositories | the EntityManager of the request | `findOne`, `count`, `save`, `cascadeSoftDeleteAndFlush` | `Identity` |
| `PolicyGuard`, `StaticAccessPolicyProvider` | the code matrix | `can` (Tier 1) | `AccessControl` |
| `ResourcePolicy`, `UserResourcePolicy` | none | `authorize`, `authorizeChangeRole` (Tier 2) | `AccessControl` |
| `UserCredentialAdapter` | none | the identity that becomes a token's claims | `Identity`, `AuthSession`, `Lockout` |
| `UserCreatedHandler` | none | reacts to `USER_CREATED` | `Identity` |
| `TeamRosterReadModel` | none | one aggregate query in Kysely, past the filter of MikroORM | `Identity` |

`auth` reaches users only through the `UserCredentialPort`; the claims of an
access token (user, team, position, role, SUPER) are copied when it is signed and
both tiers decide by them until it expires.

*Hard*: every check (duplicate, parent exists, no children, authorization) is a
query before the write it guards; two requests load the same row and flush
different columns; the actor has been demoted or deleted since his token was
signed; the process stops between the INSERT and the event.

*Correct means*: no two active rows share a name or an email; a user's row is
written only from within his team; writes to one row do not undo each other;
leaders cannot remove each other until none is left, if their tokens are fresh;
a deleted parent keeps children only through a race with their creation.

### Redis client (`lib/redis/redis.client.ts`)

| part | state it keeps | operations | modelled in |
|---|---|---|---|
| lock | one Redis key per lock, with a token and a TTL | `acquireLock`, `acquireRequiredLock`, `safeAcquireLock`, `releaseLock`, `safeReleaseLock` | `RedisLock` |
| main connection | `wasConnected`, `reconnectedCallbacks` | `onModuleInit`, `onModuleDestroy`, `reconnectStrategy`, `onReconnected` | `RedisConnection` |
| subscriber | `subscriber`, `subscriptions` | `subscribe`, `unsubscribe` | `RedisPubSub` |
| pipelines | the commands of a builder | `pipeline`, `safePipeline` and their `exec` | `RedisPipeline` |

Only the key-value commands have callers in the repository; lock, subscriber and
pipelines are offered to what is built from the template.

*Hard*: a TTL that ends before its holder; a reply that the connection took with
it; calls that overlap the first connection; an outage that begins while the
callbacks of the last one run; a pipeline of which a part took effect; a
connection that never comes.

*Correct means*: the lock is exclusive up to its TTL and always comes free;
subscriptions survive reconnections; each reconnection is announced to everyone
registered; `exec` without an error means that everything was executed; attempts
to reconnect have no end and do not come faster and faster.

### The service (`main.ts`, `bootstrap.ts`, `config`, `core`, `common`)

| part | state it keeps | operations | modelled in |
|---|---|---|---|
| settings (`env.schema.ts`, `configs.ts`, `runtime-env.ts`) | `process.env` | `validateEnv`, the namespaces, `loadRuntimeEnv` | `Settings` |
| boot (`main.ts`, `tracing.ts`, `bootstrap.ts`, `database.module.ts`), `run-migrations.ts` | applied migrations, the tracer | the steps from `main` to `listen`; the migration runner | `Boot` |
| origin check, `HttpExceptionFilter`, `LogSanitizer`, `R` | none | answering a request | `Requests` |
| shutdown (`enableShutdownHooks`, `RedisClient.onModuleDestroy`, `OtelShutdownService`), `AuthGuard` and `HealthController` as users of Redis | connections, requests under way | `SIGTERM` and the hooks | `Shutdown` |
| cron jobs (`core/cron`) | `isRunning` | registration, tick | `CronJob` |
| durations (`time.util.ts`), cookies, TTLs | deadlines in token, browser and Redis | sign in, refresh, logout | `TokenLifetime` |
| lists (`base.repository.ts`, the page queries) | none; the client's position | `findPage`, `findPageByCursor`, `bulkSoftDelete` | `Pagination` |

*Hard*: one setting read by several readers with rules of their own; settings
from two sources that weaken each other; a deployment whose migrations run while
it boots; a signal during an outage; a tracer that cannot deliver; ticks that
fall into a run; two parsers of one duration; writes between two pages.

*Correct means*: outside of development the service listens only with settings
and a database that are safe; answers show no details, and in development no
secrets of a body; a signal cuts no request off and the shutdown ends; jobs do not
overlap and are not stopped by an exception; what is kept about a token lasts as
long as the token, up to the time a request takes, and ends; a list read by cursor
misses and repeats nothing.

### Not modelled

Section 6 says why: request validation, rate limiting, mail, storage and session
stubs, logging, Swagger, `scripts/`.

## 2. Modules

`TokenFamily` - what the refresh-token store promises: families are opened once,
at most one token of a family is live, a token that stopped being live never is
again. No Redis, no requests.

`AuthSession` - all of the sessions table above except the lockout. Requests are
interleaved processes; `pc[r]` is the step a request is at and `call[r]` what it
asked for. A request makes at most one refresh token, so tokens are named by the
request that made them, and a family by its login. Each Redis command is one
action with the outcomes "applied and answered", "failed before", "failed after
it was applied". `Thrown` is a failure the request reports, `Swallowed` one that
`safe*` or a `catch` hides; the history variable `degraded` remembers for whom a
failure was hidden. SCAN is two actions: keys present from the first to the
second are found, keys that come in between may be. The history variable
`minted` holds every jti Redis has ever stored. `INSTANCE TokenFamily WITH
Id <- Requests, live <- rt` is the refinement mapping.

`Lockout` - `login` up to `StartLogin` of `AuthSession`: the counter, whether
the key has a TTL, and one action per Redis command. A process that finished an
attempt may make another one, so `Attempts` bounds how many run *at the same
time* and not how many there are.

`AccessControl` - the two tiers as operators: `PolicyGuard`, `Can`,
`Authorize`, `AuthorizeChangeRole`.

`Identity` - the nine operations that write, one action per query, and the
roster as an operator over the tables (`RosterJoin`, `Roster`). The three
tables are one function `rows` from ids to rows; a row made by a request has the
request as its id. `tokens` is the set of claims ever signed: a request may carry
any of them, however old. `snap[r]` is the row in the EntityManager of the
request: `Written` writes the columns that differ from it and only those. The
soft-delete filter of MikroORM also looks at a row's non-null parent. Whether it
hides an active row under a deleted parent depends on the version of the
library, so such a row may be found or missed (`Finds`, `Misses`). Under READ
COMMITTED, PostgreSQL's default, each statement is atomic; the foreign key of an
INSERT takes FOR KEY SHARE on the parent, which the UPDATE of a soft delete does
not conflict with. History variables: `met` (which requests overlapped), `led`
(teams that have had a leader) and `tainted` (teams where SUPER, or somebody who
was no leader there any more, changed a user).

`RedisLock` - one key, any number of takers. A taker is one call of an acquire
method with what follows it, so it stands for its token; `stage` is where it is.
Redis executing a command and the caller learning of it are two actions, and
`Unlink` may come between: a command not yet written waits for the next
connection or is rejected, a reply on its way is lost. `expired` remembers whose
key Redis has dropped: the code has no fencing, so exclusion can only be
promised to holders within their TTL.

`RedisConnection` - the life of the main connection. `retries` and `delay` are
what the strategy is asked and answers; the random part of the delay takes its
two extremes. Runs over the array of callbacks are numbered by the outage they
follow, and several may be under way. node-redis is external: `connect()` goes on
as long as the strategy returns a number.

`RedisPubSub` - calls of `subscribe` and `unsubscribe` that overlap each other,
the opening of the subscriber and its outages. `listeners` is what node-redis
would call; `subscriptions` is the registry the code writes and never reads.

`RedisPipeline` - both adapters: commands are collected, executed one by one,
with the connection ending between any two, and a builder may be executed again.

`Settings` - pure. An environment is a function from keys to text; the tables
give every key of the schema its type, default and limits; `Parsed` is a set with
at most one value, the empty set being an issue. `WrittenBack` is what
ConfigModule does to `process.env`, and `FromNamespace` the second parsing.
`Requests` - pure. A body is the path of keys to one value; the sanitizer shows,
masks or cuts that value. A debug detail says of the URL (with its query), the
body, the stack and the message whether it shows them: the sanitizer looks at
keys, so it masks nothing but the body. `Boot` composes both with the steps of the boot and the
migration runner.

`Shutdown` - a process with its requests and its two connections. `phase` is the
hook that runs. `stranded` is a connection that was quit while it reconnected:
nothing continues it. `CronJob` - executions are slots, which are used again.
`TokenLifetime` - deadlines in seconds; a duration is a number of halves and a
unit, which is enough to tell the two parsers apart. Each await of a login, a
refresh or a logout that starts a TTL or dates a token is a step (`stage`), as
one lifetime starts at several moments: the family key with the SET or the
compare-and-set, each token when it is signed, the cookies with the answer. Time
passes between any two steps, from deadline to deadline or to the second before,
and a request takes at most `Slowest`. `Pagination` - a client that reads a list to
its end, and others who insert and delete; `steady` are the rows that were there
all the time.

`MCAuthSession`, `MCLockout`, `MCIdentity` - instances for TLC. `MCRedis` and
`MCService` instantiate several modules that share no variable: `part`, chosen by
`Init`, says which one runs, and the others stay at rest. A run is then the sum
of the state spaces and not their product; nothing is lost, because the parts do
not act on each other.
`AuthSessionProofs`, `RevocationProofs` (which extends it), `LockoutProofs`,
`IdentityProofs`, `RedisProofs`, `TokenLifetimeProofs`, `PaginationProofs`,
`ProcessProofs` (boot, shutdown and cron jobs) - theorems and proofs.

The mutants are operators next to the definition they mutate, marked as such;
nothing refers to them.

## 3. Runs

| run | cfg | shows |
|---|---|---|
| `sessions` | `AuthSession.cfg` | all invariants of `AuthSession` and the refinement, `FamilySpec` |
| `lockout` | `Lockout.cfg` | invariants and liveness of `Lockout` |
| `platform` | `Identity.cfg` | keys, isolation of teams, orphans, events, the roster |
| `staff` | `Staff.cfg` | leaders and lost updates |
| `redis` | `Redis.cfg` | lock, connection, subscriber, pipelines |
| `service` | `Service.cfg` | boot, requests, shutdown, cron, lifetimes, pages |
| `revocation_is_complete`, `fail_closed_refuses`, `logout_ends_session`, `lock_ends`, `parents_are_active`, `init_ends` | as named | a behaviour of the code that contradicts what the repository says (section 5) |

**sessions.** Four requests of one user, one fault, `FailClosed = TRUE`, requests
symmetric. Four is the least that shows the interesting cases: a login, two
refreshes with the same token, and a third party (a logout, `revokeAllSessions`,
an API call or a retry) between their steps; one fault can hit any command.
Sessions of different users share no keys, so one user suffices; the proofs hold
for any number. With `FailClosed = TRUE` both outcomes of a failed read occur
(the refusal and the hidden one), which include those of `FALSE`.
- `SingleUse`, `RefusedFamilyIsDead`, `ReuseHasRival` - the rotation.
- `NoOrphanFamily` - without faults a family's current token is held by someone.
- `LogoutRevokes`, `RevokeAllVoids`, `RevokedIsRefused` - what was voided is void
  for good, for requests none of whose Redis failures was hidden.
- `FamilySpec` - the refinement of `TokenFamily`.

**lockout.** Three concurrent attempts, a maximum of two, two faults, a lock
duration of 0 or 30 minutes (the schema admits 0; `EXPIRE` with 0 deletes the
key). Attempts repeat for ever, so the counter is bounded by
`OvershootIsBounded` itself and the state space is finite without a constraint.
- `OvershootIsBounded` - what the gap between check and increment costs.
- `WindowIsComing` - without faults every counter has a TTL or is about to.
- `LockEndsWithoutFaults` - without faults a lock always ends.

*Fairness* (`FairSpec`): weak fairness of each attempt's own steps (Node resumes
every handler whose await settled) and of `Lapse` (Redis lets every TTL end).
None for arrivals, which are the clients' choice, nor for faults. `AuthSession`
and `Identity` state no liveness: their requests are finite sequences of steps.

**platform.** Two requests over all nine operations, a SUPER user, a leader, an
empty team and an empty role; role names that differ only in case, as the matrix
folds them. Two requests are what each check-then-write race takes, the rows they
start from being seeded; and `SignIn` may sign tokens before, between and after,
so the claims are of any age. A third request is needed for the leaders only:

**staff.** Three requests of two leaders who change and delete users of their
team, each other included.
- `KeysAreUnique` - the partial unique indexes close every duplicate-check race.
- `TeamsAreIsolated` - who may cause a write to a user's row, however old the token.
- `OrphansComeFromRaces` - the only way to an active row under a deleted parent.
- `EmittedIsCreated` - no event without its row.
- `RosterAgrees` - the hand-written query of the roster and the filtered lists
  tell the same.
- `LeaderRemains` - excluding oneself from deletion and change of position keeps
  a leader in every team, as long as no token is outdated.
- `WritesMerge` - concurrent updates of a row lose nothing and revive nothing.

**redis.** About 224,000 states. Three takers, so that the lock can be granted,
expire, be granted again and be released late while a third one waits; both
kinds of method; any number of lost connections. Two callbacks and two outages:
the least with two runs over the array at once; ten fast retries, so that the
exponential delay reaches its limit of 5000 ms before the slow interval. Three
calls on two channels with two handlers: two that race and one that comes after.
Three commands, executed twice, with the connection going down and coming back
between any two of them or between the executions: the least with something
before, at and after a failure.
- `LockIsExclusive`, `NobodyFreesForAnother`, `LockIsFreed` - the lock. The last
  one needs only that Redis lets TTLs end; no taker has to go on.
- `EveryReconnectionIsAnnounced` - callbacks, and none without an outage.
- `BackoffGrows`, `RedisIsFoundAgain` - the reconnect strategy. The first holds
  as long as the slow interval is not below the fast limit, as in the defaults;
  `REDIS_SLOW_RETRY_INTERVAL` may be 0.
- `SubscriptionsSurvive`, `UnsubscribeIsFinal` - for calls that nothing overlaps;
  overlapping ones are ordered by Redis.
- `PipelineTellsTheTruth` - for `pipeline()`; `safePipeline()` promises nothing.

*Fairness*: weak fairness of the expiry of keys, of the attempts to connect
(a timer fires), of the boot's own steps and of callbacks (they settle). None for
Redis coming back, which `RedisIsFoundAgain` therefore assumes.

**service.** About 787,000 states.
Boot: no `.env`, a developer's, or a deployment's, times every pair out of 21
overrides by the process (weak secrets, equal secrets, booleans written as 0 and
1, empty texts, numbers beyond their limits): two are what it takes for one
setting to undo another. The database is 0 to 2 migrations along. Requests: every
kind of exception, and bodies with a sensitive key above, at and below the depth
at which the sanitizer cuts.
Shutdown: two requests and two outages, so that one can hit the quitting of
either connection after another has been survived. Cron: two slots, as two
executions are one too many. Lifetimes: nine durations for each of the two
settings, among them zero, fractions, weeks, bare numbers and words, each beside fifteen
minutes or a day for the other setting, since no property relates the two; one
session, since sessions share no deadline, with two refreshes. A request takes up
to two seconds (`Slowest`), so that the family, the access token, the refresh
token and the cookies can start at different ones. Pages: up to four rows in
pages of two, three times of creation, so that ties occur; two writes; three
scopes.
- `NamespacesAgree`, `ServesOnlyWhenSafe` - settings and boot.
- `AnswersAreDiscreet` - what a client may see of an error: outside of development
  nothing of URL, body, stack and message; in development no value below a
  sensitive key of the body. URL, query included, and the two texts are shown
  there as they are, and nothing is claimed of them
  (`http-exception.filter.ts:41-44`, `log-sanitizer.ts:19-36`).
- `NobodyIsCutOff`, `ShutdownEnds`, `RequestsAreAnswered` - shutdown. Two
  exceptions are part of the statements because the code does not exclude them:
  a QUIT that is never answered makes a hook throw, upon which NestJS exits with
  requests under way (`aborted`); and a client quit while it reconnects never
  returns, so the process never ends (`Stranded`).
- `JobsNeverOverlap`, `JobsRunAgain` - cron.
- `LifetimesAgree` - a logged-out token is refused until it has expired; a refresh
  token has its cookie until then, and its family until it has at most `Slowest`
  left. The family does end first: its TTL starts before the user and the epoch
  are read and the tokens signed (`auth.service.ts:57-60`, `118-127`). Excluded
  are durations that the parser does not know and that are longer than the seven
  days it takes them for (`Misread`). No key of Redis is kept for longer than
  the lifetime as `parseDurationToSeconds` reads it, with one exception: `REFRESH_TOKEN_EXPIRES_IN=0s` stores families
  without a TTL (`redis.client.ts:144`).
- `PagesAreExact` - by cursor always; by page number only while nothing is
  written and no two rows have the same time, since the order has no tie-break.

*Fairness*: weak fairness of reconnection, of handlers and guards, of the
shutdown hooks (the timer of five seconds included, the tracer's own answer not),
of ticks while the timer is started, and of the end of each run of a job. A job
that never ends is skipped for ever; the code has no timeout, and `JobsRunAgain`
does not claim one.

`CHECK_DEADLOCK FALSE` where requests run once or processes end: when all of them
have ended the system stops. `Lockout` is checked for deadlock.

Every property of a passing run has a mutant, a plausible bug in the definition
it names, under which TLC finds the property violated.

## 4. Proofs

TLAPS proves the theorems below for every value of the constants: any number of
requests, users, rows, attempts, callers, channels and sessions, and any number
of faults. Every invariant of the passing runs is among them, with the
strengthening it needs, and so are the action properties but one and the
refinement. Each of the strengthenings was checked by TLC on the instance of its
run before it was proved.

### Assumptions

| module | assumption | why the code justifies it |
|---|---|---|
| `AuthSession` | `NoneAssumption`: `None` is neither a request nor a user | the absence of a value is no jti and no id |
| | `ConfigAssumption`: types of the two other constants | a boolean of the schema; a bound |
| `Lockout` | `AttemptsAssumption`: finitely many attempts at a time | a process has finitely many requests under way |
| | `EnvAssumption`: the maximum is at least 1 | the schema demands it |
| `Identity` | `NoneAssumption`: `None` is no id, name, position, operation or row | as above |
| | `SeedAssumption`: the tables to begin with obey columns, foreign keys and unique indexes, are finite, and have no active row under a deleted parent | the first three are constraints of the schema; the last is the state the application starts from, whose violation is what `OrphansComeFromRaces` is about |
| `RedisLock` | `FreeAssumption`: no token is the mark of an absent key | tokens are UUIDs |
| `RedisPubSub` | `NoHandlerAssumption`: no handler is the mark of none | a handler is a function |
| `TokenLifetime` | `DurationAssumption`: a duration is a number of halves and a unit | what the two parsers tell apart |
| | `SlowestAssumption`: a request takes at most a number of seconds | it ends some time; the theorems hold for every bound |
| `Boot` | `BuildAssumption`: the build has a number of migrations | they are files |
| `Settings` | `NumeralAssumption`: the text of a number is neither empty nor `true` or `false`, and no two numbers share one | decimal numerals; `ToString` has no meaning to the prover, TLC evaluates it |
| `Pagination` | `PageAssumption`: a page has 1 to 100 rows; `RowsAssumption`: finitely many rows, ids and times are not 0 | the validators of the two page queries; 0 stands for no time |

TLC evaluates each of them in the runs.

### Sessions

`AuthSessionProofs`: `TypeCorrect`, `TokensAreSingleUse`, `RefusalIsFinal`,
`ReuseIsReal` and `ImplementsTokenFamily`, all from `StoreInvariant`.
- None of the three invariants is inductive. That a token is exchanged once
  depends on the live token never having been exchanged (`LiveTokenUnspent`),
  on the new jti being fresh (`MintedByStep`), and on a presented token having
  been stored, in the family it names (`PresentedIsMinted`). That reuse has a
  rival depends on every stored token being current, in a dead family, or
  exchanged (`MintedAccountedFor`), and on the token of a request that lost its
  compare-and-set not being current again (`ProbedIsStale`). `StoreInv` is their
  conjunction with the types.
- The argument has two halves. `StepView` shows that every step of the
  specification is, to the store, one of the few steps of `View` (arrive, issue,
  swap, lose, probe, refuse, serve, or a quiet step that at most deletes
  families). The lemmas `UserStep` ... `RivalStep` show that each step of `View`
  preserves one conjunct. `FamilyStep` maps each to a step or a stutter of
  `TokenFamily`.

`RevocationProofs`: `LogoutIsFinal`, `RevokeAllIsFinal` and `RevokedIsNeverServed`
from `RevocationInvariant`, and `FamiliesHaveOwners`.
- What the runs check speaks of the end of a revocation. The invariant has to say
  at each step what is void *already*: past its first command a logout has the
  access token on the blocklist, past its second the family is dead
  (`LogoutProgress`); past INCR every token that the user had has an old epoch,
  and from SCAN on its family is dead or among the keys found
  (`RevokeAllProgress`); past the blocklist it is the epoch that gives a revoked
  token away (`GuardProgress`). The epoch argument needs that no token carries an
  epoch its user has not reached (`SeenIsPast`), the family argument that a family
  has one user (`FamilyHasOneUser`).
- A revocation is undone by others if at all. So `Kept` collects what *no* step
  takes back: dead families that were stored stay dead (from `StoreInv`: a jti is
  fresh), epochs do not fall, blocklist and `degraded` grow. `NothingTakenBack` proves
  it once; the requests that do not move then need nothing else.
- `FamiliesHaveOwners` holds a state ahead: while nothing has failed, whoever
  stored the current jti of a family is on the steps `Owning`, each of which ends
  in the answer or in the deletion of the family.

`LockoutProofs`: `OvershootBounded`, `WindowAlwaysComing` and `TypesKept` from
`LockoutInvariant`. The bound is not inductive: an attempt between its check and
its increment will add one whatever the counter is by then. `CountInv` counts
those attempts against the bound; a check that passes pays with
`count < MaxAttempts` or with a fault.

`TokenLifetimeProofs`: `ParsersSuffice` from `LifetimeInvariant`. `ParsersAgree`
compares the two parsers: for a duration that is not misread the one of the
repository never answers less than the one of `jsonwebtoken`, and 0 only where
that does. The property looks at the moment; the invariant compares deadlines
(`BlockOutlives`, `FamilyOutlives`, `CookieOutlives`) at each step of a request.
That a family ends at most `Slowest` before its token needs to know, when the
token is signed, when its family was stored (`FamilyStored`: no earlier than the
request began) and how old the request is (`InTime`). That a blocked token stays
blocked needs that no token is signed for its session again: the entry is written
by a logout, which ends by taking the cookies away. The conjuncts for two
sessions do not meet (`StepOfOne`), so there is one lemma per step, about the
session that takes it.

### Identity

`IdentityProofs`: `TypeCorrect`, `KeysStayUnique`, `OrphansHaveMet`,
`EventsAreTrue`, `TeamsKeepALeader`, `TeamsStayIsolated`, `WritesNeverUndo` and
`RosterIsRight`, all from `IdentityInvariant`.
- Every check of a service is a query before the write it guards, so the invariant
  says what is left of it when the write comes. `WriteGranted`: the row about to be
  written may have changed since it was loaded, but not in what the policy looked
  at, because a user never changes his team and his deletion hides him. `AskSound`
  and `StepSound` tie requests to the steps of their operation. `InsertedOnce`: the
  id of a request is free until its INSERT.
- `KeysStayUnique` does not rest on the duplicate checks but on the indexes.
- Orphans: the parent found by a creation is active or has been deleted by a
  request it met (`ParentFound`); the children of a parent about to be deleted
  were all created by requests that met its deletion (`ChildrenMet`); requests
  under way together have met (`MeetingsKnown`). The last two are needed because
  the two operations may write in either order.
- Leaders: a write takes a leader away only if its actor is SUPER, or is a user of
  the same team who is not the target. If his token still says the truth he is a
  leader himself, and remains. `TokenSound` (the team of a token is the team of its
  user, and a leader's team has had one) and `LeadersKnown` make that an invariant.
- `WritesNeverUndo` needs no history: `Written` differs from the row in the columns
  of the call, and each operation writes one.
- The roster counts by another query than the lists; that both select the same rows
  follows from the foreign keys. Counting needs finite tables (`RowsAreFinite`).

### Redis

`RedisProofs`: `Exclusive` and `FreedByItsHolder` from `LockInvariant`;
`SubscriptionsLast` and `UnsubscribedForGood` from `PubSubInvariant`;
`RepliesAreTrue`.
- Exclusion says nothing about the key and is not inductive; `HoldersHaveTheKey`
  is: whoever acts as the holder and has not outstayed his TTL has his token in
  the key, and one key holds one token. Most steps move one taker without touching
  the key; `MovingOn` treats them together.
- A call of `subscribe` that nobody contradicts is right when it *ends*. What it may
  count on holds from the time its command is sent (`SubscribeStands`,
  `UnsubscribeStands`), for the calls on the other side that ended before it began
  (`CallsKnown`), and there is no listener before there is a subscriber
  (`NothingBefore`).
- The replies of the pipeline are in the order of the commands while it runs
  (`InOrder`); the property only speaks of its end.

### The service

`ProcessProofs`: `SafeToServe`, `NothingLeaks` and `SettingsReadAlike` about the
boot; `NobodyCutOff`; `NeverOverlaps`.
- `BootInvariant`: what is configured has passed the gate (`GatePassed`); the hook
  of the database runs before the server listens, and until then the boot leaves
  the schema alone (`DatabaseComes`); after it the schema fits and stays so, since
  the runner only adds what is pending (`DatabaseFits`); answers are given with the
  settings of a process that listens (`AnswersGiven`). `SafeToServe` then is a fact
  about the schema: what it accepts outside of development is safe. Every
  environment and every `.env` are covered, not only the pairs of overrides.
- `SettingsReadAlike`: ConfigModule writes what it parsed back as text and the
  namespaces parse it again. `DefaultSurvives` shows key by key that this text is
  read as the value it came from; the case of a boolean is the one the mutant breaks.
- `NobodyCutOff` from `Settled`: there are no requests before the process serves,
  and none is left once the server has been closed. `NeverOverlaps` from
  `FlagTellsTheTruth`: the guard of a tick looks at the flag, so the flag must be
  set exactly while an execution is under way.

`PaginationProofs`: `ListsAreExact` from `PageInvariant`, for any number of rows
and any size of page.
- By cursor (`CursorInv`): the client has been given rows up to his cursor only, and
  every row that was there all the time has been given or comes after the cursor;
  it is what makes writes before and behind the cursor harmless. `BeforeOrders` is
  the one fact about the order: it is total and has no ties.
- By number (`OffsetInv`, while nothing is written and no two rows are of the same
  time): all pages are cut out of *one* order of the rows. That is the point of the
  missing tie-break: with ties each page may come from another. `OneOrder` proves
  that there is only one, since the place of a row is the number of newer rows.

### What is only model-checked

- Liveness: `LockEndsWithoutFaults`, `LockIsFreed`, `EveryReconnectionIsAnnounced`,
  `RedisIsFoundAgain`, `ShutdownEnds`, `RequestsAreAnswered`, `JobsRunAgain`.
  Fairness is beyond the prover.
- `BackoffGrows`: that the delay doubles needs `2^(n + 1) = 2 * 2^n`, an induction
  over powers that no installed prover can do; and it holds only if the slow
  interval is not below the fast limit.
- The type invariants of the modules behind these properties (`RedisConnection`).

## 5. What the code does otherwise than the repository says

- `RevocationIsComplete`: `modules/auth/service/auth.service.ts:66-68` says epoch
  and families together complete the invalidation of a user. A refresh that
  swapped its jti before the families were deleted and reads the epoch after the
  INCR gets an access token of the *new* epoch. (Its refresh token is dead.)
- `FailClosedRefuses`: `config/env.schema.ts:96-97` says
  `AUTH_BLOCKLIST_FAIL_CLOSED` guarantees invalidation. The guard looks at
  `isReady` once, before two reads that answer "nothing" when they fail.
- `LogoutEndsSession`: `logout` ignores every error in the two `catch` blocks
  meant for tokens that are no longer valid, a failing Redis included.
- `LockEnds`: the account is said to be locked *temporarily*
  (`modules/auth/exception/auth.exception.ts:27`). Only the attempt that sees the
  counter at 1 sends EXPIRE; if that command is lost, the lock has no end.
- `ParentsAreActive`: `team.exception.ts:11` and `role.exception.ts:10` say a
  parent with children cannot be deleted. The count and the delete are two
  statements, and so are the parent check and the insert.
- `InitEnds`: `lib/redis/redis.client.ts:117-123` and `config/env.schema.ts:73`
  say that a failed connection at boot either stops the boot (`REDIS_REQUIRED`)
  or is gone on without. The reconnect strategy always returns a number, so
  `connect()` does not fail while Redis is away: the boot waits for it.

## 6. Not modelled, and why

Parts:
- Request validation (`common/validator`, the DTOs): regular expressions over
  texts and limits of fields. They decide what reaches a handler and keep no
  state; the models let every well-formed request arrive.
- Rate limiting: a library with its storage in memory; the repository sets two
  numbers.
- Logger, trace ids, interceptor, Swagger: formatting and headers.
- Mail, storage and session modules: stubs.
- `scripts/`, the linter configuration, seeds: tools for developers.

In the modelled parts:
- The expiry of tokens in `AuthSession`: an expired token fails verification and
  changes nothing, so it is a token that is not presented any more. `ExpireFamily`
  is the TTL of a family key. `TokenLifetime` has the deadlines: there the
  requests of a session come one after the other and no command fails, and a
  refresh token and its family are looked at in one step of the logout.
- Loss of Redis data (a restart without persistence): the store would forget
  blocklist and epochs; nothing in the code addresses it.
- `revokeAllSessions` has no caller in the repository; it is modelled as an
  operation that may be called at any time for any user.
- Passwords, display names, dates; hashing and its timing.
- A user with several teams: `TokenService` signs exactly one.
- In `Shutdown`, a signal between `enableShutdownHooks` and the end of `listen`,
  and a second kind of signal; in `Boot`, how a boot that failed ends: `main.ts:9`
  prints the error, and what the process does then is up to open handles.
- In `Requests`, arrays in a body, keys of the sanitizer's list one by one, what
  a URL or a message says, and an exception after the headers were sent, which is
  only logged.
- In `Pagination`, the order in which `findAndCount` sends its two queries (the
  count comes second, which is the worse case), and the search text.
- Raw readers of the environment other than the tracer and `getAppEnv`:
  `mikro-orm.config.ts:27-49` reads texts by rules of its own (`ORM_DEBUG=1` is
  true to the schema and false there), and `bootstrap.ts:29` splits
  `APP_CORS_URL` without the trimming of `configs.ts:25`.

## 7. Plan

Done in this order: `TokenFamily` and `AuthSession` (the core), `Lockout`,
`AccessControl`, `Identity`; then the Redis client, settings and boot, shutdown,
cron, lifetimes and lists; then the proofs of all invariants of the runs.

Next theorems:
1. The safety half of `EveryReconnectionIsAnnounced`: a callback runs only for an
   outage that came before it, and once for each; with the types of
   `RedisConnection`.
2. Step lemmas towards liveness that need no fairness: a measure that each step of
   a request, of the shutdown or of a release decreases.

Next model: a composition of `Identity` and `AuthSession`, for how long outdated
claims act.

# A verification of lms-clone-api

TLA+ models of the authentication server in this repository, TLC runs over
small instances of them, and TLAPS proofs for every value of the constants.
Paths below are relative to the repository's root.

## The system

One NestJS process serves a GraphQL API. It keeps nothing in memory between
requests: MySQL (through Prisma) holds users, profiles and OTPs, Redis holds
the token whitelists and the rate-limit counters, RabbitMQ holds the mails to
send. The code between two `await`s runs undisturbed; at every `await` other
requests and the cron jobs may run, and the process may be restarted
(docker-compose: one server, `restart: unless-stopped`, persistent volumes).

| Component | State | Operations | Interacts with |
|---|---|---|---|
| Sessions (`app/auth/auth.service.ts`, `auth.resolver.ts`) | whitelists `WHITE_LIST_AT_<u>`, `WHITE_LIST_RT_<u>` in Redis | login, me, signout, refresh, clean-up of expired entries | users (status), strategies, cron |
| Strategies and guards (`app/auth/strategies`, `guards`) | none | JWT check, whitelist check, status check, reuse wipe, role check | sessions, users |
| Whitelist cron (`auth-cron.service.ts`) | none | at midnight, clean up every user with a list | sessions |
| Signup and OTP (`auth.service.ts`, `app/otp`) | `Otp` rows, `User.status` | signup, verifyOtp, checkOtpToken, resendOtp, OTP cron | users, rate limit, message bus |
| Users and profiles (`app/user`, `app/user-profile`) | `User`, `UserProfile` rows | find, create, activate, resolve the field `profile` | all of the above |
| Rate limiting (`nest/shared/rate-limit`) | one Redis counter per key | `bucket` | renewOtp |
| Message bus (`rabbitmq`, `default-rabbit-subscribe.ts`) | exchange, queues | publish with expiration, subscribe | signup and OTP, mail |
| Mail (`email`) | queue position | consume, render, send | message bus |
| Passwords (`app/password`) | none | hash, verify | signup, login, OTP |
| Error mapping, timeout, logging (`nest/interceptors`) | none | translate Prisma errors, answer after 100 s | every request |
| Health, bootstrap, configuration | none | wiring | |

### What is hard here

* **Interleaving.** Every handler is a chain of awaits, and each reads Redis or
  MySQL in one step and writes in a later one. Refresh checks the whitelist,
  reads the user, reads the list, revokes, and only then issues: four points
  where another request of the same user can run.
* **Stale replies.** The clean-up of expired entries decides on lists read
  before the new pair was added to them.
* **Time.** `iat` and `exp` are in seconds, whitelist deadlines in
  milliseconds; tokens signed in one second are the same string.
* **Restarts** between any two steps; nothing is resumed.
* **Lost or late answers.** The interceptor answers for a handler that keeps
  running; a client that retries a refresh presents a token already revoked. A
  COMMIT may take effect and its reply be lost. Guards, before the handler, and
  the resolver of a user's `profile`, after it, are outside the interceptor.
* **Transactions and messages.** Signup publishes before its transaction
  commits, resendOtp after; messages expire after ten seconds; a failed mail is
  neither acknowledged nor refused.

### What makes each component correct

* Sessions: a pair the client holds works until it expires or is revoked; a
  revoked token is refused; a refresh token is exchanged once; the wipe after a
  reuse is final; expired entries leave Redis.
* Strategies: nobody is refused, and no session is wiped, without a cause.
* OTP: one active OTP per user; an account becomes active only through an OTP
  issued for it; an OTP is consumed just when its account is activated; the OTP
  of every mail exists.
* Rate limit: at most `accessLimit` in any window, and no refusal below it.
* Bus and mail: a published mail is sent once, or is known to be lost; the
  consumer does not stall.
* Error mapping and time-out: a client is answered, with a declared code, the
  service's own where it chose one; a success means that all was done, and an
  error that names a reason that no mail is on the way and nothing is stored.

## Modules

| Module | What it is |
|---|---|
| `TokenRegistry` | what the token code promises, without lists, replies and jobs: the abstract specification |
| `AuthTokens` | sessions, strategies, whitelist cron, restarts, with their properties and the inductive invariant |
| `AuthTokensRegistry` | `AuthTokens` with a history variable, the refinement mapping to `TokenRegistry` and its invariant |
| `AuthTokensReuse` | `AuthTokens` with two history variables, the two questions about reuse detection, and the invariant behind their answer without overlap |
| `AuthTokensProofs`, `AuthTokensRegistryProofs`, `AuthTokensReuseProofs` | theorems about `AuthTokens`, the refinement, and reuse without overlap |
| `OtpLedger` | what signup, resendOtp, verifyOtp and the OTP cron promise, a transaction being one step: the abstract specification |
| `OtpFlow` | signup, resendOtp, verifyOtp, the OTP cron over MySQL transactions |
| `OtpFlowLedger` | the refinement of `OtpLedger` by `OtpFlow`, and its invariant |
| `OtpFlowProofs`, `OtpFlowLedgerProofs` | theorems about `OtpFlow`, with overlapping renewals and without, and the refinement |
| `EmailBus`, `EmailBusProofs` | publication, broker, consumer and mails, and theorems about them |
| `RequestPipeline`, `RequestPipelineProofs` | guards, pipe, interceptor, time-out and the code a client is answered, and theorems |
| `RateLimit` | the access counter, its properties and theorems |
| `MCAuthTokensRegistry`, `MCAuthTokensReuse`, `MCRequestPipeline` | symmetry sets for TLC |
| `MCOtpFlow` | the same, and `OtpFlow` for one renewal of a user at a time |
| `MCAuthTokensSerial` | `AuthTokens` with the histories of both its extensions, for one request at a time |

`AuthTokensRegistry` and `AuthTokensReuse` extend `AuthTokens`, and
`OtpFlowLedger` extends `OtpFlow`; the other models stand beside each other. What one takes from another is a choice in it: the
rate limit's answer and the broker's are a choice between going on and `Fail` in
`OtpFlow`, and `RequestPipeline` reduces every handler to its awaits and what
they may raise.

### AuthTokens and the code

State. `whitelist[k][u]` is the Redis set of kind `k` (access, refresh) of user
`u`; its members are `[token, expiresIn]` as `saveJwtToken` writes them. A JWT
is a function of kind, user and the second it was signed in, so a token is its
`iat`. `now` counts ticks, `TicksPerSecond` of them to the second (1000 in the
code); the divisions between the two units are in the model. `status[u]` is the
user's column. `req[r]` is what the server remembers of a request between two
awaits: its place `pc`, arguments, the status its user query returned and the
whitelist entries its SMEMBERS returned (`seen`). `cron` is the same for the
job. `held[u]` is what clients were given; they may present any of it, whenever
its JWT is alive, any number of times, which covers retries and duplicates.
`revoked` and the field `replay` are histories that only properties read.

Actions. There is one per piece of code between awaits:

| Code | Actions |
|---|---|
| `login` | `LoginStart`, `ReadUser`, `LoginCheck`, `LoginMismatch` or `PrepareAuthTokens`, `Cleanup` |
| `me`, `signout` behind `JwtStrategy` | `AccessStart`, `AccessValidate`, `ReadUser`, `AccessAuthorize`, `SignoutAccess`, `SignoutRefresh` |
| `refresh` behind `JwtRefreshTokenStrategy` | `RefreshStart`, `RefreshValidate` or `RevokeAll`, `ReadUser`, `RefreshAuthorize`, `RefreshRevoke`, `PrepareAuthTokens`, `Cleanup` |
| `handleRemoveExpiredTokens` | `CronStart`, `CronRead`, `CronCleanup` |
| outside | `Tick`, `ActivateUser` (an OTP was verified), `BanUser` (an operator; no code does it), `Crash` |

Redis commands take effect in the order the single connection sends them, so a
command belongs to the action that sends it and its reply is used in a later
one. `prepareAuthTokens` sends SMEMBERS of both lists before SADD, in one go:
the lists its clean-up works on never hold the new pair.

Left out: a signature and a timestamp that fall on two sides of a tick; errors
of Redis or MySQL, which end a request as `Crash` ends all of them; the role
check, which lets every role through in every guarded resolver; and everything
about a request that is refused before the whitelist is read, since it changes
nothing.

### OtpFlow and the code

State. `status[u]` is the committed status of the user with email `u`, or
"none"; `otps` are the committed rows of `Otp`, `nextId` their AUTO_INCREMENT.
`req[r]` is a request with its transaction: the rows its snapshot showed
(`seen`, `row`), and what it has written and not committed (`create`, `del`,
`ins`, `update`), which are also its locks. `mails` is what was published;
clients know the tokens and codes in it, and wrong codes. `issued` is the
history of committed rows.

| Code | Actions |
|---|---|
| `signup` | `Signup`, `CreateUser` for a new email, the actions of `renewOtp`, `Publish`, `Commit` |
| `resendOtp` | `Resend`, `ResendRead`, the actions of `renewOtp`, `Commit`, `Publish` |
| `renewOtp`, `createOtp` | `RateGranted`, `ReadActive`, `DeleteCurrent`, `CreateOtp`, `SignOtp`, `InsertOtp` |
| `verifyOtp` | `Verify`, `VerifyRead`, `ConsumeOtp` and `ActivateUser` in either order, `Commit` |
| `handleRemoveExpiredOtps` | `Sweep` |
| any exception or restart | `Fail` |
| outside | `Tick` |

What is assumed of MySQL and Prisma, which are not in the repository: the
default isolation, REPEATABLE READ, with its snapshot taken by the first SELECT
(in `signup` that is `findUserByEmail`, so `renewOtp` looks for the active OTP
in an older snapshot there than in `resendOtp`); writes that work on current
rows and wait for each other's locks, the shared lock of a foreign key
included; `findFirst` without an order, which may return any row; `delete` of a
row that another transaction has removed, which may be an error or not. The two
statements `verifyOtp` gives to `Promise.all` may run in either order, so
transactions can wait for each other; MySQL then fails one, as a time-out of
Prisma would (`Fail`).

Left out: fractions of a second; `checkOtpToken`, which only reads; the rate
limit's count, whose answer is a choice between `RateGranted` and `Fail`; gap
locks, which only make more transactions wait or fail.

### The refinement of TokenRegistry

`TokenRegistry` has per user the set of valid tokens and the pairs clients
hold, and requests that are asked, authorised, spent (a refresh that gave its
token up), signed. Its steps are the promise: only a valid token of an active
user is authorised; a pair is signed only for a login or for a refresh token
given up; tokens leave the registry by a revocation, because their time is
over, or all at once for a refresh token that was not valid when presented or
has run out. A restart drops the requests and nothing else.

`AuthTokensRegistry` maps `valid` to the tokens that have an entry in a
whitelist, whatever its deadline, the places of a request to the stages, the
clock to seconds, and one flag the registry keeps, whether the bearer was valid
when presented, to the history `replay`. Four awaits of a refresh become two
steps and two stutters, the cron's job and the clean-up become purges.

The code forces one clause into the registry. A revocation removes the entries
that its SMEMBERS returned; if the same token is signed again before the SREM,
the entry has another deadline and stays listed. That can happen only in the
second the request came in, since a token is its second. So `Revoke` may leave
a token of that second, which the history variable `since` tells; it is assigned
in every step and restricts none.

### The refinement of OtpLedger

`OtpLedger` has the accounts, the OTPs that can be used, those sent and those
that ever were, and no requests. `Renew` puts a new OTP in the place of one of
the user's at most, which it outlasts, and opens an account if there is none;
`Redeem` uses an OTP that was issued and sent, and activates its user; `Send`
sends an OTP; `Purge` removes what has expired. Each is atomic, and there is no
step for a failure.

`OtpFlow` has the same five variables beside its requests and the AUTO_INCREMENT,
so the mapping is the identity: every statement of a transaction is a stutter
and its COMMIT is `Renew` or `Redeem`. What the code forces into the ledger:
`Send` may send an OTP that is not issued (signup publishes before it commits),
and `Redeem` may use one that is no longer there (a verification that read the
row before a renewal removed it still commits, unless MySQL fails its DELETE);
`OtpLedger` does not say that a user has one OTP at a time, which does not hold.
What it does say: a renewal and a verification are atomic whatever runs beside
them and wherever they fail, an account is never set back, an OTP is replaced
only by one that lasts as long, and none activates an account but by its mail.

### Reuse without overlap

`AuthTokensReuse` observes two things of every step: the refresh tokens that were
exchanged for a pair (`spent`) and those that were out when a reuse removed all
tokens (`wiped`). A token signed anew within its second leaves both sets.
`OneRequestEach` says that no two requests of one user are under way; nothing in
the code makes it so. The two violations need the overlap, and nothing else: that
is what the theorems of `AuthTokensReuseProofs` say, in which requests of other
users, sweeps and restarts go on as they like.

### EmailBus and the code

State. The server (`up`, `transporter`: whether `verify()` succeeded when it
started), its connection to the broker, the broker's queues, bindings and
consumers, `place[q][m]`, where the copy of event `m` in queue `q` is, and
`tasks`, the calls of handlers that have not ended. `sent`, `lost`, `early`,
`skipped` and `failed` are histories.

| Code | Actions |
|---|---|
| `EmailService.onModuleInit`, `createTransport` | `Start` |
| `RabbitMqOptionsService` (`wait: false`), `DefaultRabbitSubsribe` | `Connect`, `Subscribe` |
| `RabbitMqService.publish`, the exchanges and keys | `Publish` with `Routed` |
| `expiration`; the library's window of deliveries | `Expire`, `Deliver` |
| `EmailConsumer`, `EmailWorker`, `sendMail` | `Handle`, `Throw`, `Ack` |
| the global interceptor around a handler | `TimeOut`, `SendLate` |
| `errorHandler: () => {}` | `Throw` and `TimeOut` leave the copy "handed" |
| outside | `Disconnect`, `Crash`, `Tick` |

The broker and golevelup's consumer are not in the repository. Of them is
assumed: a topic exchange with an alternate exchange; durable queues and
persistent messages; a delivered message counts against the window until it is
acknowledged or its connection ends, and is then queued again; per-message
expiration removes a message while it is queued. A mail that fails may have
been accepted by the SMTP server and its answer lost.

Left out: what a template renders to, the consumer of events that no code
publishes (its queue is there, as routing must tell it from the other), and
publication by other producers.

### RequestPipeline and the code

State. `taken` are the emails in `User`; `req[r]` a request with its place, the
error raised, what has taken effect of it (`did`: an access counted, an event
published, a transaction committed, the whitelist written), and the answer the
client has.

| Code | Actions |
|---|---|
| resolvers, their guards, `@Roles` | `Receive`, `CanActivate`, `Deny` |
| `ValidationPipe`, `classValidatorErrorsFactory` | `Validate`, `Refuse` |
| `signup`, `signupNewUser` up to the INSERT | `Lookup`, `Create` |
| every other await of a handler | `Proceed`, `Raise` |
| `ErrorHandlingInterceptor` | `Catch`, `Return`, `TimeOut` |
| `UserResolver.getProfile` | `GetProfile` |
| `formatError` and the driver | `FormatError` |

Nest runs guards before interceptors, so what a guard throws is not caught
there and is not timed out. The same goes for the field resolver of `profile`:
`GqlOptions.service.ts` sets no `fieldResolverEnhancers`, so it runs outside the
interceptor, after the handler of `me` or `verifyOtp` has returned and, for
`verifyOtp`, after its COMMIT. Its failure, and a null for this non-null field,
are answered INTERNAL_SERVER_ERROR; it may hang, and then nothing answers.

Errors keep what the translation looks at: the class and
the code. `GraphQLException`s of the services are listed by operation, as are
Prisma's; any store may fail with an error of its own at any await. An await that
fails may have done any part of what it does (`Raise`): the access is counted and
stays counted when the transaction rolls back, an event may have reached the
broker, a handler with writes outside a transaction may be half done, and a
COMMIT may have taken effect when only its reply was lost. Two things are
assumed of MySQL and Prisma: a deadlock (P2034) has rolled back, and P2025, a row
that is gone, is an error of a statement and not of COMMIT.

What a client may conclude is therefore what `AnswerTruthful` says: from an OK,
that the mail, the transaction or the whitelist entry of the operation is done;
from a code that names a reason (`Refusals`), that at most its access was
counted; from INTERNAL_SERVER_ERROR and from the time-out, nothing. It holds because
the services check before they publish, commit or write, in every handler, and
because what can go wrong later has no code that the translation knows.

Left out: logging; data the handlers compute, which other modules model. What the
strategies do to the whitelists when they find a refresh token reused is in
`AuthTokens`, and is not counted in `did`, which is the handler's.

### RateLimit and the code

One key. INCRBY, GET and EXPIRE of `bucket` leave in one pipeline, so an access
is one step, `Grant` or `Refuse` by the count it sees. Redis drops a key when
the clock is past its deadline. `grants` is the history of the times of the
accesses let through. `increment: false` is left out: no caller passes it. (If
one did, `result[1]` would be the reply of EXPIRE and not of GET.)

## Runs

| Run | Instance | Shows |
|---|---|---|
| `tokens_safety` | 1 user, 2 requests, 2 ticks per second, both lifetimes 1 s, 2 ticks, no restart | `NoLiveTokenLost`, `RevokedTokenRefused`, `RefusalJustified`, `RevivedOnlyBySigning`; `IInv` and `RegistryInv` are invariants |
| `tokens_restart` | 1 user, 1 request, lifetimes 1 s and 2 s, 2 s, one restart or ban | the same sessions survive restarts; `ExpiredPurged`; `ImplementsRegistry`; `ReuseNeverIssues` and `WipeIsFinal` hold without concurrency, `ReuseInv` behind them |
| `tokens_reuse` | 1 user, 2 requests, 1 s | `ReuseNeverIssues` does not hold |
| `tokens_wipe` | the same | `WipeIsFinal` does not hold |
| `otp_race` | 1 user, 2 requests, lifetime 2 s, 2 s, 3 OTPs | `OtpUntilActive`, `ActivatedByCode`, `ImplementsLedger`; `OtpInv` and `LedgerInv` are invariants |
| `otp_serial` | 1 user, 2 requests of which one may be a renewal, lifetime 1 s, 1 s, 3 OTPs | `AtMostOneActiveOtp` holds beside verifications, `SerialInv` behind it; `ExpiredOtpsPurged` |
| `otp_active` | as `otp_race` | `AtMostOneActiveOtp` does not hold |
| `limit_window` | limit 2, window 3, 10 ticks | `AtMostLimitPerWindow` |
| `limit_refusal` | the same | `RefusedOnlyOverLimit` does not hold |
| `bus_mail` | 1 event of each kind, window 1, one loss, the clock at 0 or at the expiration | `Accounted`, `OneMailPerConnection`, `QueueServed`, and that `IInv` is an invariant |
| `pipeline_answers` | 2 requests of any operation, 1 email | `KnownCodes`, `OwnErrorsKept`, `AnswerTruthful`, `AnswerFinal`, `HandlerAnswered`, and that `IInv` is an invariant |
| `pipeline_translated` | the same | `ErrorsTranslated` does not hold |

Why the bounds are enough. Users share nothing but the cron, so one user shows
every race between requests; what one user cannot show is the cron's loop over
several, which is a `for` over the keys it listed: its safety is proved for any
users, and only the liveness property `ExpiredPurged` rests on the one. All
races found need two
requests of one user. With two ticks to the second and three instants, two
pairs can be signed in one second (equal tokens, different deadlines) and in
different ones, a lifetime can end while a reply is under way, and an entry can
expire before, during and after the clean-up that looks at it. `MaxNow` stops
the clock, `MaxDisruptions` bounds restarts and bans, `MaxCount` the counter.
In `OtpFlow` users share only the cron as well. Three OTPs are one to replace
and one for each of two requests; with a lifetime of two seconds and three
instants an OTP can be replaced in its own second, later, or when it has
expired. The user starts in every status, "none" and banned included. `MaxOtps`
bounds the rows ever inserted: a request that may insert one starts only if
there is room for it.

In `EmailBus` a window of one is full with one failed delivery, so two events
show what a full window of golevelup's default (the code sets none, so ten)
does; one loss is enough for a redelivery,
a late acknowledgement and a mail that outlives its connection. The clock has
the two instants that matter, before the expiration and at it (`Step` is the
expiration itself). In `RequestPipeline` requests meet only in the unique
email, so one email and two signups are all there is.

The proofs have none of these limits (`Tick` is guarded by `MaxNow`, but
`MaxNow` is any natural number).

Fairness. `Fairness` of `AuthTokens` is weak fairness on each request's server steps and on
the job's steps: replies of Redis and MySQL arrive and the event loop runs
their continuations, and `@nestjs/schedule` fires the job again and again.
Clients, operators, the clock and restarts are under no fairness. Restarts are
bounded: a server that restarts for ever cleans up nothing.

`Fairness` of `OtpFlow` is weak on the end of each wait of a request, in a step
or in an exception, and strong on the cron's statement. A step alone would not
do: two verifications of one OTP may each hold the row the other one waits for
(`Promise.all` sends the two statements in either order), and it is InnoDB's
deadlock detection, or Prisma's time-out, that ends one of them. The cron's scan
needs a moment with no lock on the table, and InnoDB grants waiting locks in
turn. `SerialFairSpec`, of `otp_serial`, has the same fairness for clients that
start no renewal of a user before the last one ended, which is what
`OneRenewalEach` says of a state. Three OTPs let a renewal find an expired row
and an active one; one tick crosses every wait of a request.

`ObservedFairSpec`, of `tokens_restart`, is that of `AuthTokens` with the history
variables beside it; all its properties but `ExpiredPurged` are safety properties
and use none.

`FairSpec` of `EmailBus` has weak fairness on five kinds of steps, not on each
message or handler: the server is started again, its connection comes back,
some queue is subscribed, some copy is delivered or expires, some handler that
the interceptor has not given up on moves on. Each happens finitely often
between two losses, which is why no more is needed, and the interceptor's
time-out is why a handler ends. A send that has been abandoned is under no
fairness, nor are publications, losses and the clock.

`FairSpec` of `RequestPipeline` has weak fairness on the interceptor alone, its
timer (`TimeOut`) and its `catchError` (`Catch`): a handler may hang in any await
for ever, which the time-out answers; so may a guard or the query for a profile,
which it does not, and so `HandlerAnswered` starts behind the guard and ends where
the profile is asked for.

Deadlock is checked in the `AuthTokens`, `OtpFlow` and `RequestPipeline` runs.
`RateLimit` stops when the clock and the counter reach their bounds, `EmailBus`
when all events are dealt with and the clock stands.

Each property of a passing run is broken by a mutant kept beside the definition
it changes: the clean-up writing back the lists it read, a deadline in the
wrong unit or direction, the cron listing access keys only, a signout whose two
revocations are swapped, a refresh that skips its revocation, a wipe that leaves
the refresh tokens, a statement sent
outside its transaction, a renewal that deletes all OTPs of its user, a code that is not compared, a query for the active OTP that
finds expired ones, a sweep that is off by one, a window that is
fixed at the first access, a limit compared one access too late, a failed mail
that is acknowledged or queued again at once, a consumer whose window is one
short, a role that stands for itself alone, an interceptor that takes the
services' errors for any others or has no time-out, a late answer that replaces
the first, a signup that publishes
after its transaction, checks that are made after the writes.

## What does not hold

* `ReuseNeverIssues`. `jwt-refresh-token.strategy.ts:45` says "reuse-token =>
  remove all tokens". Two requests with one refresh token both find it listed,
  both revoke it (the second SREM removes nothing, and nobody looks), and both
  get a pair. Reuse is noticed only when the second request comes after the
  first has revoked: that much is `RevokedTokenRefused`, and it is proved.
* `WipeIsFinal`. The wipe empties the two lists. A refresh of the same user
  that has passed its check then adds a new pair to them. For this property and
  the one before, overlap is the only cause: while the requests of a user do not
  overlap both hold (`tokens_restart`), and that is proved.
* `AtMostOneActiveOtp`. `auth.service.ts:150` says "remove current active otp".
  Of two renewals that overlap (a signup and a resend, or two clicks) neither
  sees the other's row, and both OTPs stay active until they expire or are
  used. A later renewal removes one of them. Overlapping renewals are the only cause:
  one at a time keeps the property (`otp_serial`, and it is proved), whatever
  fails and whatever the same user verifies meanwhile.
* `RefusedOnlyOverLimit`. `auth.service.ts:135` says "20 otps per hours". EXPIRE
  is sent on every access, so the count only falls to zero after an hour with
  no request at all: a user who asks every fifty minutes is refused at the
  twenty-first request, and a refused user who keeps trying stays refused.

* `ErrorsTranslated`. `format-validation-error.ts:8` says 'Validation failed!',
  with BAD_USER_INPUT. The factory looks for the message in the first child of
  the first error; the argument of signout is not nested, so there is no child
  and the factory throws a TypeError: the client is answered
  INTERNAL_SERVER_ERROR. The other half of the property fails in the same way:
  for a duplicate email (two signups that race) `error-handling.interceptor.ts`
  takes the target of P2002 for a list of fields, while on MySQL it is the name
  of the index, and `join` of a string throws where CONFLICT was meant.

Seen while modelling, without a run: all sessions of a user are also wiped for a
refresh token that ran out while its check was under way, and for a client that
retries a refresh whose answer was lost (`RefusalJustified` accepts both causes,
since the code means them); a client that asks `verifyOtp` for
`user { profile }` may be answered an error although its account was activated
(`GetProfile`; a retry is then refused, the OTP being gone), and a profile that is
never read leaves it without any answer; `rabbitmq.constant.ts:41` has an
expiration of 10000, which are milliseconds, beside a comment that says one
hour (`Accounted` takes the code's value and accepts what expires); a delivery whose handler failed is not gone but comes again with the next
connection, since `errorHandler` in `default-rabbit-subscribe.ts` neither
acknowledges nor rejects it, and until then it fills the window
(`QueueServed` names this as the one way a mail is left waiting).

## What is proved

Assumptions: `TicksPerSecond` and both lifetimes are positive naturals, bounds
are naturals; `Window` is positive and `Limit` a natural. `Users` and `Reqs`
are arbitrary sets.

`AuthTokensProofs`:

* `TypeCorrect`: `TypeOK` is invariant (one lemma for requests, clients, the
  job and the environment each).
* `Invariance`: `IInv` is invariant. The properties are not inductive: what
  the clean-up removes is safe only because every entry outlives its JWT
  (`ListedOutlive`); a token the client gets is listed only because it was
  accounted for while its request was still cleaning up (`SignedAccounted`); a
  refusal is justified only because the reply kept in the request was empty
  exactly for revoked tokens (`BearerSeen`), and a revocation harms no other
  token only because the entries read for it all belong to its target
  (`RevocationSeen`). The proof first shows for each kind of step that the
  lists are kept (`ListsKept`), then that the request that moved is sound
  (`RequestStep`). The arithmetic is in three lemmas: `SecondsBefore` (a time
  is before second s in ticks just when it is in seconds), `EntryNowFacts` and
  `AliveNotExpired`.
* `SessionsKept`, `RevocationHolds`, `RefusalsJustified`: the three safety
  invariants follow from `IInv`.
* `RevivalBySigning`: the action property, from `IInv` and the fact that only
  `PrepareAuthTokens` adds to a list.

`OtpFlowProofs` (`OtpTTL` is a positive natural, the bounds are naturals):

* `Invariance`: `OtpInv`. `OtpUntilActive` is not inductive: it needs
  that every row was dated no later than now (so the new OTP outlasts the one
  it replaces: `CreateOtpStep`), that a transaction deletes only rows of its
  user that were committed (`RowsIssued`), that a renewal never reaches COMMIT
  without its new row (`RenewalOK`) nor a verification without both of its
  statements (`VerificationOK`), and that no two transactions insert one row or
  one user (`Apart`). Steps that touch nothing but their own request share one
  lemma (`LocalStep`); COMMIT has four.
* `OtpKept`, `TypeCorrect`: from `OtpInv`.
* `ActivationByCode`: only COMMIT changes a status (`StatusChange`), and the
  facts of a committing verification (`CommitFacts`) give the rest.

* `SerialInvariance` and `OneActiveOtp`, under the hypothesis
  `[]OneRenewalEach` that no two requests renew the OTP of one user at a time
  (verifications of that user and all requests of other users may overlap, and
  `otp_serial` runs such behaviours); without it the statement is false
  (`otp_active`). `SerialInv` follows a renewal: until `getActiveOtp` signup's
  snapshot holds every row of its user, from there on whatever is still active
  is the row it read, and then the row it has deleted (`Replacing`). Rows that
  expire, are swept or are consumed in between only leave (`SerialKept`), what
  the query dropped as expired by its own `new Date()` is expired for good, and
  only COMMIT brings a row: the one place where the hypothesis is used
  (`SerialCommit`).

`OtpFlowLedgerProofs`:

* `LedgerInvariance`: a transaction has read, deleted and inserted one row at
  most, the rows that transactions will insert have ids of their own that no
  committed row has, and a code a client sends was in a mail (`LedgerInv`, which
  contains `OtpInv`).
* `Refinement`: `Spec => ImplementsLedger`. Steps before a COMMIT are stutters
  (`Send` for a publication); a COMMIT is a renewal or a verification with both of
  its statements, by `RenewalOK`, `VerificationOK` and `LedgerInv`; `Fail` is a
  stutter, which is where the transaction is needed.

`AuthTokensReuseProofs`, under the hypothesis `[]OneRequestEach`, which is false
of the code and which the violations `tokens_reuse` and `tokens_wipe` need to be:

* `ReuseInvariance`: tokens exchanged or wiped have no entry, and a refresh that
  the strategy has let in, or is about to, bears neither (`RefreshSound`). It is
  carried by what a rotation read: between its SMEMBERS and its SREM nothing adds
  an entry of its token, so none is left when it signs. `CalmMove` has all steps
  that bar and list nothing; signing (`IssueStep`) and the wipe (`WipeStep`) are
  the two that do, and only they use the hypothesis.
* `ReuseNoticed`, `WipesFinal`: from it.

`AuthTokensRegistryProofs`:

* `RegistryInvariance`: requests carry no token of a later second than they came
  in, and what a revocation will not remove of its token was signed in that
  second (`Recorded`).
* `Refinement`: `RecordedSpec => ImplementsRegistry`. Initial states map to
  initial states (`InitSimulates`); each step of a request (`ServeSimulates`), of
  a client (`ClientSimulates`) and of the cron, the environment and the clock
  (`OtherSimulates`) maps to a step of `TokenRegistry` or to a stutter. It uses
  both invariants: `IInv` for the clean-up that removes nothing alive, and
  `RegistryInv` for the revocation.

`EmailBusProofs` (the expiration, the window and the step are positive, the two
sets of events disjoint):

* `TypeCorrect`; that queues are never confused with binding keys rests on
  `RoutedToOne`: an event goes to one queue.
* `Invariance`, and from it `AccountedAlways` and `OneMailAlways`: `IInv` says that a call belongs
  to a delivery of its connection, and that there is one call for an event and a
  connection (`TaskOK`); that a queued copy was not mailed for the present
  connection and an event has one copy (`CopyOK`). A loss gives the next
  connection a number no mail has yet.

`RequestPipelineProofs` (no assumption):

* `Invariance`, and from it `TypeCorrect`, `KnownCodesAlways`, `OwnErrorsAlways`, `TruthfulAlways`. Whatever
  is raised, translated and formatted is a declared code (`CaughtKnown`,
  `DeniedKnown`, `RaisedKnown`); an own error passes the interceptor unchanged
  (`CaughtOwn`). For `AnswerTruthful` the invariant says what each operation has
  done when it reaches each of its awaits (`DoneBefore`, kept by `AfterStep`), and
  of an error that is on its way to the client that nothing but the access was
  counted before it or that it will be answered INTERNAL_SERVER_ERROR
  (`RequestOK`): the awaits that can raise anything else come first
  (`CheckedFirst`), and what publishing, COMMIT and the whitelist raise has no code
  of the API (`RaisedVague`), a lost reply included. `OneRequest` reduces the
  invariant to the request that moves.
* `AnswersFinal`: a request answered otherwise than by the time-out is over,
  with nothing left to take effect
  (`AnsweredDone`), and no step of one that was timed out answers again
  (`AnswerKept`).

`RateLimit`: `Invariance`, and from it `TypeCorrect` and `LimitHolds`. The invariant says that the
key outlives every
grant by a window and that every grant the counter has forgotten is a window
old; so the grant that comes `Limit` later does too.

Model-checked only: `ExpiredPurged`, `ExpiredOtpsPurged`, `QueueServed` and
`HandlerAnswered`, since the prover has no rule for liveness under fairness.

## Plan

What is left, in this order:

1. `OtpFlow` with `RateLimit`: the count per user next to the transactions. An
   access stays counted when its transaction rolls back (`auth.service.ts:133`).
2. `SignupMail`: `OtpFlow` and `EmailBus` together. Property: every committed
   renewal is mailed or accounted for, and which mails carry an OTP that was
   rolled back.
3. Pure parts as operators, checked against reference definitions:
   `expiresIn |= 300`, the minutes in the mail, the length of `otpToken` against
   its column.
4. What the wipe does guarantee with overlap: tokens of a wiped user that are
   still listed were issued by requests in flight or by later logins.

## Not modelled

* Passwords: bcrypt is a library; of `verify` the models keep the outcome.
* Health: the indicators are a library's; of `healthReady` the models keep what
  it raises and what is answered.
* Bootstrap and configuration: wiring and the validation of the environment,
  done before the server serves; of it the models keep the order of pipe and
  interceptor and the connection options of RabbitMQ.
* Logging and what templates render to change no state.
* What `checkOtpToken` and `getProfile` read: they change nothing, and the models
  keep how they may fail and what is then answered.
* The course, pricing and enrolment tables of `prisma/schema.prisma` are used by
  no code.

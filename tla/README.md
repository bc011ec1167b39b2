# A TLA+ model of the IRCTC clone

TLA+ specifications, TLC runs and TLAPS proofs for the services of this
repository: `apps/user-service`, `apps/notification-service`,
`apps/api-gateway` and the packages they share. Every definition is translated
from the TypeScript source; `PROJECT.json` names the lines under `map`.

## The system

Clients talk to **api-gateway**, which verifies the access JWT, limits rates
with a token bucket in Redis and proxies to the services through one circuit
breaker per upstream. **user-service** keeps users in Postgres and everything
short-lived in Redis: device sessions, pending registrations, one-time
passwords, counters. It publishes `OTPRequestedV1` and `UserLoggedInV1` to
Kafka. **notification-service** consumes both topics and sends emails, with an
idempotency key in Redis per event.

All services are single-threaded Node processes with several replicas. The unit
of atomicity is one command of Redis, one statement of Postgres, one call of
Kafka or of the email provider, or, inside a process, the code from one `await`
to the next. A handler with five awaits is interleaved with every other request
at five places, and can stop for good at each of them. That is where the
behaviour of this system is hard to test, and what the models are about.

| component | state | operations | what is hard |
|---|---|---|---|
| device sessions (user-service) | `auth:session:<sid>`, `auth:user:<uid>:sessions`, both with TTLs; cookies | login, refresh, sessionMiddleware, revokeSession, logout, logoutAll, getSessions | read-modify-write of a record by two requests; the record and the index are written by separate commands with separate TTLs; lost answers; expiry |
| OTP registration (user-service) | `auth:otp*`, `auth:registration:<sid>`, the user table | sendOtp (with rollback), verifyAndRegister | INCR then EXPIRE; parallel attempts; ambiguous publish; two registrations of one email |
| event publishers, `packages/kafka` | the topics; one producer per process | publishOtpRequested, publishUserLoggedIn, getProducer, run | acknowledgement lost; a group that has committed no offset; two producers |
| idempotent consumers (notification-service) | `notification:processed:*`, offsets, the handler of each pod | handle, process, reserveIfNew, markProcessed, release | redelivery, crash between two calls, lease shorter than the send, rebalance while a handler runs |
| circuit breaker (`packages/resilience`) | state, failureCount, openedAt, inFlightProbes | execute, getState, transitionTo, withTimeout | results that arrive after the circuit has changed; a probe of an earlier period |
| proxy (api-gateway) | one breaker per upstream | createProxy, getBreaker | timeout against a late answer; what counts as a failure; a client that leaves while its request waits for the limiter |
| token bucket (`packages/ratelimit`) | a hash per key with a TTL | consume (a Lua script) | TTL against refill; one key under two presets |
| authentication, routing, headers (api-gateway) and the cookies | the browser's jar; the identity headers of a request | verifyAccessToken, gatewayAuthMiddleware, proxyHeadersMiddleware, mountRoutes, requireUser, setCookie | two cookies of one session; answers that are late, lost or overtaken; headers from outside |
| life cycle (the three `server.ts`) | connections, the server, readiness | start, shutdown | partial start, signals during start, a drain with requests or handlers at work |

What makes each of the modelled components correct:

- **sessions**: only the owner ends a session; a session that was ended stays
  ended; a token is only rotated for the user and the device of the login; the
  index covers the sessions; the newest token is the accepted one; logoutAll
  ends all.
- **registration**: no user without a matched OTP, and no second row for an
  email; limits on requests and on attempts that hold under interleaving; the
  client is told the truth about the event; what is stored for one session
  disappears together.
- **consumers**: one pod at a time works on an event; a marker is true and
  stays; a second email, or a missing one, has a known cause; every other event
  is mailed in the end.
- **breaker**: bounded probes, a result decides only the period its call was
  admitted in, and neither OPEN nor HALF_OPEN is for ever.
- **proxy**: one answer to a client, a true one; a response that is over leaves
  its place in the breaker; who stays is answered; what the breaker is told is
  what happened upstream.
- **token bucket**: nobody gets more than the preset, nobody is refused a token
  that is there, and who waits as told finds one, whatever expires, is flushed
  or is sent twice.
- **authentication and cookies**: a handler acts for the user the gateway has
  verified, in a session a login made; logging out ends that session; a token
  is taken for stolen only if an answer went astray.
- **life cycle**: a request finds its connections, a shutdown cuts nobody off,
  tries every disconnect and ends, and a half-started process does not serve.

## The modules

| module | models | instances |
|---|---|---|
| `Sessions` | `services/auth.service.ts` (login to logoutAll), `middleware/session.middleware.ts`, the session handlers of `controllers/auth.controller.ts` | `MCSessions` |
| `SessionStore` | the promise of sessions as if every request were one step, without records, indexes or commands | |
| `SequentialSessions` | `Sessions` with one request at a time; refines `SessionStore` | `MCSequential` |
| `Sessions_proofs` | theorems about `Sessions` and `SequentialSessions`, the refinement among them | |
| `Registration` | `services/otp.service.ts`, sendOtp and verifyAndRegister of `services/auth.service.ts` | `MCRegistration` |
| `Registration_proofs` | theorems about `Registration` | |
| `MailContract` | the promise of a mailer, without pods, offsets, keys or leases | |
| `IdempotentConsumer` | the two notification services, `repositories/idempotency.repository.ts`, the two consumers, and Kafka as they see it; refines `MailContract` | `MCConsumer` |
| `IdempotentConsumer_proofs` | theorems about `IdempotentConsumer`, the refinement among them | |
| `BreakerContract` | the promise of a circuit breaker, without counters or clocks of calls | |
| `CircuitBreaker` | `packages/resilience`: `CircuitBreaker.ts` and `withTimeout.ts`; refines `BreakerContract` | `MCBreaker` |
| `GatewayProxy` | `proxy/createProxy.ts` of the gateway, behind its rate limiter; composes `CircuitBreaker` with the exchanges it guards | `MCProxy` |
| `GatewayDrain` | `server.ts` and `config/redis.ts` of the gateway; composes `GatewayProxy` with the process around it | `MCDrain` |
| `Gateway_proofs` | theorems about `CircuitBreaker`, `GatewayProxy` and `GatewayDrain`, the refinement among them | |
| `Edge` | the gateway's middleware chain and routes, `packages/auth-headers`, `requireUser`, the handlers of `controllers/auth.controller.ts` with their cookies, and the browser; refines `SessionStore` | `MCEdge` |
| `Edge_proofs` | theorems about `Edge`, the refinement among them | |
| `BucketContract` | the promise of a rate limiter: a bucket refilled all the time | |
| `TokenBucket` | `packages/ratelimit` (the Lua script, `consume`, the middleware) with the gateway's presets and keys; refines `BucketContract` | `MCBucket` |
| `TokenBucket_proofs` | theorems about `TokenBucket`, the refinement among them | |
| `ServiceLifecycle` | `server.ts`, `config/redis.ts`, `config/kafka.ts`, `container/auth.container.ts` and the controller promise of user-service; `packages/kafka/producer.ts` | `MCLifecycle` |
| `ServiceLifecycle_proofs` | theorems about `ServiceLifecycle` | |
| `NotificationLifecycle` | `server.ts`, `container/notification.container.ts`, `config/redis.ts` and `config/kafka.ts` of notification-service | `MCNotification` |
| `NotificationLifecycle_proofs` | theorems about `NotificationLifecycle` | |

Definitions whose comment starts with "Slip:" are plausible mistakes in the
code (a dropped check, an off-by-one, a forgotten reset). No specification uses
them: each replaces the definition after it to show that the property named for
it in `PROJECT.json` notices.

### Sessions

A session id stands for the UUID of a login; `session[s]` is the JSON record
with its TTL, `index[u]` the user's set. A request is a slot `req[r]` with the
operation's program counter and the data it has read. Each Redis command is one
action, and what the handler computes up to its next await is part of it:
`Refresh` is `GET` with the comparison of fingerprint and hash, `RefreshRotate`
the `SET`. The middleware is `Authenticate`, `Touch` and `TouchIndex`, after
which the handler starts. `Abort` ends a request at any await.

A token is its claims (`sub`, `sid`, `iat`): a JWT signed twice over the same
claims in the same second is the same string, and the stored SHA-256 stands for
the token. `issued` holds the tokens that reached a client; the answer of a
refresh may get lost. Bcrypt, cookies' attributes and the event published by
login are left out: login catches the publisher's failure and changes nothing.
So is a command that ioredis sends again because its answer was lost: each write
here (`SET`, `SADD`, `SREM`, `DEL`, `EXPIRE`) leaves the same when it is carried
out twice, and whether another's command comes between the two is a matter of
when the one that is modelled takes effect, while the request still waits for it.
The tokens signed at the end of a registration are not in `issued`: no record
is stored for their session id, so every request they authenticate ends with
401 at the first `GET`.

`SequentialSessions` has the same actions and one slot, and a tick of its own
that remembers in `lapsed` which sessions were in an index that ran out: login
and the middleware renew the index, refresh only the record, so a session may
outlive it. `SessionStore` says what is promised of sessions when each request
is one step: an id is given away once, a session opens for one user, only its
latest token is accepted, it ends at once, alone or with the others of its
user, and it never comes back. `SequentialSessions` implements it: a session
lives while its record does, or while a request holds a copy that it will `SET`
(`Live`); the `SET` of login opens it, the `SET` of refresh rotates it, the
`DEL` ends it, and every other command is a stutter. `Edge`, whose handlers are
one step, implements the same `SessionStore`, which is how the two modules fit
together: what `Edge` takes for one step is what the commands amount to when
requests do not overlap. When they do, `LogoutAllEndsEverySession` fails
(disagreement 1), and no such refinement holds.

### Registration

`rate`, `otp`, `reg` and `attempts` are the four kinds of keys and `user` the
table with its unique email. The request of `sendOtp` runs `CountSend`,
`StartWindow`, `SetOtp`, `SetReg`, `Publish` or `PublishFails`, `Delete`;
that of `verifyAndRegister` runs `VerifyOtp`, `CountAttempt`, `StartAttempts`
or `Lock`, `Clear`, `GetReg`, `Create`, `Delete`. A rejected `producer.send`
may have published all the same. Names, passwords and hashes are left out; an
OTP typed is right or wrong. Counters stop one above their limit, where the
code no longer distinguishes them.

user-service's client leaves ioredis's `autoResendUnfulfilledCommands` on: when
the connection is lost after Redis has carried out a command, the command is
sent again and the handler sees the second answer. `ReplyLost` is the first
execution, after which the request still waits. For most commands that changes
little; `INCR` counts twice, and if it was the first of its window the handler
sees 2 and calls no `EXPIRE`, so that the counter never runs out (disagreement
9). The attempts of `verifyAndRegister` have the same gap, where it is only
stricter. ioredis gives up after three retries; the model does not count them.

### IdempotentConsumer

One partition with its log, committed offset, owner and the owner's position;
one key per event with its TTL; one handler per pod. `Reserve`, `Send`, `Mark`
and `Release` are the awaits of `process`, and each has an action for its
failure: the `SET` took effect and its answer was lost, so that `process` throws
or, if ioredis has sent the `SET` again, takes the event for a duplicate of
itself (`ReserveFails`); the provider refused or its answer was lost
(`SendFails`), `markProcessed` or `release` rejected. `release` may also be carried out twice (`ReleaseLost`), the
second time on a reservation that another pod has made meanwhile; `lapsed`
records that a handler was at work after its reservation was gone, for this
reason or because its lease was over. `markProcessed` carried out twice writes
the same. `Crash` may come at any point, `Rebalance` moves the
partition while the handler of the old owner goes on. The OTP and the welcome
consumer have the same code and separate topics, groups and key spaces: they
are two instances, and the model is one.

Kafka is external: at-least-once from the committed offset, one owner at a
time, events published once (`idempotent: true` in `producer.ts`). As long as
the group has committed nothing (`committed = 0`), each new owner starts at the
end of the log, because the runner subscribes with `fromBeginning: false`:
`From` is where it starts, `skipped` the events it passes over. `abandoned` are
the events of handlers that ended without having sent, their reservation left
behind.

`MailContract` says what whoever publishes relies on: an email for each event
and no second one, with two ways out, an event that may be sent again and one
that may be given up. The refinement maps them to what the history knows:
`unmarked`, `doubtful` and `forgotten` events (those whose marker has run out)
may be sent again; those that are `abandoned`, `skipped` or behind a malformed
message may be given up.

### CircuitBreaker

The fields are the class's; `openAge` is `Date.now() - openedAt`, capped at
`recoveryTimeoutMs`, after which the comparison no longer changes. Any number
of calls are in flight; each remembers whether it is a probe, as the local
`isProbe` does. `Execute` runs to the call of `fn`, `Succeed`, `Fail` and
`Timeout` from its settlement to the end. Callbacks (`onStateChange`) are
suppressed when they throw and change nothing here.

`BreakerContract` says what callers rely on: `Trip`, `Recover`, `Probe`,
`Decide`. The refinement maps its `probes` to the number of calls that are
probes, not to the counter of the code.

### GatewayProxy

`exch[c]` is the exchange in the slot `c` of the breaker: where the handler is,
how `execute` ended, who wrote the head of the response, what became of the
response and of the request to the upstream. The module extends
`CircuitBreaker`, and every action that settles a call is one of the breaker's
joined with what happens to the exchange: `Request` is `Execute`, `TimesOut` is
`Timeout`, and whatever ends the response (`UpstreamAnswers`, `UpstreamFails`,
`ClientLeaves`) is `Succeed`, because `done()` is called without an error on
`finish` and `close`. `Continue` is the code after the `await`: a microtask, so
no socket and no timer comes between it and the event that settled `execute`;
`Quiet` says so. Before, the request waits for the limiter's Redis call
(`Arrive`), which lets it pass (`Request`) or answers 429 (`Deny`). A client
that leaves there (`LeaveEarly`) does so before `createProxy` has a listener on
`close`: its call goes out all the same and only the timer ends it, which is
the exception in `EndedIsSettled`.

http-proxy-middleware is external: it passes head and body on, answers itself
when the upstream cannot be reached, and calls `next` with an error only before
it has asked (`Refused`). A body that breaks off is one that never ends.
The headers added, the log lines and the choice of 503, 504 or 500 are in the
`outcome` that causes them.

### GatewayDrain

The process around the proxy: `redis`, `http` (the server), `stage` (how far
`shutdown` is), `tearing` (what `Promise.allSettled` waits for) and `exited`.
`Serve` is a step of `GatewayProxy` in a process that lives, with new requests
only while the server listens; the other actions are those of `server.ts`, and
change nothing of the proxy. `server.close` is `BeginShutdown` and, when no
connection has a response open (`Drained`), `HttpClosed`. A connection that is
open and idle is closed by Node 19 and later, and left out. A signal before the
server listens kills the process; an exception nobody catches, whose handler is
there from the import on, then starts a shutdown that finds no server and goes
to the teardown at once.

`NothingCutOff` is the reason for the composition: it holds because the
limiter's request is counted as open, and because what `createProxy` owes a
client is paid before the connection ends.

### Edge

The tabs of one browser, with a jar of cookies they share, in front of the
gateway and user-service. `req[r]` is a request from when it is sent to when
its answer has arrived or is lost. `Send` is the whole middleware chain up to
the limiter's Redis call, which has no `await`: the verdict on the token
(`Unauthorized`), the scrubbing of headers, the identity injected, the
limiter's key. A handler of user-service is one step (`Login`, `VerifyOtp`,
`Refresh`, `Logout` and so on): its Redis commands are `Sessions` and
`Registration`. `Receive` puts the cookies of an answer into the jar, in
whatever order answers arrive.

user-service sets the access token as `auth_token`, the gateway reads
`access_token`. So a plain browser is anonymous to the gateway; `named` in
`Send` is a client that passes the token on under the gateway's name, and the
properties are about both.

`stored[s]` stands for the session record by the token it accepts. `life` and
`current` are history: whether an id was given to a login or to an OTP session
and whether it has been ended, and whether the last answer to arrive for a
session had its stored token. Fingerprints are a choice in `Refresh`. Paths,
CORS and the `Vary` header are left out.

### TokenBucket

Tokens are fractions in the script. Here a level is counted in units, `Unit` of
them to a token, and `Rate[p]` units flow in per millisecond, so that refilling
is exact; the rounding of Lua's doubles is left out. `Level`, `Allows`,
`ResetMs` and `TtlSec` are the lines of the script, and `Script` its `HSET` and
`EXPIRE`: one atomic step, as Redis runs it. Around it are `evalsha`, `NoScript`
with `SCRIPT LOAD`, and failing open. ioredis sends a command again when the
connection is lost before the answer, and gives up at last: `EvalLost` takes
the token and leaves the caller where it was, or lets it through. `StepBack`
sets Redis's clock back, which `math.max(0, ...)` in the script expects.

`BucketContract` has a level that grows with each tick, and no keys that
expire, and promises nothing once the clock has been set back. The refinement
maps `level` to what the script would compute now and `steady` to `back = 0`. A
token may be lost with its answer (`Waste`) and a request let through without
one (`LetThrough`), so `RateKept` counts tokens taken, not requests that got
through: while Redis is out of order the gateway limits nothing, by design.

### ServiceLifecycle

One process. At import `auth.routes.ts` starts the auth container, and the
container asks for the producer; `startServer` asks for Prisma, Redis and the
producer again. `prod[p]` is the producer created for the caller `p`,
`instance` the one the manager remembers, `conn[d]` the other connections,
`tearing` the disconnects `Promise.allSettled` waits for. An open request is in
`req`: `waiting` for the controller promise or `working`. Signals before the
handlers are registered kill the process; a rejection of the controller promise
is an unhandled one only if no request awaits it, and only then shuts down; an
exception nobody catches (`Uncaught`) does so at any time. `early` records that
`shutdown` found no server. What it disconnects then may still be connecting:
`$disconnect` waits for the connection, `redis.quit()` gives it up and answers
at once (`cancelled`), and `initRedis` fails later.

The container's `catch`, which forgets the rejected promise, is left out: the
routes keep the promise they got at import, so nothing asks again. The
gateway's `server.ts` is `GatewayDrain`.

### NotificationLifecycle

The boot of notification-service is a sequence, `boot` the step it waits for.
`consumer[t]` is the consumer of a topic, `handling[t]` says that a message is
in its handler. Consumers fetch as soon as they have started, before
`bootstrap` is fulfilled and signals are handled; a signal, or a consumer that
cannot start, then ends the process with a handler at work. `shutdown` is the
`await` its function is at: the server, the consumer of the OTPs, that of the
logins, and both shared connections at once. It is called at most once with
effect, and the first caller decides on the exit code. An exception nobody
catches calls it from the import on (`Uncaught`): during the boot there is no
server and no consumer it knows of, so that it goes to the shared connections at
once, whatever consumers already run. `early` records that; `HandlersHaveRedis`
and `NothingCutOff` except such a shutdown, and nothing in the repository is
known to raise such an exception.

kafkajs is external: `disconnect` fetches nothing more and waits for the
handler, or rejects. What a consumer does whose `disconnect` was rejected is not
known, so the model lets it do everything a running one does. Redis connections
that drop and come back are left out, and so is the telemetry.

This module and `IdempotentConsumer` meet in `NothingCutOff`: the crashes
between two calls that `IdempotentConsumer` allows are not what an orderly
shutdown does to a handler.

## The runs

All runs finish exhaustively. TTLs are in ticks: only their order matters
to these handlers, and the bounds keep the order of the defaults.

| run | bounds | shows |
|---|---|---|
| `sessions_concurrent` | 2 requests at a time, 2 users, 2 devices, 2 logins, 2 ticks, TTLs of 1 | the ownership and revocation properties under every interleaving of two requests, with aborts, lost answers, and keys and tokens that expire under a request |
| `sessions_sequential` | 1 request at a time, 2 users, 2 devices, 2 logins, 3 ticks, record and index TTL of 2, refresh TTL 3, access TTL 1 | the properties that hold between requests, with aborts and keys that run out, and that the commands implement `SessionStore` |
| `logout_all_race` | 2 requests | *disagreement*: a session survives logoutAll |
| `breaker_gateway` | 3 calls, threshold 2, 1 probe, timeouts of 2 | safety, contract and liveness for the gateway's `halfOpenMaxTrials: 1` |
| `consumer_faults` | 2 pods, 2 events, 2 faults, 4 ticks, a lease of 2, a marker of 3 | the idempotency properties, the mailer's contract and its progress under faults and markers that run out, from a group without an offset on |
| `registration_otp` | 1 email, 4 session ids, 2 requests, 2 OTPs in a window of 2 ticks, an OTP that lives 1 and takes 1 attempt, 3 ticks; fewer once an OTP is tried (below) | limits, atomicity and the user table under interleaving, with commands sent again and keys that run out |
| `gateway_drain` | 2 exchanges, threshold 2, 1 probe, timeouts of 2 | one answer, a true one, no leaked place, an answer for everybody who stays, and a shutdown that cuts nobody off and ends |
| `proxy_dead_upstream` | the same, without the process | *disagreement*: an upstream that is down does not trip the breaker |
| `bucket_limits` | 1 key, 1 preset, 2 requests, 2 tokens, 4/3 a second, 8 ms of which 2 make a second, 2 faults, a clock set back once | the limiter implements the contract until its clock is set back; the rate and the retry times hold all the same |
| `lifecycle_process` | 2 connections and Kafka, 2 requests | requests find their connections, every disconnect is tried, the producer's too, shutdown ends |
| `notification_process` | none: the module is finite | handlers keep Redis, a shutdown of a process that has started waits for them, and every shutdown ends |
| `edge_browser` | 1 browser with 2 requests at a time, 2 users, 2 session ids, 1 tick, an access token that lives 1 and a refresh token that lives 2 | who a handler acts for, what late, lost and reordered answers do to the cookies, and that the handlers implement `SessionStore` |

The type invariants (`TypeOK`, `ProxyTypeOK`) are proved and in no run. So are
`MarkerIsTrue` and `SecondEmailExplained`, which `KeepsContract` contains,
`MarkerKept`, `ToldIsPublished` and `OnlyTimeoutsTrip`.

Why the bounds are enough for what they show: every action fires in a passing
run. Two requests are the least that race, and each property that could fail
does so, in its mutant or its violation, with two requests, two pods or three
calls. In `edge_browser` two session ids allow a login to meet another login,
or an OTP session; what needs a second refresh of a token has its tick. The
limits are 1 or 2 where the code has 5, because a limit matters at
its boundary; the clock runs long enough for every TTL that is part of the
question to run out: the bucket's TTL is 6 ms where the clock runs 8, and a
full refill takes 3. In `consumer_faults` a marker lives longer than a lease
and runs out within the clock, so that both kinds of redelivery occur; in
`sessions_sequential` an index runs out while a session that refreshes lives on.

`registration_otp` joins two questions in one `CONSTRAINT`. Until an OTP is
tried it explores everything: two OTPs may be sent in a window and four ids are
there, so that three are let through across two windows, and only a fourth would
reach the bound of `SendsBounded`. Once one is tried, no `sendOtp` is at work
any more, and there are two sessions within one tick, or one session and two
more ticks: the first is where two registrations of one email meet, the second
where counters and OTPs run out under attempts in parallel. The two halves can
be looked at apart because `sendOtp` reads nothing that `verifyAndRegister`
writes but the user, who ends the requests for an email. The `VIEW` drops what
is not read any more: the counters of `sendOtp` in the second half, and
`published`.

`CHECK_DEADLOCK FALSE` in the runs of `Sessions`, `Registration`,
`IdempotentConsumer`, `TokenBucket` and `Edge`: their clock, their supply of
ids and their faults are bounded, so that behaviours end there and nowhere
else; and in those of `ServiceLifecycle`, `NotificationLifecycle` and
`GatewayDrain`, whose process exits. `CircuitBreaker` has no such bound and is
checked for deadlock.

### Fairness

`CircuitBreaker`: timers fire and time passes (the event loop; `withTimeout`
guarantees a settlement), and clients keep calling. Not assumed: that a call
succeeds, or that `getState` is called. With `CallTimeout > 0`, as in the
gateway, HALF_OPEN is left and OPEN is probed; without a timeout the first
would be false, since a probe that never settles keeps the circuit half open.

`IdempotentConsumer`: pods take their next step, the group gives its partition
to some pod, and what is resolved gets committed. Nothing is assumed about
faults, which are bounded, about the clock, or about publishing. Progress is
claimed for the messages before the first malformed one: that one throws each
time it is delivered, by design (the comment in `handle`), and what is behind it
counts as given up.

`GatewayDrain`: each turn of the event loop looks at the clock and fires the
timers that are due, however many sockets have events: strong fairness of time
and of each timer. Continuations run. The limiter's call, `initRedis` and the
teardowns settle, one way or the other: ioredis gives a command up after three
retries, `initRedis` after five seconds, the exporter has a timeout. Nothing is
assumed about the upstream or the client, so a hanging upstream is answered for
by the timer alone, and a body that never ends keeps the shutdown waiting
(`ShutdownEndsUnlessHeld`).

`ServiceLifecycle`: connections and disconnects settle one way or the other
(kafkajs, pg and `initRedis` give up after a time), requests are answered, and
the event loop goes on. Signals, uncaught exceptions and requests need not come.

`NotificationLifecycle`: handlers return (every call in them has a timeout or
gives up), disconnects settle, and the event loop goes on. Nothing is assumed
about the boot, messages, signals or exceptions.

`Sessions`, `Registration`, `TokenBucket` and `Edge` state safety only; a
request may stop anywhere.

## Disagreements between the code and what is said of it

Two runs end with a violation, each of something a document or a comment of
the repository states; `PROJECT.json` quotes the lines.

1. A session survives **logoutAll**: the middleware or refresh writes back a
   record it read before the `DEL`, or a login is between `SET` and `SADD`
   (`auth.service.ts:408`, `session.middleware.ts:36`).
2. An upstream that is **down does not trip the breaker**: the proxy library
   answers 502 or 504 itself, the response finishes, and `done()` reports a
   success (`createProxy.ts:73`).

The others are stated in the modules as properties no run checks, with the
sentence they contradict. Naming one in the `.cfg` of a passing run of its
module (`MCSequential_requests.cfg` for 4 and 5) gives the counterexample; the
changes to the bounds that some need are in brackets.

3. `ProbeBound` with **two trials**: entering HALF_OPEN sets `inFlightProbes` to 0
   while probes of the period before may be out, so three run at once
   (`CircuitBreaker.ts:188`) [`HalfOpenMaxTrials = 2`]. With the gateway's single
   trial the bound holds.
4. `IndexOutlivesSessions`: the index **expires before a session** that lives on
   refreshes (`auth.service.ts:297`). `HeldSessionsIndexed` and
   `LogoutAllEndsIndexed` say what does hold: only such a session (`lapsed`)
   escapes the list and logoutAll.
5. `RefreshReplacesToken`: a **refresh within the same second** does not replace
   the token (`auth.service.ts:73`).
6. `NoSilentDrop`: an event is **consumed and never sent** when its reservation
   outlives the handler: the redelivery comes within the lease and is taken for
   a duplicate (`otp-notification.service.ts:45`; the comment in
   `idempotency.repository.ts:22` promises a retry). `DropExplained` says what
   does hold.
7. `NoSecondEmail`: a **second email** when a pod ends between send and mark
   (`otp-notification.service.ts:75`). `KeepsContract` says what does hold.
8. `SlidingWindow`: the OTP limit is a **fixed window** (`otp.service.ts:29`).
   `SendsBounded` says what does hold.
9. `LimitEnds`: a counter of OTP requests that **never runs out**. `EXPIRE` is
   only called when `INCR` answers 1 (`otp.service.ts:31`); an `INCR` that
   ioredis sends again answers 2, and a request cut off between the two calls
   leaves the same. Once over the limit, the email is refused for ever, where
   the README gives the key a TTL of an hour. `SendsBounded` holds all the
   same.
10. `HangProvesNothing`: a client that **gives up before the timeout** makes a
    hang a success, also of the probe that decides a half-open circuit
    (`createProxy.ts:74`). Together with 2: only a client that waits for the
    whole timeout, or one that left before the proxy was called, trips the
    breaker, which `OnlyTimeoutsTrip` puts positively.
11. `RateKept` with **two presets**: the key is the user, so a request to the
    auth routes spends what has flowed in at the default rate
    (`rateLimitMiddleware.ts:25`) [`Presets = {default, auth}`, `TwoCapacity`,
    `TwoRate`].
12. `NeverServesBroken`: user-service **listens during a shutdown** that began
    before there was a server (`server.ts:92`).
13. `ControllerBeforeRequests`: **requests wait for the controller**: `initKafka`
    connects a producer of its own (`auth.routes.ts:12`).
14. `FailsFast`: if that wait ends with a rejection, the request handles it, no
    shutdown follows, and **all auth requests fail from then on**.
15. `NoLiveConnections`: **two producers** are connected and one is closed
    (`producer.ts:21`).
16. `LoggedInIsServed`: **nobody is logged in behind the gateway**, because it
    reads `access_token` (`cookieNames.ts:2`) where user-service sets
    `auth_token` (`cookie.ts:4`); `plan.md:835` expects 200.
17. `ShutdownTerminates` of the gateway: **a body that never ends** keeps
    `server.close` waiting, and nothing else ends the process
    (`api-gateway/src/server.ts:26`; `plan.md:507` lists the steps up to the
    exit).

Four more were found by reading and contradict no property of the models. The
gateway does not drop an inbound `X-Session-Id` of an anonymous request, as
`plan.md:483` says; it names nobody without the other two headers, which
`ActsForVerified` shows. The calls in `plan.md:830` ask for the sessions of a
user who has just registered and expect 200: besides 16, the tokens of
`verifyOtp` name a session that has no record (`ActsInLogin`). The README of
user-service says the middleware compares fingerprints, which it does not, and
that registration sets `emailVerified`, which it does not.

## What is proved

The proofs assume what the modules' `ASSUME`s say (positive TTLs and limits,
`Null` and the like different from everything, finitely many call slots), and
hold for any number of users, sessions, requests and calls.

**Sessions** (`Sessions_proofs`). `TypeOK` is inductive. The properties about
owners are not: `revokeSession` looks at the record's `userId`, `logoutAll`
at the index, `refresh` at a copy, and only together do they agree. The
inductive invariant `IInv` says that every id that is around (in a record, a
token, a copy of a request, an index, the locals of a request about to delete)
belongs to the user, and where it matters the device, in `birth`, the history of
logins. From it follow `RotationBoundToLogin`, and `OnlyOwnerRevokes` as an action
property. `RevocationFinal` needs that a request only ever writes a record
it has a copy of.

With one request at a time more is true. `SequentialIsConcurrent` says that
`SeqSpec` implies `Spec`, so that `IInv` is there for free; `SeqInv` adds what
the one request knows at each command (`Known`): a record it will `SET` back is
that of the session or has run out since, is of a session a client holds, in
the index (or `lapsed`), and has the newest token; what SMEMBERS named is the
whole index; what is to be removed from the index has no record any more. From
it follow `HeldIndexed`, `LatestStored` and `LogoutAllComplete`, and
`ImplementsStore`, the refinement of `SessionStore`, with a lemma for each
command. The refinement needs `Known` where it is least expected: a record may
run out while a request holds its copy, so that `SET` creates a key, and it is
still the same session that lives.

**Registration** (`Registration_proofs`). The argument has two halves. While a
session is being sent, one request owns it (`Owned`): nobody else writes its
OTP or its registration, which are therefore there together when the client is
told, and go together (`Lives`); that is `RegistrationOutlivesOtp`. Once the
client is told, the OTP is never written again and only runs out, and the
counter of attempts was given the same TTL later, so it does not run out first:
each comparison with a live OTP is still in the count (`Counted`), hence
`AttemptsBounded`. `UserMatchedOtp` needs `Begun`, that an email and its
session id belong together at every point of both handlers. `ToldIsPublished` is
inductive. None of this assumes that a counter has a TTL, or that a command is
carried out once.

`SendsLimited` is about a window of time, and its invariant (`Paced`) counts
requests: a window of time meets at most two periods of a counter, so that those
let through in it are at most `RateMax - 1` of the period before and what the
present counter allowed (its value, or the limit if it has gone on counting).
When a counter goes away, what is left in the window was let through after the
first of its period (`Late`): the TTL was set after that one, however late
`EXPIRE` came, so that it is out of the window by then.

**CircuitBreaker** (`Gateway_proofs`). `TypeCorrect` holds for any
options. For `halfOpenMaxTrials = 1`, `SingleProbe` bounds the probes and
`ImplementsContract` is the refinement: initial states map to initial states,
every step to a step of the contract or a stutter. The invariant behind both:
probes exist only while the circuit is half open, and there are as many as
`inFlightProbes` says. It is false for two trials, which is disagreement 3.

**GatewayProxy and GatewayDrain** (`Gateway_proofs`). Three layers, each
implementing the one below: `ProxyUsesBreaker` says that the proxy's steps are
steps of the breaker or leave it alone, `DrainKeepsProxy` that those of the
process are steps of the proxy or leave it alone. So the breaker's type is
cited, and everything about exchanges is proved once, for the proxy, and holds
in the process. `PInv` says what the fields of one exchange say of each other
along its life and that the breaker counts exactly those that wait; from it
follow `TrueErrors`, `OneAnswer`, `OnlyTimeoutsTrip` and `EndedIsSettled`. `DInv`
says that nobody waits before the server listens, after a teardown began and
after the exit, hence `NothingCutOff`.

**IdempotentConsumer** (`IdempotentConsumer_proofs`). The invariant behind
`Exclusive` is ownership: while no handler has outlived its reservation, the key of a
working pod's event holds `PROCESSING` with the expiry that very pod set, and is
alive. `SET NX` then keeps the others out, and `markProcessed` and the script of
`release` only meet their own reservation. `MarkersTrue` needs that a pod about
to mark has sent. `SecondEmail` adds that an event that was sent is marked, or
about to be, unless there is an excuse; a marker that has run out is one
(`forgotten`), so that nothing is assumed about the TTLs. `DropsExplained` rests
on `KeyExplained`, that a key is never there without a handler, an email, or an
abandoned event to account for it, so that a duplicate is one; and on what an assignment skips being in
`skipped`. `ImplementsContract` puts both together: every step is one of
`MailContract` or a stutter.

**TokenBucket** (`TokenBucket_proofs`). A few lemmas carry the arithmetic
(`CeilCovers`, `Monotone`, `Distributes`), so that the rest is linear.
`DenialsAreHonest` holds for any presets and any clock. Its invariant,
`Promises`, says what a denial meant: at the time it named, the level of its
preset reaches a token; another preset can only write a level that is no
smaller for that time. `OnePresetKeepsRate` rests on `Budget`: what was taken
and what is left are at most a full bucket and what has really flowed in. It is
inductive only with `Fresh`, that a key lives longer than its bucket needs to
fill; that is the `+ 1` in the TTL. `ImplementsContract` adds `Forward`, that
no bucket was written in the future while the clock has only gone forward.
That there is one preset is needed: with two `RateKept` is false (disagreement
11). After the clock has been set back the contract promises nothing, because
the level of a bucket then waits for the clock to catch up.

**ServiceLifecycle** (`ServiceLifecycle_proofs`). `LifecycleInv` adds to
`TypeOK` the order of the phases: nothing is torn down before `server.close`
has returned (`Phases`), the server listens after everything has connected and
nothing disconnects before the teardown (`Connections`), requests exist only
while there is a server (`Served`), and what is neither torn down nor pending
has been tried, the producer `shutdown` found among it (`Torn`).
`RequestsServed`, for shutdowns that are not `early`, and `DisconnectsTried`
follow.

**NotificationLifecycle** (`NotificationLifecycle_proofs`). `NotificationInv`
says that there are consumers only once Redis has connected and handlers only of
consumers that run (`Booted`), and that Redis closes and the process exits only
when every consumer is closed or its disconnect has failed, unless the shutdown
began during the boot (`LastOfAll`).
`RedisOutlivesHandlers` and `ShutdownWaits` follow.

**Edge** (`Edge_proofs`). The invariant follows a token from the answer that
carries it to the jar, to the cookies of a request and to what the gateway
verifies: it was signed for an id that was given out and, while the session
lives, for its user (`Minted`). The two cookies travel together: an answer sets
both or neither and never clears the refresh cookie alone, and the access cookie
expires first, so that a jar and a request never mix two sessions (`JarOK`,
`AdmittedOK`). Hence `LogoutEndsItsOwn` and `ActsOnlyForVerified`; with
`SessionsOK`, that a record is that of a login, `ActsOnlyInLogin`; and with what
`current` says of the jar, `ReuseIsExplained`. `ImplementsStore` has a lemma for
each handler: that ending the session of a refresh cookie never touches an id
that was not given out is `Minted` again.

Only model-checked: the liveness properties `OpenIsProbed`, `HalfOpenResolves`,
`EventuallyMailed`, `EverybodyAnswered`, `ShutdownEndsUnlessHeld` and
`ShutdownTerminates` (temporal reasoning with fairness and ENABLED is out of the
prover's reach). Every other property of a passing run is the subject of a
theorem.

## What is not modelled, and the plan

In order:

1. The safety half of the liveness arguments, as invariants: what a handler, a
   probe or a shutdown that is not finished waits for, so that only the
   fairness step stays with TLC.
2. `OtpDelivery`: `Registration` composed with `MailContract`, from the request
   to the email and back.
3. What several gateways do to one rate-limit key and to breakers that are not
   shared: each replica has its own.

Left out for good: rendering of templates, logging and telemetry, schemas,
the readiness probes (they only read), infrastructure files, generated graphs.

# Monihel: verification project

Monihel (`src/monihel/`) is an uptime monitor. Users register HTTP endpoints
through an Express API; BullMQ repeat jobs in Redis make a ping worker visit
each of them; results go to PostgreSQL in batches; outages become alerts,
alerts become digest mails, recoveries become recovery mails. Each box below is
a process of its own (`docker-compose.yml`: one replica each, `restart:
unless-stopped`), and they share PostgreSQL and Redis.

```
 API ──schedulePingJob──▶ ping lanes ──▶ ping worker ──▶ metricWrite ──▶ dbWrite worker ──▶ endpoint_metrics
  │  (repeat jobs, Redis)                 │      │
  │                                       │      └─ alerts, digests (PostgreSQL, Serializable)
  ├─ rows: endpoints, users, tokens       │              │
  └─ cache keys in Redis ◀────────────────┘              ├─▶ digest worker (every 5 min) ──▶ mail
                                           recovery ─────┴─▶ alert worker ──▶ mail
```

This directory holds TLA+ modules translated from that code, TLC instances of
them, and TLAPS proofs. `PROJECT.json` maps every definition to its lines.

## 1. Inventory

| Component | Code | State it keeps | Operations |
|---|---|---|---|
| Ping worker | `workers/ping/index.ts` | alerts; Redis `fails:<id>` (24 h TTL), `alert:lock:<id>` (30 s) | `handlePing`: read config, ping, then the DOWN branch (INCR, EXPIRE, lock, transaction, unlock) or the UP branch (GET, DEL, find, resolve, enqueue) |
| Metric writer | `workers/dbWrite/index.ts` | `batch` in memory, `endpoint_metrics` | collect, flush by worker, by timer and at shutdown |
| Lanes and repeat jobs | `api/src/queues/pingQueue.ts`, `api/src/services/endpointService.ts`, `api/src/index.ts` | endpoint row, repeat jobs of three lanes | create, update, pause, resume, delete, `recreateMissingJobs` |
| Config cache | `endpointService.ts`, `workers/ping/index.ts`, `workers/alert/emailService.ts` | `endpoint:config:<id>` (300 s) | three cache-aside readers, four invalidations |
| Circuit breaker | `workers/ping/index.ts` 33-48 | one breaker for all endpoints | execute, open, half-open |
| Digest worker | `workers/digest/` | `alert_digests` PENDING/SENT | a run every five minutes, without overlap guard |
| Recovery mail | `workers/alert/` | the `recovery` queue | one job per recovery, five attempts |
| Dead letter queue | `pingQueue.ts` 148-188 | `ping-dlq` | a `failed` event listener |
| Sessions | `authService.ts`, `routes/auth.ts`, `middleware/auth.ts` | refresh tokens in families, cookies | register, login, refresh with rotation and reuse detection, logout, logoutAll |
| Email verification | `authService.ts` | verification tokens | verify, resend |
| Licenses | `routes/licenses.ts`, `api/src/index.ts` | activation of a key | activate, deactivate, webhook, startup validation |
| WebSocket gateway | `websocket/gateway.ts` | connected clients | publish what Redis pub/sub says |
| SSRF filter, validation | `utils/ssrf.ts`, `utils/validation.ts` | none | pure functions |
| HTTP application, infrastructure, scripts | `app.ts`, `lib/`, `config/`, `scripts/`, `test/` | none of interest | routing, configuration, tooling |

How they interact. The API and the ping worker never call one another: the API
writes rows, repeat jobs and cache keys, the worker reads them later. The ping
worker talks to the metric writer and to the mail worker through BullMQ queues
(at-least-once delivery, retries) and to the digest worker only through rows
of `alert_digests`. Nothing spans PostgreSQL and Redis atomically.

What is hard.

* *Interleaving.* A worker has 20 jobs in flight, two of them may be of one
  endpoint; every `await` is a place where another job, a request, an expiry or
  a deletion comes in between. `setInterval` starts a flush or a digest run
  while the last is still going.
* *Partial failure.* A handler is a sequence of commands to two stores with a
  `catch` that only rethrows; any prefix of it may have happened.
* *Redelivery.* A job is run again after a rejection (up to three attempts) or
  when its worker stalls, with its earlier effects still there.
* *Time.* The 30 s lock, the 24 h counter, the 300 s cache and the 5 minute
  digest all run out on their own.

What makes each component correct.

* Ping worker: one open alert per endpoint; an alert only for a streak of
  failures as long as the threshold; each recovery announced, at most once; a
  lasting outage alerted and a lasting recovery noticed.
* Metric writer: no row is lost while the process lives, less than a batch from
  each place rows are in when it dies, and none in an orderly shutdown.
* Lanes: the repeat jobs say what the row says, in one lane only.
* Config cache: it serves what the row says, or soon does again, and pings
  keep their credentials. Breaker: it closes again, and no ping hangs on it.
* Digest: every alert is mailed, once, and only what was mailed is marked.
  Recovery mail: it arrives, or its failure is on record in the dead letter
  queue.
* Sessions: one live token per family, a reused or logged-out family stays
  dead, an honest browser is not thrown out. Verification: the link that works
  is the one the user was sent.
* Licenses: one instance per key.

`PROJECT.json` lists every hazard at its line with the property that covers it.

## 2. Plan

The order is that of importance: the alert lifecycle first, since it is what
the product is for, then what feeds it, then what it feeds.

| Module | Models | State |
|---|---|---|
| `AlertLedger` | abstract: alerts of an endpoint are triggered, resolved, announced | done |
| `PingWorker` | `handlePing`, implements `AlertLedger` | done, 10 theorems |
| `MetricWriter` | the dbWrite worker | done, 4 theorems |
| `EndpointSchedule` | lanes, endpoint handlers, startup sync | done, 4 theorems |
| `AlertMail` | digest worker, recovery mail worker and dead letter forwarder, composed with `AlertLedger` | done, 4 theorems |
| `PingProbe` | config cache and circuit breaker | done, 2 theorems |
| `Sessions` | refresh-token families, cookies, email verification | done, 5 theorems |

`AlertLedger` is the seam: `PingWorker` implements it and `AlertMail` is built
on it, so what the mail workers are shown to do holds for the alerts the ping
worker makes. Every safety and action property of the passing runs is also
proved (section 6). `AlertMail` takes its ledger steps from `AlertLedger` itself,
so there is no refinement to show there. What is left is modelling: the
licenses, should more of the product come to depend on them.

## 3. Modules and how they correspond to the code

### AlertLedger

What the Alert table and the recovery queue promise, without jobs, locks,
counters or retries. An alert is `free` (no row yet), `TRIGGERED`, `RESOLVED` or
`deleted`, and `announced` holds those with a recovery queued. `Trigger` needs
that the endpoint has no open alert, `Announce` that the alert is closed.

### PingWorker

One action per `await` of `handlePing`. A job is a slot with a program counter
named after the command it does next: `waiting` (read the config), `ping`, then
`incr`, `expire`, `lock`, `begin`, `commit`, `unlock`, or `get`, `del`, `find`,
`resolve`, `enqueue`. Around them:

* `CallFails` (a command rejects: the handler rethrows, `Retry` runs it again
  or it ends; the `finally` of the lock runs as in the code),
  `CommitUnacknowledged` and `ResolveUnacknowledged` (the database did it, the
  worker saw an error), `Crash` (the process
  of a job dies; BullMQ redelivers the job or gives it up);
* `ExpireCount`, `ExpireLock` for the two TTLs;
* `GoDown`, `GoUp` for the monitored service, `ChangeConfig` for a pause or a
  mute, `DeleteRow` and `ClearKeys` for the two halves of `deleteEndpoint`.

The transaction has two steps: `Begin` takes the snapshot with `findFirst`;
`Commit` opens the alert and dooms every other transaction that read "none" for
the endpoint (PostgreSQL's Serializable), and a doomed one, or one whose
endpoint was deleted, is `CommitRejected`. Error paths exist exactly where the code has an `await`.

The rigid variable `mode` says which faults this behaviour may see and whether
jobs of one endpoint overlap. A property that a fault falsifies names the
faults it is spared (`Sheltered`, `Spared`), and one run checks each property
under the maximal combinations it can stand.

### MetricWriter

`batch` is a sequence of rows, `flight` the INSERTs under way. `Collect` is
the worker (push, then `flushBatch` if the cap is reached), `TimerFlush` the
unawaited `setInterval`, `Signal`/`ShutdownFlush`/`Exit` the shutdown. The table
`stored` is a set of rows and `Insert` a union, since `ON CONFLICT (endpoint_id,
timestamp) DO NOTHING` with the timestamp of the job makes a second INSERT of a
row do nothing; `ForeignKeyFails` is a batch with a row of
a deleted endpoint, `DatabaseFails` any other rejection, both followed by
`PutBack`. `Crash` and `Restart` empty the memory; unfinished jobs come back.

### EndpointSchedule

One endpoint's row and its repeat jobs, as pairs of lane and interval. A
request is a record of what it still has to do: the database write, the lane
search (one lane per `await`), removal, addition. In pause and delete the write
and the search run in a `Promise.all`, so in either order and with neither
undone when the other is rejected. `BootRead` and `BootScan` are
`recreateMissingJobs`, from the first start and from every `Restart` on. The API
listens before it checks its license and syncs, so requests are served beside the
sync; `mode.overlap` says whether requests may run beside one another,
`mode.early` whether they may run beside the sync, and a property names which of
the two it can stand (`OneByOne`, `Serial`).

### AlertMail

The ledger's actions, with what they leave behind: `Trigger` adds the PENDING
digest row that the ping worker creates in the same transaction, `Announce` the
recovery job, `Delete` takes the digest rows (ON DELETE CASCADE) but not the
jobs. A call of `runDigest` is a record `run[r]`: `Tick` reads the PENDING rows,
`SendDigest` mails those of one user, `Mark` is the transaction that follows; the
order of the users is left open. `SendDigestFails` and `MarkFails` are the
`catch` of the loop, which goes on with the next user; a mail may have gone out
although the call failed. A recovery job goes `waiting`, `send`, `sent`,
`done`, back to `waiting` with one attempt more, or to `failed`; `Fetch` finds
the endpoint in the cache or the database, or neither. Two jobs stall differently from two that
throw: BullMQ gives up after the second stall with attempts left. `Forward` is
the listener of `pingQueue.ts`, which only hears what fails while the API is up,
and only forwards a job that the queue still has (`kept`, the last `FailedKept`
failed ones, `removeOnFail`) and that has used up its attempts.
`digests[a]` and `recoveries[a]` count mails up to two.

### PingProbe

One endpoint. Its row is a version number, `mode.auth` says what credentials
each version has (or that it is paused or muted), and the cache holds a version
with the credentials it was stored with. A process is a record `proc[p]`: a ping
job, a GET, a recovery mail or a write. `CacheGet`, `Load`, `Fill` are the three
awaits of the cache-aside readers; `Load` keeps the `select` of `getEndpoint`,
which leaves `authValue` out. `Create`, `Update` (also pause and resume) and
`Delete` write the row, `SetCache` and `DelCache` the key afterwards, and `Abort`
comes between. A ping that has its config goes through the breaker:
`FireClosed`, `FireRejected` or `FireTrial`, according to its state. Credentials
that do not decrypt throw at once, before the request (`Broken`); everything
after that is returned, never thrown (`Return`), and so a success to the
breaker. The breaker is one for all endpoints: `BeginElsewhere` is a job of another
one, which comes to it with credentials that can be decrypted or not
(`mode.elsewhere`), and whose throws open it like those of this endpoint.

### Sessions

One user's account. A request is a record `req[s]` with one action per await of
`authService.ts`, from `Begin...` (the route) to `Answer` (the cookies). One await
is taken together with another: the mail of a registration, which the code sends without
waiting for it, leaves in the step that creates the account.
`IssueCreate` and `IssueStore` are the two writes of `issueTokenPair`;
`RefreshLookup` branches on expired, revoked and live, `RefreshRevoke` is the
reuse branch. The cookie a request is sent with is read when it begins, which is
what makes two tabs of one browser interesting. `ended[f]` is a history: how
family `f` was first ended, recorded only when no other refresh of it is
already past its check. Expiry reaches tokens in the order of issue, since all
have one lifetime.

## 4. Runs

| Run | Instance | Shows |
|---|---|---|
| `ping_safety` | 1 endpoint, 2 jobs, 2 alerts, threshold 2, 2 attempts, seven modes (1.6 M states) | at most one open alert and refinement of the ledger under every fault at once; the other properties under each fault they can stand |
| `ping_live` | 1 endpoint, jobs one by one, locks expire | a lasting outage is alerted, a lasting recovery closes the alert |
| `ping_missed` | two modes: two overlapping jobs; the counter expires before the next ping | *violated*: an alert that no UP ping ever closes |
| `metric_safety` | 3 rows, batch cap 2, 2 timers, six sets of faults (0.5 M states) | no loss in a living process, less than a batch at a time in a crash, undisturbed shutdown stores all; every row is stored in the end when there are only rejected INSERTs, or only shutdowns |
| `metric_wedge` | one deleted endpoint | *violated*: its row blocks the others for ever |
| `metric_shutdown` | a flush rejected during shutdown | *violated*: rows of completed jobs are lost |
| `schedule_safety` | 2 requests and the startup sync, 2 lanes, 2 intervals, four modes (1.7 M states) | lanes match the row and never hold two jobs for requests with nothing beside them; active means scheduled after crashes, with requests beside the sync, and with overlapping updates |
| `schedule_updates` | two modes: two overlapping updates of a created endpoint (reported, the shorter one); requests one by one beside the startup sync | *violated*: repeat jobs in two lanes |
| `sessions` | 2 browsers, 2 requests at once, 3 tokens, 2 links, four modes (2.6 M states) | rotation, reuse detection, logout and verification links under two tabs, lost replies, expiry and refused mail, each property under the faults it can stand |
| `mail` | 2 endpoints of one or two users, 2 alerts, 2 digest runs, 3 attempts, 2 faults, 1 failed job kept, eight modes (0.2 M states) | no unmailed row is marked; one digest where nothing fails, and no recovery lost but those their own queue dropped; alerts and recoveries are mailed in the end |
| `probe` | 2 pings and 1 client or 1 ping and 2 clients, 2 versions of the row, other endpoints with and without readable credentials, three modes (0.1 M states) | when the cache is current, that it becomes so again, that this endpoint does not keep the breaker open, and that nothing waits for ever |
| `probe_credentials` | 2 pings and 1 client, one request at a time | *violated*: a ping without its credentials after a GET |

Bounds, and why they are enough. All Redis keys and alerts of one endpoint are
its own, so endpoints interact only through the number of jobs in flight; one
endpoint with two jobs shows every pairwise interleaving, and the invariants
proved in section 6 hold for any number. Two alerts let an old, resolved alert
coexist with a new one. Threshold 2 is the least for which "below the
threshold" and "an UP ping in between" differ; the counter is capped at
`CountCap = 2`, the threshold, above which the code only compares. Two attempts
give one retry. Batch cap 2 with three rows gives a full batch and a rest; two
timers give overlapping flushes. `MaxErrors` (2) bounds the
rejected INSERTs of a behaviour: one for the flush and one for its retry. Two lanes give "found in the first",
"found in the second" and "not found"; the third is like the second.
Three tokens give a family and its two successors, or two families of which one
rotates; two links give an old one and its replacement. In `mail` two faults
stay below the three attempts (five in the code), and a bounced mailbox, which is not
counted, exhausts them. One failed job kept (100 in the code) and two alerts are
enough for the second failure to evict the first. Two versions of a row are a write and what it made stale;
the breaker has its real threshold, 3.

`CHECK_DEADLOCK FALSE` is given where the system really stops: an endpoint or a
worker that is deleted or shut down has nothing left to do.

## 5. Fairness

`PingWorker`: weak fairness of each job's `HandlerStep` (Node's event loop runs
a continuation once its promise settles, and the drivers settle every command)
and of `Tick` for each endpoint (its repeat job comes back every interval).
`MetricWriter`: weak fairness of the flush timers, of the answer to each INSERT
in flight, of the steps of a shutdown and of `Restart` (`restart:
unless-stopped`), and strong fairness of `Collect` for each row, because BullMQ
delivers a waiting job again after every restart, which weak fairness, broken by
each shutdown, would not give. Nothing is assumed of the environment: an
outage, a crash, an error, a deletion or an expiry may happen or not.
`AlertMail`: weak fairness of `Tick` (the interval; that it starts a run at all
when rows are PENDING), of each run's next step (every call of the driver or the
mail server is answered or times out) and of each job's (BullMQ delivers what
waits). Not of `Forward`, `ApiStarts` or anything a user does.
`PingProbe`: weak fairness of the repeat job, of every step of a reader or
writer that awaits a reply, of `Expire` and `CoolDown` (clocks) and of `Return`
(axios has a 10 s timeout); strong fairness of a ping's turn at the breaker,
because one that awaits the trial is resumed, by its promise, as soon as the
trial has ended and before a later call can begin another. Of `BeginElsewhere`, as
of every request, nothing is assumed. Weak fairness would
allow a trial to be under way each time it looks.
`EndpointSchedule` and `Sessions` have no liveness property and no fairness.

## 6. Proofs

Every safety and action property of the passing runs is a theorem of the
specification, for every value of the constants; the runs show the same on
small instances, and showed it, and the less obvious of the invariants below,
before the proof was tried.

`PingWorkerProofs` and `PingJobProofs` prove, for all sets of endpoints, jobs
and alerts, any threshold up to the cap and any combination of faults:

* `TypeCorrect`: `Spec => []TypeOK`.
* `OneOpenAlert`: `Spec => []AtMostOneOpenAlert`. The property alone is not
  inductive, because `Commit` opens an alert on the strength of what `Begin`
  read. The invariant `LedgerInv` adds `CommitIsFresh` (a transaction that
  passed its check and was not invalidated has no open alert to meet) and
  `TargetExists` (the alert an UP job resolves is one of its endpoint's that
  was created). The lock plays no part: the proof shows that the Serializable
  transaction alone carries the property, which is why it survives an expired
  or stolen lock.
* `ImplementsLedger`: `Spec => LedgerSpec`. Initial states map to initial
  states; `CreateAlert`/`Commit` to `Trigger`, the resolve step to `Resolve`,
  `Enqueue` to `Announce`, `DeleteRow` to `Delete`, and every other step to a
  stutter, under `LedgerInv`.

* `LockExcludes`: `Spec => []LockExclusive`, with the strengthening
  `HolderHasKey`: whoever is between SET NX and DEL still has its key, so the
  unconditional DEL of `finally` frees no one else's.
* `RecoveryOnce`: `Spec => []RecoveryAtMostOnce`. The invariant `RecoveryInv`
  says that jobs of one endpoint are alone (`Alone`), that what a job is about
  to close or announce is an alert of its own endpoint not announced before
  (`HandsMatch`), and that an announced alert is closed (`AnnouncedIsClosed`),
  which is why a later `findFirst` cannot find it again.
* `CountersExpire`: `Spec => []CounterExpires`, inductive by itself: only `Incr`
  from zero leaves a counter without a TTL, and the job that did it is at `Expire`.
* `RecoveryKept`: `Spec => []NoLostRecovery`, inductive given `TargetExists` of
  `LedgerInv`: two overlapping jobs may close the same alert, but neither can make
  the other's stand for an alert that does not exist.
* `CounterRemembersAlert`: `Spec => []OpenAlertIsCounted`, and
  `UpPingAlwaysCloses`: `Spec => UpPingClosesAlert`. That an open alert is
  remembered (`Remembered`) is preserved by `Commit` only since a job past INCR
  still finds its count there (`FailsOnRecord`), and by the step that resolves,
  after the counter is gone, only since the alert it closes is the only open one
  of its endpoint (`OnlyTargetOpen`); a deleted endpoint has none
  (`DeletedIsClosed`). Their
  conjunction `CountInv` needs `Alone` of `RecoveryInv` and the single open alert of
  `LedgerInv`, so `SafeInv` is the three together.
* `StreakBeforeAlert`: `Spec => AlertNeedsStreak`. `StreakInv`: the counter is
  never above the streak of failed pings, except between an UP ping and its
  DEL, and a job past the comparison has a streak that reached the threshold. A
  rejected call or an expired counter only makes the counter smaller than the streak.

`PingProbeProofs`, for any number of pings, requests and versions of the row,
from one invariant, `ProbeInv`:

* `CacheStaysCurrent`: `Spec => []CacheIsCurrent`. That the key is current says
  nothing of what a reader is about to store in it. `Filled` adds that: without
  a write between read and SETEX, a reader holds the row's version. `Unwritten`
  (nothing is cached or read before the row exists) makes the first write
  harmless, and `DelByOthers` keeps the DEL of a write with the request that
  made it, so that only `Abort` can drop it.
* `ProbeTyped`: `Spec => []TypeOK`, with `FillsOwn`: what a reader stores is a config
  of this endpoint, never what a job of another one brought along.

`MetricWriterProofs`, for any rows, endpoints, batch size and number of timer
flushes in flight, from `WriterInv`:

* `NoRowLost`: `Spec => []NoSilentLoss`. A flush overwrites what it has in
  flight, so it must find nothing there. `FlushOwners` says so of the worker,
  whose flush ends before its job does, and of shutdown; `RowsKept` is the
  property, extended to the jobs still active.
* `CrashLossIsBounded`: `Spec => []CrashLosesLessThanABatch`. `BelowCap`: where
  nothing is put back, the batch stays below the cap, because the job that fills
  it takes all of it; so timers and shutdown take less than the cap, and only the
  worker's flush may hold as many rows, the last of them that of the active job,
  which BullMQ delivers again. A sequence has no more members than places
  (`RangeBound`), which turns lengths into numbers of rows.
* `ShutdownIsClean`: `Spec => ShutdownPersists`. `OneBatchLeft`: being below the
  cap, the batch goes into one flush whole, and it is empty once shutdown has
  flushed.
* `WriterTyped`: `Spec => []TypeOK`, with `AttemptsLeft`: a job that may still run
  has an attempt left.

`EndpointScheduleProofs`, for any requests, lanes and intervals, from
`ScheduleInv`. The properties speak of quiet states; what carries them there is
what each request knows half-way (`InStep`): lanes it has passed are empty, a job
it found is the only one, it adds to empty lanes, and without faults it works
from the row as it is.

* `AtMostOneJob`: `Spec => []OneRepeatJob`, by `InOrder`: one request or the startup
  sync at a time is at work, and is in step, after failed writes and crashes too.
  It is stated where requests wait for the sync, since beside it it is false
  (`schedule_updates`, second mode).
* `JobFollowsRow`: `Spec => []LanesMatchRow`, from the part of `InStep` that needs
  no faults.
* `ActiveKeepsItsJob`: `Spec => []ActiveIsScheduled`. `Scheduled`: an active endpoint
  without a job has a request that still adds, a pause or delete that still
  writes the row, a startup sync still to read it, or a process that is down.
  Nothing here needs the sync to be alone (`OneRequest` is about requests only), so
  it holds for requests served beside it.
* `ScheduleTyped`: `Spec => []TypeOK`.

`AlertMailProofs`, for any alerts, owners and runs, every overlap and fault:

* `MarkedAfterMail`: `Spec => []SentWasMailed`. The invariant `MailInv` adds
  `MarkedIsMailed`, which says of a run between its mail and its transaction
  that every row of its group has been mailed. A mail is never unsent, so no
  other run, crash or rollback can falsify it.
* `RecoveriesAccounted`: `Spec => []NoRecoveryUnaccounted`. `TellInv` follows a
  job from its mail on: past it, a mail was sent; failed, it is with the listener,
  in ping-dlq, or no longer among those its queue keeps; and what the listener
  hears has used up its attempts, or the guard of the forwarder would drop it as
  one to be tried again.
* `OneDigestPerAlert`: `Spec => []DigestAtMostOnce`. `OnceInv`: one run is at work,
  its rows still to do are PENDING and unmailed, and an alert that was mailed and
  is still PENDING is in the group about to be marked. So the next run's query
  does not find it. `MarkedIsMailed` keeps group and rows to do apart.
* `MailTypesHold`: `Spec => []TypeOK`, with `JobsBounded`: a job that can be
  delivered has attempts left.

`SessionsProofs`, for any browsers, tokens and requests:

* `EndedStaysDead`: `Spec => []EndedFamilyIsDead`. `RequestFits` says of each
  request between two commands what its last read still guarantees: a refresh
  past its check has a token of a family not in `ended` (the history variable
  leaves out a family that such a refresh is still at work on, which is the
  exception the property makes), and a login starts a family nobody has `Seen`;
  so no insert revives an ended family.

`TokenRotationProofs`, for any browsers and tokens and finitely many requests,
adds to that invariant:

* `RotationLeavesOne`: `Spec => []OneLivePerFamily`. `RotationInv`: each browser
  has one request (`OneTabEach`), no two browsers hold tokens of one family, in
  the cookie or in an answer on its way (`OneBrowserPerFamily`), so a refresh
  past its check is alone with its family (`RotatesAlone`): its token is the one
  usable before the revoke, and none is left when it issues the next.
* `CookieStaysGood`: `Spec => []CookieWorks`. `CookieInv`: no family is `breached`,
  because a refresh presents what is in the jar (`CookieFits`) and that is good
  unless the browser's own request is exchanging it (`Exchanging`).
* `OwnerGetsLink`: `Spec => []LinkReachesOwner`. `LinkKnown`: the link of an
  unverified account is in the inbox or in the hands of the request about to mail
  it.
* `SessionsTyped`: `Spec => []TypeOK`. That links never exceed their bound counts
  the requests that will still store one, which is where the finiteness comes in.

Assumptions: those named in the modules, which TLC evaluates in each run, and
nothing else. They give the constants their types (bounds and thresholds are
numbers, `Modes` is a set of modes), keep the `No...` values and the names of
processes outside the sets they stand for, and bound no set except one:
`SlotsAssumption` of `Sessions` has finitely many requests at a time, since the
links they will store are counted. `ThresholdAssumption` has thresholds up to
`CountCap`, where the model stops counting.

Only model-checked: the liveness properties (`OutageIsAlerted`,
`RecoveryIsNoticed`, `EventuallyStored`, `AlertIsMailed`, `RecoveryIsMailed`,
`CacheConverges`, `BreakerRecovers`, `ProbesEnd`), since fairness and ENABLED
are beyond the prover. The five properties that runs show violated have no
theorem, of course.

## 7. Where code and documentation disagree

1. `workers/ping/index.ts` 119-121 takes the failure counter as a proof that
   an alert may be open. The counter is gone when its TTL runs out between the last
   failed ping and the UP one, in particular during a pause or mute, and when an
   overlapping UP job deletes it (`ping_missed`); the alert then stays TRIGGERED
   until the next outage ends.
2. `workers/dbWrite/index.ts` 65-69 puts a rejected batch back whole: one row
   of a deleted endpoint holds up the metrics of all (`metric_wedge`).
3. `workers/dbWrite/index.ts` 121-129 flushes once at shutdown
   (`metric_shutdown`).
4. `pingQueue.ts` 95-112 searches, removes and adds in separate awaits
   (`schedule_updates`): one update adds its job in a lane that an overlapping one
   has already found empty, and of the two jobs one keeps pinging after pause or
   delete. The startup sync adds jobs while requests are served (`api/src/index.ts`
   93-97), with the same result; TLC finds that too, in 16 states, when the run is
   given only its second mode.
5. `endpointService.ts` 167 caches the reply of GET, without `authValue`, under the
   key the ping worker reads (`probe_credentials`): looking at an endpoint with
   a cold cache makes its pings anonymous for up to five minutes.

Seen while modelling, without a run of their own: the comment at
`authService.ts` 200 says an unverified user "can't create endpoints until
verified", but `createEndpoint` does not look at `emailVerified`. The
comment at `workers/ping/index.ts` 34 has "consistent failures (e.g. DNS storms,
runaway target)" open the breaker, but `pingEndpoint` returns those as DOWN, so
only credentials that do not decrypt count. `sendDigestEmail` says "currently
DOWN" of alerts that may be RESOLVED by then. A user with two tabs that refresh at the same time
is taken for a thief, or gets two live tokens of one family; the README of the
program promises neither. The dead letter forwarder (`pingQueue.ts` 157-159) forwards
neither a job that was failed for stalling, with attempts left, nor one that
`removeOnFail` has dropped by then, although its comment (145) speaks of all "terminal
failures"; `NoRecoveryUnaccounted` names both as exceptions.

## 8. Assumed of code that is not here

BullMQ delivers a job again when its worker stalls or its handler rejects with
attempts left, and calls no handler twice for a completed job;
`getRepeatableJobs` returns the `id` the code compares with. Redis commands of
queue connections wait rather than reject (`maxRetriesPerRequest: null`).
PostgreSQL's Serializable rejects one of two transactions whose reads and
writes cross. `pool.end()` of pg waits for clients in use. A job that stalls is redelivered
once and then failed, whatever attempts it has left, and its `failed` event
reaches only listeners connected at the time. Whether BullMQ accepts a custom
job id with a colon, which `pingQueue.ts` 171 gives it, depends on its version;
the fault `refused` stands for an `add` that throws. cockatiel's breaker counts
consecutive rejections, and lets the first call after `halfOpenAfter` through as a trial the others
await. A mail counts as sent when the mail server took it. None of these
libraries is in the repository; the actions that stand for them are marked
external in `PROJECT.json`.

## 9. Not modelled

Licenses (`routes/licenses.ts`): routes of the vendor's server, which an
installation asks once at startup and does without when it does not answer
(`api/src/index.ts` 53); nothing of the monitoring depends on their state. Their
race of two first activations and the mail that is not retried are listed as
hazards without a property. The WebSocket gateway: fire and forget, no state to relate. Also routing, validation,
encryption, logging, Prometheus metrics, seeds and load tests. Mute and pause
are one thing in `PingWorker` and `PingProbe` (the handler returns before the ping); the
contents of mails, URLs and responses are abstracted away everywhere.

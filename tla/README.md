# Formal model of discord-patch-bot

discord-patch-bot is a Discord bot written in TypeScript. It follows games and sources
(updates, discounts, DLC, future releases, YouTube channels, player counts, price alerts),
posts what is new in the channels of the guilds that subscribed, and moderates those guilds.
It keeps its state in MongoDB, may share a cache over Redis, and may run as several
processes (a web role and worker roles) that must not do the same work twice.

This directory holds TLA+ models of that program, TLC configurations that check them on
small instances, and theorems about them that TLAPS checks for every value of the constants.
Paths below are relative to `src/src/` unless they start with `src/`.

Run a check with `tlc -config MCDbLock.cfg MCDbLock`, a proof with `tlapm DbLock_proofs.tla`.

## 1. The system's parts

| Part | State it keeps | Operations | What is hard | What makes it correct |
|---|---|---|---|---|
| **Database lock** `infra/mongo/locks.ts`, `app/scheduler/lockHeartbeat.ts` | `locks` documents (ownerToken, lockedUntil); per process the token, the timer, the count of consecutive errors, the lostLock flag | acquire, renew, release, heartbeat tick and stop | leases that run out under a slow process, replies lost after they were applied, late calls of former owners, crashes, shutdown | one worker at a time; a heartbeat never dies silently; nobody touches another owner's lock |
| **Notification outbox** `features/notifications/notificationOutbox.ts`, `outboxRepository.ts`, `outboxStateMachine.ts`, `outboxDelivery.ts`, `outboxDeliveryFinalizer.ts`, `outboxRuntimeFactory.ts`, `notificationFailurePolicy.ts` | `notificationOutbox` jobs, `notificationOutboxSent` markers, `notificationDeadLetterReplay` payloads, the messages in the channels | enqueue, claim, validate, verify, post, accept, mark, retry, dead-letter, sweep | overlapping drains, leases never renewed, a crash between post and record, lost answers, failed audits | nothing lost, nothing posted twice without an excuse, finished jobs final, every job settles |
| **Outbox worker** `app/scheduler/outboxWorker.ts`, `rearmingTimer.ts` | timer, draining flag, lostLock, the pause flag in `system` | tick, drain under the lock, report, stop | two ticks before the draining flag is set; a pause longer than the TTL of the jobs; stop against a drain in flight | one drain per lock; a paused queue keeps its jobs; drains resume |
| **Outbound channel, rate limiter** `outboundChannel.ts`, `discordRateLimiter.ts` | token bucket, promise chain | direct or queued delivery, acquire | bucket at zero and at its cap, waits capped below the need | the rate promised to Discord; order of the waiters |
| **Notification cycle** `notificationCycle.ts`, `notificationBatchExecutor.ts`, `seenRepository.ts`, `rollbackReporter.ts`, `notificationCycleRepository.ts` and the services built on it | seen claims of a guild, its subscription and channel, the batch in memory | claim, prepare, send in chunks, roll back, disable after a channel error | an unsubscription between read and write, a crash after a claim, a chunk that fails, a channel changed meanwhile | each item announced once or released again; an error of an old channel disables nothing new |
| **Pending updates queue** `pendingUpdatesQueue.ts`, **price alerts** `priceAlertService.ts`, **subscriptions** `subscriptionService.ts` | queued updates, alert prices and triggers, initialization flags | queue and flush, trigger and roll back, start and stop | edits between a cycle's read and its write | no alert lost or doubled by an edit |
| **Dead-letter log and replay** `deadLetter.ts`, `deadLetterRepository.ts` | capped log per guild, replay payloads | record, list, delete, delete for a reset | nothing in the program calls the replay: payloads end with the reset of a guild or their age | a dead letter keeps its payload |
| **Operation journal** `shared/operationJournal*.ts` | `operationJournal` entries: status, lease, attempts, leaseVersion, resourceVersion | run journaled, heartbeat, execute, recover | leases lost while an executor runs, recovery racing a live run, operations superseded by newer ones | terminal entries final; one holder of a lease; an older operation never replaces a newer one |
| **Guild slice copies** `shared/guildDomainSliceStore.ts`, `features/admin-records/journaledSliceCopy.ts` | slices of a guild's settings, the journal of copies | journaled copy and its recovery | a crash between two slices | the copy is all or resumed |
| **Guild settings cache** `infra/mongo/guildSettings.ts`, `guildSettingsEventBus.ts`, `infra/redis/guildSettingsInvalidationChannel.ts` | LRU map with expiry, event bus, Redis channel | get, update, invalidate, remote invalidation | a load that started before a write fills the cache after its invalidation | staleness bounded by the TTL; own writes seen |
| **Migrations** `infra/mongo/migrations.ts` | migrationState, the migration lock | run all, wait for another instance | the lock is not renewed while a migration runs | each migration recorded once and in order |
| **Cron and scheduled tasks** `app/scheduler/cron.ts`, `cronJobRunner.ts`, `scheduledTaskRunner.ts`, `housekeeping.ts` | cycle in flight, abort signal, health window, timers | tick, run under the lock, abort, stop | stop against a cycle that waits; overlap of runs | no two cycles; stop waits for the cycle |
| **Lifecycle** `app/lifecycle/`, `app/runtime/` | shutting-down flag, active ingress, active locks | boot phases, tracked ingress, ordered stop, release of locks | a stop that waits for what was stopped; locks released while a job still runs | locks released only when every job stopped; shutdown ends |
| **Sources and HTTP client** `sources/`, `infra/http/` | circuit breakers, source health, requests in flight, conditional cache | fetch with retries, share a fetch in flight, count failures, open and reset the circuit | results out of order, a reset decided by what was read before | answers are current; a source left alone has failed, and somebody was told |
| **Player counts** `features/player-count/` | watch list with versions, observations | start watching, claim an observation, signal a change | two processes claim one observation | one signal for each change |
| **YouTube** `features/youtube/` | subscriptions, last video, delivery state | poll, claim, deliver, roll back | failed deliveries, edits of a subscription meanwhile | a video announced once or retried |
| **Moderation** `features/moderation/` | warnings, timed sanctions | warn, sanction, expire | expiry against a manual lift | a sanction ends once |
| **Command security** `features/command-security/` | permission requests, anti-raid incidents and windows, channel locks, ad-protection | request and approve, detect and contain, lock and recover | approvals racing expiry, a crash between lock and record | one decision for each request; a channel and what is stored of it agree, or somebody knows |
| **Commands, caches, cooldowns, snooze** `features/command-*` | cooldown maps, caches, snooze rows | handle an interaction | eviction at the limit | limits keep |
| **Admin records and backups** `features/admin-records/` | audit log, config backups | record, back up, restore in steps | a restore that fails half way | what was restored is reported |
| **Rest** feedback, game info, guild configuration, environment, admin alerts, health server, native inspector, scripts | single documents or none | single reads and writes | none that a model reaches | |

How they interact. The cron cycle takes its database lock, runs the notification services, and
these claim items as seen and hand messages to the outbound channel, which posts directly or
enqueues in the outbox. The outbox worker takes another database lock and drains the outbox.
Commands write guild settings, which the caches forget through the event bus and Redis; some
run as journaled operations whose recovery is a scheduled task. Shutdown stops the schedulers,
waits for what is in flight and releases the locks. Observers of messages, joins and audit-log events open
anti-raid incidents and count the kicks and bans of moderators; a sweep
(`features/command-security/antiRaidSweepTask.ts`) drives the incidents nobody observes any more, and
a periodic task takes up the channel locks that could not be rolled back.

## 2. The modules and the plan

| Module | Models | Section |
|---|---|---|
| `DbLock`, `Mutex`, `DbLock_proofs`, `MCDbLock_proofs` | the lease lock, the exclusion it implements, proofs | 3 |
| `Outbox`, `OutboxContract`, `Outbox_proofs` | the notification queue, the abstract queue it implements, proofs | 4 |
| `OperationJournal`, `OperationJournal_proofs` | journaled operations and their recovery, proofs | 5 |
| `NotificationCycle`, `NotificationCycle_proofs` | seen claims, batches, the pending queue, subscriptions, proofs | 6 |
| `DiscordRateLimiter`, `YouTube`, `PriceAlerts`, `PlayerCounts` | the rest of the notifications | 7 |
| `HttpClient`, `CircuitBreaker` | what the sources are asked, and when not | 7 |
| `GuildSettings`, `Lifecycle` | the settings cache over two collections; boot, jobs, shutdown | 8 |
| `RaidIncident`, `RaidIncident_proofs`, `RaidRecovery`, `ChannelLock`, `PermissionRequests`, `MassModeration`, `Moderation` | command security and moderation | 9 |
| `AdProtection`, `ProtectedResources`, `StructureGuard`, `NativeInspector`, `ConfigBackups` | advertisements, protected resources, the structure of a server, attachments, backups | 9 |
| `NewAccountAlerts` | the alerts about new accounts | 9 |
| `MCDbLock`, `MCOutbox`, `MCOperationJournal`, `MCNotificationCycle`, `MCMassModeration` | instances of one module for TLC | 10 |
| `MCServices`, `MCSecurity`, `MCRecovery` | instances of several modules, side by side | 10 |
| `Services_proofs`, `Security_proofs` | proofs about the components of `MCServices` and of `MCSecurity` | 11 |

Composition. `Outbox`, `NotificationCycle`, `YouTube` and `PriceAlerts` run under the locks of `DbLock`;
because its exclusion holds only while timers and replies are timely (section 3), each of them is modelled for
overlapping workers and assumes no exclusion at all. `Lifecycle` sees the locks from outside, as a holder and
a lease. `MassModeration` extends `PermissionRequests`, whose approvals its batches use up. `RaidRecovery`
refines one step of `RaidIncident`, the restoration of the structure, which `RaidIncident` leaves open (complete or not).
`ConfigBackups` is a client of the operation journal: its recovery executes again what `OperationJournal` says may be executed again.

What the plan has left, in order:
1. The pause flag of the outbox worker with the TTL indexes that remove what waits.
2. The guards of webhooks and bots.
3. Discounts, DLC and future releases as instances of `NotificationCycle`.

## 3. DbLock and Mutex

`DbLock` models one lock name and the processes that compete for it.

| Model | Code |
|---|---|
| `doc` | the document of the `locks` collection |
| `issued`, `token` | `crypto.randomUUID()`; the token a process holds |
| `pc`, `call` | where a job is (`cron.ts`, `outboxWorker.ts` use the lock alike), the acquire or release it awaits |
| `due`, `errs`, `renewals` | the heartbeat's timer, its consecutive errors, its `renewDbLock` calls in flight |
| `lost`, `down` | lostLock / the cycle's abort signal; `lifecycle.isShuttingDown` |
| `AcquireSend`, `AcquireApply`, `AcquireWon`, `AcquireLost` | `acquireDbLock` and its caller, in the steps send, apply, reply |
| `Tick`, `RenewApply`, `RenewYes`, `RenewNo`, `RenewError` | `tick` of `createLockHeartbeat` and `renewDbLock` |
| `WorkDone`, `ReleaseApply`, `ReleaseEnd` | `stop`, `releaseDbLock` |
| `BeginShutdown`, `Crash`, `Advance` | the process ends, the clock moves |

Errors may come after the server applied a call, and a call in flight when its process
crashes was applied before the crash or never. The processes share one clock: the code
compares `lockedUntil` with each process's `Date.now()` and has no provision for skew.
`Delay` bounds, in `TimelySpec` only, how late a timer fires and how long a call takes; `Spec`
bounds neither. `HeartbeatFits` (2·Interval + 5·Delay ≤ TTL) is what the code's choice of
a third of the TTL for the interval leaves room for: with `heartbeatIntervalMs =
max(15000, TTL/3)` and TTL ≥ 120000, a delay of up to a fifteenth of the TTL is covered.

What is checked: with timely timers and replies the inductive invariant `LeaseInv` holds, from which it is
proved that two processes never both work (`OneWorker`), and the lock implements `Mutex`
(`ImplementsMutex`); with any delays at all the heartbeat never dies silently (`AliveWhenLate`, which is
`HeartbeatAlive` of the untimed instance) and nobody but the owner, or the end of the lease, takes the lock
from its owner (`OwnerKeepsLockLate`, likewise). `OneWorker` does not hold in `Spec`: a process that stalls for
longer than its lease works on while another one starts. That is inherent to leases; it is why
the outbox is modelled for any number of overlapping drains.

Bounds: two processes, a TTL of 7 with an interval of 1 and a delay of 1 (the least that
`HeartbeatFits` allows), a clock that lets a lease run out and be taken over, two tokens.
The untimed half of `MCDbLock` (the variables `x_...`) uses a TTL of 2, so that leases run out between any
two steps; a behaviour is one of one half.

## 4. Outbox

One document for each dedupe key (the unique index), any number of workers that drain
at once. An action is one awaited call to MongoDB or Discord; what is computed between two
calls belongs to the first one's action. Time is abstract: a lease is live or has run out, a
job's `availableAt` has come or not, a job is older than `maxAgeMs` or not.

| Model | Code |
|---|---|
| `job`, `sent`, `replay` | `notificationOutbox`, `notificationOutboxSent`, `notificationDeadLetterReplay` |
| `posted` | the messages a channel has for a key |
| `subscribed`, `left` | what `isStillSubscribed` reads; whether it was ever false |
| `enqueuing`, `promised` | an `enqueueOutbox` between check and insert; one that returned |
| `pc`, `cur`, `count`, `goal`, `halt`, `stale` | where a `drainOutbox` is, its copy of the job, `processed`, the final status, `stopDrain`, the stale jobs found |
| `EnqueueCheck`, `EnqueueInsert` | `enqueueOutbox`: `alreadySent`, `insertJob` (a duplicate key counts as success) |
| `Claim`, `EndLoop`, `Abort`, `DrainThrows` | the loop around `claimNextJob` |
| `CheckSent`, `CheckSubscription` | `validateClaimedJob` |
| `ChannelFails`, `Verify`, `Send` | `deliver` and `alreadyPostedInChannel` |
| `Accept`, `MarkSent`, `Finish` | `finalizeDeliveredJob`, `finalizeJob` |
| `Audit`, `Retry`, `Plan` | `retryOrDeadLetter`, `planNotificationFailure`, `recordDeadLetterOrKeep` |
| `SweepFind`, `SweepAudit`, `SweepDelete` | the sweep at the end of `drainOutbox` |
| `Crash`, `LeaseRunsOut`, `BackoffEnds`, `GrowOld`, `SetSubscription` | the environment |

The worker's id is the constant `outbox-worker`: two processes differ only by the
`leaseVersion` of what they claimed, which the model keeps so (`HoldsLease`).

Bounds. `MaxEnqueues`, `MaxFaults` and `MaxStalls` bound what the environment does to a
key or a drain; `MaxAttempts` = 2 and `Limit` = 1 reach every branch of the retry
policy and of the drain limit. The race run gives two workers one key enqueued twice, one fault and
one lease lost under a worker; a second key adds no interaction between workers, because
jobs meet only in the order of the claims, which `outbox_recovery`
exercises with two keys.

Not modelled: the TTL indexes that purge finished jobs, markers and payloads after their hours
and queued or leased jobs after 7 days (planned with the worker's pause flag); payloads that fail validation (enqueue
already refuses them); the notification history; the dead-letter log for display and its
limit; metrics and log messages.

### Properties

* `OncePostedInv`: the inductive invariant behind "posted once": as long as no lease of a key ran out and no
  answer to a post was lost, whoever acts on its job holds the live lease, and a posted message leaves only
  bookkeeping. `OneFailurePostsOnce`: with recovery verification not even one such failure doubles a message.
* `NothingLost`: a notification whose enqueue returned is in the queue, was posted, can be
  replayed, or its subscription was ended.
* `KeepsContract`: `Outbox` implements `OutboxContract`, what the callers of `enqueueOutbox` rely on: a notification waits (`phase`), is posted
  once while it waits unless it is in `doubt` (a lease ran out, or the answer to a post was lost), and is finished for good, or removed
  by the sweep, only with a message or a reason for none (`kept`: a payload to replay, or a subscription that was ended).
* `AcceptedNotReposted`: the compare-and-set discipline on the document.
* `EveryJobSettles` (liveness): every job is delivered, dropped, dead-lettered or swept.

What follows from the invariants of the proofs is proved and not run again: `PostedOnce`, `OneLeaseHolder`,
`LeasesAdvance`, `DeliveredWasPosted`, `FinishedStaysFinished`, the types.

### Fairness

`Fairness` gives each worker weak fairness over its steps, because the timer of
`outboxWorker.ts` re-arms after every drain, whatever its outcome, and a drain awaits only
calls that return or throw; and each key weak fairness of the end of its lease and of its
backoff, which are instants in the future. Nothing is assumed about growing old, users, faults
or stalls.

## 5. OperationJournal

Administrative operations (configurations restored, backups saved, command access changed,
slices of the settings copied) are journaled: recorded under a key, claimed under a lease,
executed, marked. A periodic task recovers what was left behind. The operations of the model
write one resource and are numbered by `resourceVersion`; a runner is one call of
`runJournaled` or one `recoverPending`, in any process; an action is one awaited call.

| Model | Code |
|---|---|
| `entry` | the `operationJournal` document of an operation; `old` stands for `updatedAt` before `olderThanMs` |
| `written`, `effects` | what the executors did to the resource |
| `outcome`, `toldOk`, `calls` | the final status an operation ever got; whose caller was told of success; how often a key was used |
| `pc`, `mode`, `cur`, `list`, `lost` | where a runner is, `runJournaled` or `recoverPending`, its copy of the entry, the candidates left, `leaseLost` |
| `Call`, `ClaimCalled`, `Read` | `runJournaled`: `ensurePending`, `claim`, the answer to a caller that could not claim |
| `StartRecovery`, `NextCandidate`, `EndRecovery` | `recoverPending`: `listStale`, then `failUnclaimed` or `claim` for each candidate |
| `Reject`, `Check`, `Supersede`, `Execute`, `Complete`, `Release` | `executeClaimed` and `releaseAfterFailure` |
| `Renew` | `startHeartbeat` |
| `Crash`, `LeaseRunsOut`, `GrowOld`, `Purge` | the environment; `Purge` is the TTL index |

A call may fail before or after the server applied it. An executor may fail before or after it
wrote, and nothing stops it when its lease is lost. `KeyOf` is the `resourceKey` default: an
operation whose caller gives none has its own key, and its version is the time of its call
(`fallbackVersion`), so of two such operations the later one is the newer (`VersionInOrder`).

What is checked: `JournalInv` (the inductive invariant: lease versions, outcomes and attempts are accounted
for, no attempt executes twice, and exclusion by the lease, from which `OneExecutor` is proved), `OkMeansDone` (a
caller is told of a success only when there was one), `FinishedStaysFinished`, `NoRerunOverNewer`
(recovery does not apply an older operation over a newer one), `EveryOperationEnds` (liveness).

Fairness: executors return, the recovery task runs again and again (`scheduledTaskRunner.ts`
re-arms its timer), and leases and ages are instants in the future. Nothing is assumed of users.

Bounds: two operations on one resource are the least that can supersede each other; two runners the
least that can race; two attempts reach the last one and one before it. The race run allows one
fault and one lease lost under a runner, and starts with or without an entry of another release for the older
operation, which the process that claims it may or may not be able to read (`Unreadable`); that operation may be purged once it is
finished (`Purgeable`). The journal of `MCRecovery` has one runner and repeated calls, and there the newer operation may be unreadable and may be purged.

Not modelled: the batch limit and the order of `listStale`, an entry whose kind is not the one
its caller asked for, what an executor writes beyond "its effect". `NoRerunOverNewer` is
checked where only the older operation is purged: one that stays pending for longer than the TTL of the newer
one (a day in which no recovery runs) no longer sees it.

## 6. NotificationCycle

A cron cycle finds the subscribed guilds and, for each of them, claims updates by marking them as
seen, sends the claimed ones, rolls back what could not be sent and writes the queue that is left.
The model has one guild and the updates of one game, numbered as they are published; any number
of cycles and commands at once, because the lock of the cron cycle excludes cycles only while
its lease is renewed in time. An action is one awaited call.

| Model | Code |
|---|---|
| `sub` | `subscribed`, `notificationChannelId`, `updatesInitializing`, `updatesActivationId` of the guild |
| `pending`, `current` | `pendingUpdates` of the game; whether `seenHashVersionUpdates` is `HASH_VERSION` |
| `seen`, `recorded` | `guildSeenUpdates`, `guildDeadLetters` |
| `latest`, `snapshot` | what the source has, what the stored feed has |
| `cyc` | a cycle's copy of the guild, its feed, its queue, its batch, the update it is claiming or rolling back, the dead letters |
| `cmd` | a start's channel, activation and baseline |
| `announced` | in how many messages an update was sent |
| `Find`, `LoadFeed`, `ResolveChannel`, `GiveUp`, `Rebaseline`, `SetHashVersion` | `checkForUpdates`, `loadNotificationFeed`, `resolveOutboundChannel`, the first half of `processGuildUpdates` |
| `EndClaims`, `ClaimGuard`, `Upsert`, `Unclaim` | `claimIntoBatch` with `claimSeenUpdate` in its two calls |
| `Send`, `Undo`, `Disable` | `sendEmbedBatch` and `rollbackOrReport`, one step for each rollback |
| `GivenBack` | `requeueOrDeadLetter` |
| `Persist`, `DeadLetter` | `persistGuildCycleState` |
| `Start`, `FetchBaseline`, `SeedBaseline`, `FinalizeActivation`, `RollbackActivation`, `Stop` | `startUpdates`, `stopUpdates` |

`baseline`, `returned`, `overlapped` and `excused` are history: what was marked as seen without
being announced, what was given back after a failure, whether two cycles ever ran at once, and which
updates have an excuse. There are three: `double` (the answer to a send or a deletion was lost), `leak`
(the answer to a claim was lost, a rollback failed, or a cycle crashed) and `drop` (the subscription
ended or started anew, the update became too old, the queue could not be written, or a send failed for good and
its channel could not be disabled).

What is checked: `AnnouncedExactlyOnce`, in two halves. With `double` as the only excuse, neither overlapping
cycles nor stops and starts announce an update twice; with `leak` as the only excuse, nothing else
leaves an update marked as seen that nobody announced. `FailuresKept`: what could not be claimed
or sent is announced later, queued, dead-lettered or excused, as long as no two cycles overlap:
`persistGuildCycleState` writes the whole queue a cycle read at its start, so that of two cycles
the second one forgets what the first gave back. `StartsKeepToThemselves`: the end or the failure
of a start changes the subscription only while it is its own. `QueueSettles` (liveness): every
queued update leaves the queue while the subscription stays active.

Fairness: a cycle runs on, and there is a next one (the cron timer). Nothing is assumed of
commands or of the source. Faults are bounded, so that a send succeeds or the attempts run out.

Bounds: two cycles and one command reach every overlap of two claims, and a stop or a start between
any two steps of them; two updates with one per message are the least batch of which a part
fails. The cycle of `MCRecovery` runs alone, with two starts, a fault and two attempts: an update can
be requeued and then dead-lettered. That of `MCServices` has two commands that overlap. A second channel changes
nothing in these runs; the initial states have a subscription on or off,
an old or a current hash version, and a queue that is empty or holds an update that was left when
other games filled the limit of a cycle, or that a failed send gave back.

Not modelled: the rotation between games, the age of an update (any of the oldest may be too old at
any time), discounts, DLC and future releases, the outbox behind the channel (`Send` is a direct
send; a queued one has `Outbox` behind it).

## 7. The rest of the notifications

### DiscordRateLimiter

`tokens`, `lastRefill` and the promise `chain` of `features/notifications/discordRateLimiter.ts`, with the clock
in ticks and the tokens counted in the ticks they take to refill. `Acquire` is `acquire()`, which appends to the chain;
`Begin` and `Wake` are `acquireOne` up to its sleep and after it. A timer may be late and never early
(`Tick` at any time). `RateKept`: after any time the permits given are at most a full bucket and what the clock has refilled,
although `acquireOne` gives a permit after its sleep without looking at the bucket again. It depends on
`LimiterAssumption`: the longest sleep is at least the time of one permit (5 s and 200 ms by default).
Bounds: three callers, two permits of three ticks each, fourteen ticks: the bucket empties, fills and sleeps
several times. A clock that jumps back is not modelled. Proved for every value of the constants (section 11).

### YouTube

One guild's passes over its feed: the cron cycle and the manual command of an administrator, overlapping.

| Model | Code |
|---|---|
| `seen` | the documents of `guildSeenYoutube` |
| `pass` | a pass: the feed left, its claims (`mine`), what is prepared, the sends, what is to roll back |
| `Claim`, `ClaimManual`, `ClaimFails`, `Prepare`, `Abort` | `claimVideo` and `prepareVideo` in `youtubeNotificationService.ts` |
| `BeginDelivery`, `Send`, `LeaveDestination`, `EndDelivery` | `deliverPrepared` in `youtubeDeliveryExecutor.ts` |
| `Rollback`, `EndRollback` | `rollbackVideo` in `youtubeRollbackPolicy.ts` |

`accepted`, `skipped` and `stranded` are history. `ClaimsAreJustified`: a claim hides a video from every later
pass, so each claim has a reason: a pass still works on it, every destination took the video, it was not wanted, or
a fault the code cannot undo parted it from its pass (a crash, a database call that failed or was
not heard of). Bounds: two videos, two destinations, a cycle and a manual pass, one fault. A second
delivery of a video that reached some of its destinations is what the code does by design and is not counted.

### PriceAlerts

| Model | Code |
|---|---|
| `rule` | an element of `priceAlerts`: is it there, `triggered`, `absentCycles` |
| `Begin`, `Absent`, `Observe`, `Claim`, `LookFails`, `EndLook` | `processGuildPriceAlerts` with `registerAbsentObservation`, `updateObservedPrice`, `claimTrigger` |
| `Resolve`, `Send`, `SendFails`, `Rollback` | the channel, the messages, `rollbackTriggeredAlert` |
| `Upsert`, `Remove` | `upsertPriceAlert`, `removePriceAlertsForGame` |

`TriggersAreTold`: a triggered rule is silent until it is rearmed, so it was told, a pass has it to tell, or a fault the code
cannot undo is to blame; whatever the passes (on the snapshot each was given) and the edits do meanwhile.
Bounds: two rules, two passes, a rearming after two absent cycles, one fault. The run checks it, with `ClaimsAreJustified` and
`CountsAreTold` and the alerts about new accounts (section 9), as `ConsumedIsTold`: what a claim takes from everyone else was told.

### PlayerCounts

The refresh of one watched game in one guild (`playerCountSnapshotService.ts`), by the scheduled task and by others that overlap with it.

| Model | Code |
|---|---|
| `watch` | the guild's watch document: count, time, the last direction told |
| `record` | the snapshot of the game, written whatever it holds |
| `refresh` | a refresh: its observation, the watch it read, what it has to tell |
| `ClaimChange` with `Claims` | `claimObservation`, a compare-and-set on `playerCount` and `fetchedAt` |
| `Significant`, `CooldownActive` | `playerCountChangeSignal.ts` |

`CountsAreTold`: two changes of one kind are told only a cooldown apart, or with one of the other kind in between, although
refreshes judge by what they read earlier and observations come in the wrong order; and a refresh that ran alone leaves a
record that is not below its count. Bounds: two refreshes, three counts, a cooldown of two ticks in three, one fault.

### HttpClient

Requests of one address that share the conditional cache (`infra/http/conditionalCache.ts`) and are tried again
(`client.ts`, `retryPolicy.ts`). The source's page is a version that only grows; an entry of the cache is the version it was made from.
`AnswersAreCurrent`: a conditional request is never answered with what the source had replaced before it was asked, although
slower answers put older results into the cache and entries are evicted meanwhile; it rests on the entry being read once, before the
request, and kept for the 304. And a POST has its effect once, whatever fails and is tried again: only a 429, which tells that it was not
taken, is retried for it. Bounds: two requests, one change of the page, one retry.

### CircuitBreaker

The fetches of one source of updates (`sources/updates/`): shared while one is in flight, refused while the circuit is open, counted
as failures or as schema drift, with the alert to the administrators (`infra/mongo/adminAlerts.ts`) that has a quiet time.

| Model | Code |
|---|---|
| `breaker` | the document: `fails`, `schemaDriftFails`, `cooldownUntil`, the two alert marks |
| `fetch`, `shared` | a call of `executeFetchWithCircuitBreaker` or of the dispatch to several sources; the one in flight |
| `Reset` and `Good` | `circuitBreakerStore.reset`, decided by what was read before the fetch |
| `row`, `told` | history: the failures in a row, whether an alert was delivered since the source last worked |

`OutagesAreTold`: a source is left alone only after it failed the threshold in a row, and while it is, an alert was delivered. Two fetches
that overlap (two processes) and a database call that failed are the exceptions. Bounds: two fetches, two sources, a threshold of two, one fault.

## 8. Settings and lifecycle

### GuildSettings

One guild's settings, of which one field stands for a slice that was moved to a collection of its own
(`shared/guildDomainSliceStore.ts`) and the other for what stays in the guild document. Values are numbers of writes,
so "older" is a comparison. Each process has a cache entry, one read and one write under way.

| Model | Code |
|---|---|
| `legacy`, `copy` | the guild document, the slice's document |
| `cache`, `reading`, `writing` | `guildSettingsCache`, `loadWithSlices` or a store's `findOne`, an update |
| `BeginRead`, `LoadLegacy`, `LoadCopy`, `Repair`, `Fill` | `getGuildSettings`, its two queries, `repairSliceCopy` |
| `BeginFind`, `Backfill` | `findOne` of a slice store |
| `WriteSlice`, `WriteMixed`, `WriteLegacy`, `Publish` | `updateOne` of a slice store, the hook of the guild model |
| `Deliver`, `Lose` | the Redis channel |
| `Tick`, `Evict`, `Crash` | time, eviction, the end of a process |

`StaleWithinTTL`: whatever a process serves was what the database said within the last TTL, through races of reads,
repairs, hooks and lost messages. It holds because the age of an entry counts from before its queries. That
an update is seen by its own process once it returned (`OwnWriteSeen`), and that a copy is not put back
(`CopyNotPutBack`), do not hold: section 12. Bounds: two processes, a TTL of one tick, one write, one fault.

### Lifecycle

Instances that boot through `runMigrations`, work, and shut down in the order of `shutdown()`.

| Model | Code |
|---|---|
| `boot` with `Start` ... `Wait` | `runMigrations` and `waitForOtherInstanceMigrations`; `applied` is `migrationState.lastApplied` |
| `job` with `BeginCycle`, `BeginDrain`, `RunTask`, `RunSweep`, `Acquire`, `EndJob` | `cron.ts`, `outboxWorker.ts`, `scheduledTaskRunner.ts`, the anti-raid sweep |
| `ops` with `BeginOp`, `EndOp` | `ingressActivityTracker.ts` |
| `Signal`, `StopAll`, `ReleaseLocks`, `DrainIngress`, `CloseMongo`, `Exit` | `shutdown()` |
| `Expire`, `Crash` | a lease that runs out, the end of a process |

The migration lock is not renewed (`migrations.ts:76`), so with `Timely` false two instances migrate at once; with it
true a lease runs out only when its holder no longer works. A job may go on for ever: `StopAll` happens either when every awaited
job has confirmed or when a deadline has passed. Both deadlines are 5000 ms (`scheduledTaskRunner.ts:71`,
`shutdown.ts:38`), and the outer timer was set first.

`AppliedAreDone`: what `lastApplied` names is in the database, and a booted instance never works on half a schema,
also when instances overlap. `WorkIsCovered`: a running cycle or drain keeps its lock through the shutdown of its process, and Mongo is
closed under work only after its deadline was reported missed. `ShutdownEnds` (liveness): a shutdown is never held by
what it waits for. `MCServices` takes `Timely` true; `AppliedAreDone` was also checked without.
Bounds: two instances, two migrations, four starts of processes and of their jobs together; for the liveness one instance.

## 9. Command security and moderation

### RaidIncident

A task is a call of an observer, of the sweep or of one of the owner's commands, and tasks overlap.

| Model | Code |
|---|---|
| `inc` | the documents of `antiRaidIncidents`, in the order they were opened |
| `perm` | what @everyone may do in a channel |
| `task` | a call: its step, its copy of the incident, what it has not handled yet, the Discord call not yet recorded |
| `Observe`, `ObserveBotJoin`, `Command`, `Sweep` | `antiRaidRuntime.ts`, `antiRaidInteractionHandler.ts`, `antiRaidSweepTask.ts` |
| `Find`, `Open`, `Register`, `RemoveParticipant`, `ForceStop` | `antiRaidIncidentRepository.ts` as these calls use it |
| `ReadActive` ... `RestoreStructure` | `advanceIncident` in `antiRaidIntervention.ts`, one action per awaited call |
| `ReadContained`, `MarkContained` | `markContained` |
| `Calm`, `Throw`, `Crash` | the safety period, a call that throws, the end of the process |

`StagesOnlyAdvance`, `LiftedOnlyInRecovery` and `DryRunTouchesNothing` are about the calls that drive an incident from the
copy each read; `EveryRaidEnds` (liveness) says that incidents end but for two kinds that wait for the owner. The
ladder has one step where these are checked together with the rest of section 9, and two (instead of the code's three: the least
with a next one and a last one) for the liveness; the theorems hold for any ladder. Time is the flag `calm`.
Fairness: every call goes on and the sweep's timer comes back; Discord does not refuse
for ever a ban or an unlock that is asked again (strong fairness of the successful outcome). Nothing is assumed of
the restoration of the structure. Bounds: two tasks, one actor, one channel, two incidents, one verdict,
one command, one fault; for the liveness one task, a human and a bot, two faults.

### RaidRecovery

What `restoreStructure` does: the baseline refreshed in quiet times and frozen at the first signal, the snapshot taken once, the plan saved
with it and its operations applied one at a time by restorations that overlap (`raidRecoveryRuntime.ts`,
`raidSnapshotRepository.ts`).

| Model | Code |
|---|---|
| `live` | a channel or role: not created yet, there, destroyed, recreated under another id |
| `base`, `snap`, `ops` | the guild's baseline; the document of the incident: its snapshot and its operations |
| `worker` | a call of `refreshBaseline`, `captureBeforeContainment` or `restore` |
| `Create`, `Delete` | people, in quiet times: the baseline is refreshed every 6 hours and may be up to 7 days old when it is used |
| `Survey`, `SavePlan` | `readCurrentState`, `planRecovery`; `savePlan`, whose failure is dropped, with the operations then applied from memory |
| `Apply`, `MarkRead`, `MarkWrite` | one operation; `markOperation` reads the operations and writes them all back, and its failures are dropped too |
| `ReadBack`, `Resolve` | `recoveryComplete` of what is read again, or of the plan in memory when it cannot be; the incident's last stage |

`ClosedIsRestored`: when a recovery closes, every resource of the snapshot is back, as it was or recreated, and when the snapshot came from the
baseline so is everything the first baseline had that people had not deleted since. Marks of restorations that overlap are lost to each other; a lost mark costs a repetition and never a
resource. The exception the property names is a plan that could not be saved (`unsaved`; section 12). The converse is not claimed: a baseline that is days old
brings back what people have deleted since. Left out: what is destroyed during the recovery and what the raid created; the operations that restore positions, webhooks, invites
and protections; and what a baseline contains once the incident has its snapshot, which nobody reads from then on.
Bounds: two resources, two workers, one attempt, one fault; in the instance exactly one of the two is not created at the start.

### ChannelLock

`/lock-channel`, `/unlock-channel`, their rollbacks and the recovery of what could not be rolled back, on one channel.
`perm` is Discord's overwrite, `stored` is `lockedChannelPermissions`, `record` is `channelLockRecoveries`; `open`, `shut`, `told` and `cut` are history.
Any call may throw although it was applied, and the process may end between any two calls, of the command or of the recovery (`Crash`).
`NothingSilent`: a channel at rest has the permission its moderators gave it when it is not stored as locked, and when it is stored as locked it is denied or as a
moderator opened it since, unless a recovery is recorded or the command reported that nothing could be. What the code does not keep of this the property names
(`cut`; section 12): a command that ended between its two writes or before it undid one, an edit that was applied and not answered, and a database write that was applied
unheard before the edit was rolled back.

The model assumes what the code does not enforce: one command at a
time, none while a record is open; hand edits only at rest, and, while a divergence is recorded, not to one of the two states the recovery takes for its
own (any other one ends the recovery, `ReadCurrent`). Without these the code can go wrong: the recovery undoes a legitimate lock given since when the channel shows the
`diverged` state again (a manual denial after an unlock that diverged is taken for the lock's own), two instances run the recovery of one record, and its comparison with the current
state and its edit are two calls. Bounds: three commands, four faults (a rollback of a rollback), two hand edits.

### PermissionRequests and MassModeration

A batch of moderation actions uses one approval for every slice or none: `Find` and `Claim` are the two calls of
`consume`, `Commit` and `Release` are `commitBatch` and `releaseBatch`, `Revive` and `Expire` the two updates of
`expireStale`. `MassModeration` adds the guard that counts a moderator's kicks and bans in a persistent window
(`ReadWindow`, `WriteWindow`: `record` reads the document and writes it whole), asks for a batch, sanctions once
(`ClaimSanction`), and the stop of the guard (`StopGuard`, `DisableGuard`).
`AllOrNothing` (with `Timely`: a batch ends within `CLAIM_RECOVERY_MS`), `RefusedStaysRefused`.
Bounds: two requests, two handlers, one kind of action, amounts up to two, threshold one, one fault. `SanctionedOnce` is
finding 4.

### Moderation

Timeouts, mutes and warnings of one member. A sanction is the number of the command that gave it; `discord` is the
timeout Discord enforces, `rec` the records of both kinds. `Sanction`, `Save`, `Undo` are `applySanction`; `Lift`,
`LiftTimeout`, `Remove`, `Restore` are `liftSanction`; `Warn`, `SendWarning`, `DropWarning` are `recordWarning`;
`FetchMembers`, `ReadRecords`, `Pull` are `reconcileGuild`; `Cleanup` is the periodic task. `WarningsAccounted`: every stored
warning was announced, is under way, was reported as left behind, or is in `unheard`: its command never heard that it was stored
(`addWarning` is awaited outside the `try`, `moderationSanctionUseCase.ts:204`), or crashed with it. The program keeps no trace of
those, so the property names them. `StaleRecordsEnd` (liveness): a record of a sanction Discord
does not enforce does not stay, whatever left it there; fairness: the reconciliation runs again and again and a command that began
goes on. Bounds: two handlers and one fault for safety; for the liveness one handler and two faults; two commands.

### AdProtection

Advertisements of one member (`adProtectionRuntime.ts`, `adProtectionRepository.ts`): requests that are asked, delivered to the owner,
decided, expire or are used up, and messages that are detected and handled at once.

| Model | Code |
|---|---|
| `request` | the documents of `adRequests` |
| `attempts` | the member's document: strikes, what was detected, the warnings |
| `message` | the handling of a message, from its detection to the notice |
| `Find`, `ClaimApproval`, `SearchFails` | `consumeApproval`: the candidates, then one update each until one is claimed |
| `CancelUndelivered`, `CancelActive` | `cancelRequest`; `cancelActiveRequests`, which ends every request with the protection |
| `Bump`, `Reset` | the two updates of `recordAttempt` |

`AdsAccounted`: an approval lets one message through, the one it names, however many copies are posted at once; and every limit of
advertisements costs one warning, attempts in parallel neither losing nor inventing a strike. Two attempts that pass
the limit at once each cost a warning (`overlapped`). The run checks it with `AllOrNothing` as `ApprovalsAccounted`.
Bounds: two messages, one request, a limit of two (the member may begin with a strike), one fault.

### ProtectedResources

One resource whose snapshot is kept (`protectedResourceRuntime.ts`, `protectedResourceRepository.ts`): the events of its changes are answered by
handlers that overlap, each of which reads the record, finds the actor in the audit log, asks for an approval, adopts the change,
restores or recreates. Commands add, prevent and remove; a raid may be under way at any gate.

| Model | Code |
|---|---|
| `server`, `record`, `audit` | the resource on Discord, the document with its snapshot, who made the last change |
| `handler` | a handler or a command, with the record it read |
| `echo` | edits of the bot that come back as events |
| `Change`, `Echo`, `Read`, `Gate`, `FindActor`, `Approve`, `Adopt`, `Restore`, `Recreate`, `Rebind`, `MarkDeleted`, `Publish` | `handleResourceUpdate`, `handleResourceDelete`, `correctDuringRaid` |
| `Add`, `Insert`, `Prevent`, `RemoveProtection`, `Remove` | `protectedResourceInteractionHandler.ts` |

`QuietMeansKept`: when nothing is at work, the resource is what its snapshot says, or the administrators were told that it could not be restored (`heard`: the report of a
restoration that succeeded does not count), or a raid's recovery
has it to bring back. So a handler that restores from an outdated record must be put right by the event of its own edit. Excepted are writes that failed (`lost`) and
snapshots out of date when they were written (`raced`), which the code does not compare. The run checks it with that of `ChannelLock` as
`NothingSilent`. Bounds: two handlers, two changes, one recreation, one fault.

### StructureGuard

The guard of channels and roles that are created and deleted (`serverStructureGuardRuntime.ts`, `serverStructureRollback.ts`): each change is
an event with a handler of its own; they overlap. The handler finds who made the change in the audit log, looks for the owner's
approval, signals the detector and undoes the change, which raises an event in its turn.

| Model | Code |
|---|---|
| `live`, `by` | the channels and roles of the server, the audit log |
| `copyOf` | what a resource stands for: one recreated by the guard has an id of its own |
| `events` | changes Discord has yet to tell of |
| `approval`, `given` | the approvals of one member, for a resource and for a number of changes; what they were at first (history) |
| `handler` | `handleStructureChange` of one event, with what it has read |
| `ReadSituation`, `FindActor`, `ConsumeExact`, `ConsumeBatch`, `SignalAntiRaid` (in which the detector uses up an approval nobody has asked for yet, `antiRaidRuntime.ts:192`), `RemoveCreated`, `RecreateDeleted`, `Sanction` | its awaited calls, in their order |
| `Restart` | the process ends; what was under way and the events of the time it is down are lost |

`OneCopy`: a deleted resource is brought back once. `CoveredIsSpared`: a member whose approvals cover all it did is not sanctioned, whichever
handler takes which approval: those for a resource are taken first. The run checks both in `ApprovalsAccounted`. Bounds: two handlers, three
resources, two changes, at most one approval given beforehand (`MaxGiven`), one fault. Whether a raid is confirmed is a choice at every read. Other parts of the bot that create and delete
channels and roles (the clean-up and the recovery of a raid, the load of a backup, the guard of protected resources) raise events the guard takes for
changes nobody approved, as it does its own corrections (section 12); the model has its own only.

### NativeInspector

The pool of inspection processes (`nativeInspectorProcess.ts`) and who waits for them (`isolatedInspection.ts`): a queue, processes
that are started, answer, hang, break off, exit and are replaced.
`ReportsAreOwn`: the report a job is given is that of its attachment, so an answer that comes after its job timed out, or after the
process was replaced, is nobody's. `NobodyWaitsIdly`: no attachment waits while a client could serve it. Both are the run's
`AnswersAreOwn`, with `AnswersAreCurrent` of `HttpClient`. Bounds: three jobs, two clients, two faults.

### ConfigBackups

`/backup add`, `load` and `delete` (`backupInteractionHandler.ts`, `features/admin-records/`), each an operation of the journal that a crash
may cut short and the recovery executes again.

| Model | Code |
|---|---|
| `store` | the backups of the guild, by name |
| `live`, `config` | the channels and roles of the server, those the configuration refers to |
| `cmd` | a command: the overflow it found, the resources it saw, made and mapped |
| `FindOverflow`, `DropOverflow` | the two calls after the save in `saveConfigBackupRecord` |
| `Reuse`, `ReuseRestored` and the creation | `materializeBackupResources`, with `rollbackMaterializedResources` |

`NewestIsKept`: the limit only takes older backups. `RestoredExists`: what the restored configuration refers to exists, however loads fail,
roll back, crash and recover. Excepted are names saved while another command was at work on them, what a person deleted, and what a load
borrowed from one still at work. Both are the run's `BackupsHold`. Bounds: two names with a limit of one, two references, three commands, one fault.

### NewAccountAlerts

One document for each member decides who alerts about it (`newAccountAlertDedup.ts`): a member that joins
(`handleGuildMemberAdd`) and the scan of `/start new-account-alerts` (`sendExistingAccountAlerts`) contend for it.

| Model | Code |
|---|---|
| `row` | the documents of `newAccountAlertDeliveries`; `old`: the lease of a claim, or the 15 minutes of a send, are over |
| `worker` | a join or a start, with the members left to scan |
| `Claim`, `BeginSend`, `MarkDelivered`, `MarkSentUnconfirmed`, `Release` | the upsert and the four writes of a claim |
| `Send` | the message: posted, thrown, or thrown although posted |
| `Start`, `Enable`, `FetchFails`, `NextMember`, `Undo`, `Stop` | `toggleProtection` and the scan; a scan that throws disables the alerts |
| `Crash`, `Reconcile`, `TimePasses` | a restart closes what was being sent for 15 minutes |

`posted`, `lost` and `muted` are history. `AlertedOnce`: a member is alerted about once, unless a send threw although Discord took it.
`QuietMeansAlerted`: a document that refuses every claim has its alert posted or on the way, or was closed by a crash of the sender, a protecting
write applied unheard, or a release that failed or came after a reconciliation. Both are proved, and part of the run's `ConsumedIsTold`.
Bounds: two members, two workers, one fault. All members are recent accounts; a join sees the setting as it is (the cache is in section 8).

## 10. Runs

| Run | Checks | Shows |
|---|---|---|
| `lock` | LeaseInv, AliveWhenLate, ImplementsMutex, OwnerKeepsLockLate | exclusion, its inductive invariant and the refinement of `Mutex` under timeliness; what holds however late anything is |
| `outbox_race` | OncePostedInv, NothingLost, KeepsContract, AcceptedNotReposted | overlapping drains with faults, stalls and unsubscriptions; the refinement of `OutboxContract` |
| `outbox_recovery` | OneFailurePostsOnce, EveryJobSettles | recovery verification; no job is stuck |
| `journal_race` | JournalInv, OkMeansDone, FinishedStaysFinished, NoRerunOverNewer | overlapping calls and recoveries |
| `cycle_race` | AnnouncedExactlyOnce, FailuresKept | overlapping cycles against stops, starts, failures and crashes |
| `services` | TypesOK, StaleWithinTTL, AppliedAreDone, WorkIsCovered, RateKept, ConsumedIsTold, WarningsAccounted, AnswersAreOwn, OutagesAreTold, StartsKeepToThemselves | the safety of twelve components, side by side |
| `security` | TypesOK, DryRunTouchesNothing, StagesOnlyAdvance, LiftedOnlyInRecovery, ClosedIsRestored, NothingSilent, ApprovalsAccounted, BackupsHold, RefusedStaysRefused | the safety of the eight parts of command security, side by side |
| `recovery` | EveryOperationEnds, EveryRaidEnds, QueueSettles, ShutdownEnds, StaleRecordsEnd | what must end in five components, each under its own fairness |
| `outbox_audit` | DeadLetterKeepsPayload (violated) | finding 1 |
| `journal_active` | ActiveLeaseKept (violated) | finding 2 |
| `journal_copies` | RecoveryKeepsNewer (violated) | finding 3 |
| `moderation_once` | SanctionedOnce (violated) | finding 4 |

Side by side. `MCServices`, `MCSecurity` and `MCRecovery` hold several modules in one state, each with its own variables, and a
variable `focus` that is chosen at the start and names the one whose steps the behaviour takes; the others stay in one of
their initial states. These components share no state, so nothing is lost by not interleaving them, and the
properties of one read only its own variables. In `MCRecovery` each component's fairness is that of its module,
restricted to the behaviours that have its focus (in the others its steps are never enabled).

Out of scope. What a worker, a handler or a call has read is forgotten, that is, set back to its initial value, by the step after
which the code uses it no more (`Leave` of `Outbox`, `OperationJournal` and `Lifecycle`, `Kept` of `GuildSettings`, `Nothing` of
`PermissionRequests`), as a local variable is that goes out of scope. States that differ only in such remains would go on in the same way.

The bounds of the components are constants of `MCServices` and `MCSecurity`, which the configurations give for TLC and the proofs leave open; what they must
satisfy is assumed there by name (`ServicesAssumption`, `SecurityAssumption`), which TLC evaluates.

Deadlock is not checked where the system may stop: every run with bounded commands ends in a state in
which nothing is left to do, and every behaviour with another focus holds the rest still. `outbox_recovery` checks it.

Symmetry is used in the runs without liveness only, over processes, workers, items and keys, which no module
compares or orders.

Every property of a passing run has a mutant of a mapped definition that breaks it; the mutants
stand next to the definitions they change, marked `Mutant:`.

## 11. Proofs

`DbLock_proofs`. `OneWorker` is not inductive: that two processes do not work at once
depends on how much of a lease is left at each point of a heartbeat. `LeaseInv` says it:
whoever works owns the document, and from the time its timer is armed or its renewal
sent enough of the lease is left for the errors it may still meet (`TimerMargin`, `CallMargin`);
`TokensUnique`, `OnTime` and `OneHeartbeat` carry it. Proved for any set of processes and any times that
satisfy `TimesAssumption` and `HeartbeatFits`: `TypeCorrect`, `LeaseInvariant`,
`MutualExclusion`, `DbLockImplementsMutex` under `TimelySpec`, and `OwnerIsSafe` and `HeartbeatLives` under `Spec`.
`MCDbLock_proofs` takes the last two to the run: its half without any timing is an instance of `DbLock_proofs`
(`AliveHoweverLate`, `OwnerKeepsLockHoweverLate`).

`Outbox_proofs`. For any keys, workers and bounds:
* `LeaseTokenInvariant`: the `_id` of a document is never reissued for a key, a copy is never
  newer than the document, at most one copy is current. From it `OneHolder`,
  `LeasesOnlyAdvance`, `AcceptedIsNotReposted`, `FinishedIsFinal`.
* `EvidenceInvariant` (a worker past the post has evidence of the message), hence
  `DeliveredImpliesPosted`.
* `NoNotificationLost`: with dead-letter collections that take every write. The invariant
  `AccountInv` adds that every terminal job, and every job a worker is about to finish or delete, is accounted for.
* `OncePostedInvariant`: as long as no lease of a key ran out, whoever acts on its job holds
  the live lease, and a posted message leaves only bookkeeping; hence `PostedAtMostOnce`.
* `OutboxKeepsContract`: with dead-letter collections that take every write. The state of the abstract queue is a function of the concrete one (`Phase` of `job`; `kept` is
  `replay` and `left`). Each action is a step of the contract or leaves what it shows alone (`SilentSteps`, `WaitingSteps`); that a post is allowed
  follows from `OncePostedInv`, that an end is, from `AccountInv` and `EvidenceInv`.
* `VerifiedInvariant`: while no lease ran out under its worker, whoever acts on a job holds its live lease; before the
  first failure every live lease is held, so what is posted has one worker, which is past the post; a job that was
  claimed remembers it, so after the failure the next worker to claim a posted job reads the channel first
  (`ReadBeforePosted`); and a key that is enqueued once has one job (`InsertedOnce`). Hence `SingleFailurePostsOnce`.

`OperationJournal_proofs`. For any operations, runners and bounds. `EntrySteps` and `RunnerSteps` reduce
every action to the few things that can happen to an entry and to a runner; the invariant `JournalInv`
is preserved by each of those:
* `VersionsInv`: a lease version is never issued twice, not even for an entry that was purged.
  From it `LeaseHolderUnique`.
* `AloneInv`: while no lease ran out under its runner, whoever acts on an operation is alone and has its
  live lease. From it `ExecutorUnique`.
* `OutcomesInv`: what the final status of an operation tells of its effects. From it `OkIsDone`.
* `AttemptsInv`: the effects of an operation and the runners that may still execute it are not more than
  its attempts. From it `AttemptsAreCounted`.

`FinishedStays` follows from the entry steps alone, and `NoRerun` holds when every operation
names its resource and an operation that is purged is not newer than another: without the first it is finding 3.

`RaidIncident_proofs`. For any actors, channels, calls and bounds, with `RaidAssumption`. A call works on a copy it read long ago, so
the invariant `RaidInv` says what a call carries at each step (`Fine`) and what the incident still has of the copy (`Linked`): a lock
the copy shows is still recorded, and an incident whose copy is in recovery is in recovery or resolved. No step takes any of that back
(`Grown`), which is proved once for each kind of write; each action is then one of those writes (`Good`). Hence `DryRunsTouchNothing`,
`StagesAdvance` and `LiftedInRecovery`.

`Security_proofs`. About the components of `MCSecurity`, for any values of its constants that satisfy `SecurityAssumption`. As in `Services_proofs`, `OneAtATime` and
the lemmas named `...Alone` make a behaviour of `MCSecurity` one of each component, each component has an inductive invariant, and the composite theorems
join them. With `RaidIncident_proofs`, all the safety properties of the run `security` are proved (`SecurityIsTyped` and the theorems below).
* The structure guard. A resource stands for another while it is on the server, while the event of its deletion is on its way, and while a handler has that
  event and has not answered it. There is one such place at a time (`OnePlace`, `OneStanding`) and a copy is made when the last of them is left
  (`StructureInvariant`); hence `OneCopyHolds`. `CoveredIsSpared` speaks of the sanction, long after the approval was taken: while no call failed,
  a change is handled once (`HandledOnce`), an approval of one change is left until that change asks for it (`ExactLeft`; the detector's own use of one comes after that, `ApprovalsSignal`), and a batch has an approval left
  for every change still to come that it was given for (`BatchLeft`, which counts them). From it `ApprovalsInvariant`.
* Recovery. What was captured before the incident has all that people had not deleted by then (`before` only shrinks). A plan calls a resource done that is back only as
  long as nothing is taken away after the plan was read, so `RecoveryInv` says it, while no plan was applied that is not stored (`unsaved`), of what is
  stored, of the copy a worker holds at each step, and of the snapshot they all rest on. Hence `ClosedAreRestored`, with that exception.
* Channel locks. `NothingSilent` holds of a channel at rest. `LockInv` says, unless somebody was told or a command was cut short (`told`, `cut`), what the permission, the stored
  state and the record of a divergence have in common at each step of a command and of the recovery, and that these two are not at work at the same time.
* Protected resources. The record may differ from the server while a handler is going to find out: the invariant says that what is protected is as recorded, or excused
  (`p_heard`, `p_raced`, `p_lost`, as in the property), or that an event on its way or a handler at work sees the difference, unless what it would restore is there already
  (`ProtectedStill`); and that no handler or record is ahead of the resource's id (`ProtectedAhead`). With the locks it gives `NothingIsSilent`.
* The moderation guard. A claimed request is used, and belongs to one batch (`GuardInv`, with which `RefusedAreNotRevived` is proved, whatever the times);
  with `Timely`, a batch that looks for its slices holds what it claimed and has an approval for each slice it is past (`GuardGrantInv`). This is the one
  theorem with that hypothesis (`ApprovalsAreAccounted`): without it the property is false (finding list, `AllOrNothing` without `Timely`).
* Ad protection. An approval that let a message through is used, and by that message alone (`AdFinds`); while no two messages were counted at
  once, the strikes and the warnings account for the advertisements detected (`AdAloneAtLimit`).
* Backups. `NewestIsKept` counts; `BackupSaveInv` says of a save that is over, with fewer than `MaxBackups` newer ones, that its backup is stored,
  that nobody is about to drop it (what a save drops has `MaxBackups` newer beside it) and that no older save of the name is about to overwrite it. `BackupLoadInv`
  says that what a load found or made exists, and that what a load may still undo no other relies on, but for the exceptions `RestoredExists` names. Hence `BackupsAreHeld`.

`NotificationCycle_proofs`. For any cycles, commands, channels and limits that satisfy `CycleAssumption`. A step of a cycle works on its own record
and on what all share, so each invariant is said of one cycle's place and data. `TypeInv` is the types and the data each place calls for
(`Typing`; the queue is built by ranks in a set of positions, so the lemma `Positions`, that ranks are an injection onto 1 .. n, stands under it).
* `ClaimInv`: an update that is in a batch, or whose claim is being rolled back, is claimed: by one cycle, which has it once, marked as seen and not
  announced (`OnceInv`); and what is marked as seen is announced, claimed, or accounted for (`AccountInv`). From it `ClaimsAreExact`. No
  assumption on overlaps is needed: the upsert decides who has the update.
* `KeptInv`: as long as no two cycles overlapped, what was given back is announced, recorded, excused or queued, where "queued" is the stored queue
  while no cycle runs or the cycle has not claimed yet, and the cycle's own queue, batch and dead letters from its claims to its write. From it
  `NoFailureIsForgotten`.
* `OwnStart` needs no invariant but the types.

`Services_proofs`. About the components of `MCServices`, for any values of its constants that satisfy `ServicesAssumption`; `OneAtATime` says that a
step of `MCServices` is a step of one component and leaves the others alone, so that its behaviours are behaviours of each component (the lemmas
named `...Alone`). What each component promises follows from an inductive invariant of its own, and what `MCServices` checks from those: all the
safety properties of the run `services` are proved (`ServicesAreTyped` and the theorems below).
* Boot and shutdown, of `Lifecycle` itself, with `LifecycleAssumption`. What an instance knows of the database cannot be read off
  `lastApplied`, which an instance that is late may set back: `BootInv` says that the migrations below the one an instance makes are
  in the database, which no step undoes, and that `lastApplied` is below one of those. From it `BootedOnWholeSchema`, for `Timely` and
  not; `ShutdownCovers` from what each stage of a shutdown has seen to (`ShutInv`).
* The limiter, with `LimiterAssumption`. `RateKept` is not inductive: a permit is given after a sleep without a look at the bucket. The invariant adds that what
  the bucket holds and what was given never exceed what there ever was, and that a sleep ends when the deficit is refilled
  (`LimiterInvariant`); hence `RateIsKept`.
* The alerts about new accounts. `AlertedOnce` is not inductive: `AlertsInv` adds that a worker that sends owns the token of a document nobody can claim, so
  that a member has one sender (`AlertsOneSender`), that this sender's alert is the first, and that a document whose alert was posted stays closed
  (`AlertsPostedIsFinal`). Hence `AlertedOnceHolds` and `QuietMeansAlertedHolds`.
* The settings cache. `StaleWithinTTL` speaks of what is cached, and a read puts it together from two collections at two moments. `SettingsInv` says the
  same of what a read under way has so far, of the database now (what it shows is shown at age 0), and that the guild document has none or the first of
  the slice's values, so that a backfill writes what is shown already. Hence `StaleIsWithinTTL`.
* The videos and the prices. A claim is undone when a send fails, so the invariants say what is left to undo: a pass that returns has each of its videos
  delivered or among those it still gives back (`VideoFine`), a pass that undoes prices has exactly those it undoes (`PriceCarries`).
* The player counts. Refreshes judge by records they read earlier. `CountsInv` says that the stored record holds what was told last (`CountsLastIsWatched`),
  that a record that was read is the stored one if their times are equal (`CountsGenuine`), and that the time of a refresh that has not claimed yet is that
  of no record and no other refresh (`CountsFresh`, `CountsApart`): a claim compares times, so it succeeds only against the record it was judged
  by. With the videos, the prices and the alerts it gives `ClaimsAreTold`.
* Sanctions. `WarningsAccounted` is inductive with the types (`ModerationInvariant`), since the number of a warning is never given twice. Hence
  `WarningsAreAccounted`.
* The native inspector. That reports are one's own is not inductive: a late answer of an earlier job must not reach the next one. `InspectorInv` says
  that a client serves one job and is then on nobody's stack (`InspectorOneClient`, `InspectorStackIsFree`), that it owes an answer only to the job that
  listens, and that what it has read and not used is garbage (`InspectorServes`); and for `NobodyWaitsIdly`, that jobs wait only when all
  clients are made and none is idle (`InspectorAccounted`). With the HTTP client (`HttpInv`: the answer being parsed is not older
  than its request, a POST is not taken before its only attempt) it gives `AnswersMatchQuestions`.
* The circuit breaker. As long as no fetches overlap and no write is lost there is one fetch, and `BreakerSound` says what agrees beside it at each of its steps: the
  failures counted in the document are not more than those in a row, and an open circuit or an alert marked as sent was told or is being told. Hence
  `OpenCircuitsAreTold`.
* The starts of the updates, with `CycleAssumption`. `NP` is `NotificationCycle_proofs` with the variables that `MCServices` gives to `NotificationCycle`; the lemmas
  `SameStartState` to `SameSteps` say that the two instances define the same, so `Typing` and `OwnStart` hold here (`StartsAreTheirOwn`).

Model-checked only: liveness (`EveryJobSettles`, `EveryOperationEnds`, `QueueSettles`, `EveryRaidEnds`,
`ShutdownEnds`, `StaleRecordsEnd`), which is out of this prover's reach, as is ENABLED. Every other property of a passing run is
stated by a theorem.

## 12. Findings

With a run:

1. `outbox_audit`: `recordOutboxDeadLetter` (`outboxRuntimeFactory.ts:72`) swallows the errors
   of both its writes, so `recordDeadLetterOrKeep` never sees the failure it is written for and finishes
   the job without its payload, which `notificationOutbox.ts:99` says it keeps.
2. `journal_active`: `failUnclaimed` (`operationJournalStore.ts:115`) compares `status` and
   `leaseVersion` with what `listStale` read, and a renewal changes neither: an operation on its last
   attempt whose lease was renewed after the listing is marked failed while it executes, although
   `test/mongo/operationJournal.test.ts:167` says that the recovery never takes an active lease.
3. `journal_copies`: `guildSliceCopyJournal.ts:39` runs its operations without a `resourceKey`,
   so a copy that failed and was released is recovered over a later one that is done (`RecoveryKeepsNewer`), although
   `test/mongo/operationJournal.test.ts:202` says that recovery does not reapply an overtaken operation.
4. `moderation_once`: `massModerationRepository.ts:54` reads the window and writes it back whole, `sanctionedAt` included, so an
   event whose read precedes another's claim undoes it and the window is sanctioned twice, although
   `src/docs/architecture/FUNCTION_MAP_CLEAN.md:399` says that two instances cannot.

Disagreements without a run. The modules state these promises too, as definitions; TLC violates each when it
is checked as a property of its module, and no run is kept for them:

| Definition | The promise | What the code does |
|---|---|---|
| `Outbox!AcceptedNotSwept` | `test/outbox/outboxStatusStateMachine.test.ts:44`: the sweep excludes jobs whose delivery was accepted | `claimNextJob` (`outboxRepository.ts:62`) sets a `delivered-pending` job back to `leased`; if that worker dies too, the sweep removes it as expired, with a dead letter that can be replayed |
| `RaidIncident!UnstoppedHoldsContainment` | `test/security/antiRaidIntervention.test.ts:198`: the lockdown stays until the owner intervenes when mute, timeout and ban failed | a participant whose steps all failed counts as settled, so `markContained` moves on to clean-up and the lockdown is lifted after the safety period |
| `GuildSettings!OwnWriteSeen` | `src/docs/architecture/CONTEXT_REPO_CLEAN.md:24`: the invalidation is at the persistence layer | a write of a slice has no hook and publishes nothing; a read that began before a write fills the cache after its invalidation |
| `GuildSettings!CopyNotPutBack` | `test/mongo/guildSettingsSliceMerge.test.ts:52`: a missing copy is repaired, and the copy wins from then on | `repairSliceCopy` writes unconditionally what it read, over a copy written since |
| `Lifecycle!OneMigrates` | `src/docs/architecture/FUNCTION_MAP_CLEAN.md:19`: locks are released at a shutdown only when nothing under them runs | a shutdown during the boot does not stop the migrations, and releases their lock |
| `Lifecycle!SweepIsCovered` | the same line: every background component stopped or reported | stopping the anti-raid sweep clears its timer and awaits nothing |
| `Moderation!ReconciliationKeepsActive` | `test/moderation/moderationLifecycleRuntime.test.ts:30`: the reconciliation keeps what Discord enforces | the members are fetched before the records are read: a sanction given in between loses its record |
| `MassModeration!AllOrNothing` without `Timely` | `permissionRequestRepository.ts`, an approval of every slice or none | `expireStale` gives back the claims of a batch that is merely slower than a minute, and a second batch is granted them |
| `NewAccountAlerts!FailedBeginStaysOpen` | `src/docs/architecture/FUNCTION_MAP_CLEAN.md:425`: when the protecting write fails, nothing is sent and a later attempt is allowed | a write applied unheard leaves the document in `sending`, which no claim takes and a restart closes as sent |
| `StructureGuard!UndoneStaysUndone` | `docs/Comenzi Functionalitate.md:282`: what is created without approval is deleted | the deletion is an event too, nobody approved it, and the guard creates the resource again |
| `StructureGuard!OwnWorkIsNoRaid` | `src/docs/architecture/FUNCTION_MAP_CLEAN.md:389`: legitimate work sets off no raid | the guard reports its own corrections to the detector and sanctions the bot for them |

Other behaviour met on the way, which no promise contradicts and the models have:

* Circuit breaker: a reset that fails is caught with the fetch's own errors, so a fetch that succeeded is counted as one that failed (`Good`). The mark of an alert is written before the alert is sent, so one that was not delivered is not sent again until the circuit is reset.
* Backups: `docs/Comenzi Functionalitate.md:71` says that a load that fails is compensated; one that fails inside the journal is not. The overflow is deleted by
  name after it was found. A load can borrow a `restored-...` resource of another load that rolls back.
* Notification cycle: the error of a disabling that fails is swallowed (`notificationCycle.ts:151`), and the updates of a send that failed for good are
  then neither queued nor dead-lettered, although the subscription goes on.
* Player counts: an older observation that arrives later overwrites the newer one and is told as a change back; a send that throws
  leaves the snapshot unwritten and the refresh counted as failed.
* Warnings: one that was stored by a call that throws, or whose command crashed before it was sent, counts towards the limit and nobody is told of it (`Moderation!unheard`).
* Advertisements: a request whose delivery was not heard of is reported as undelivered and stays approved if it was approved meanwhile; two attempts that pass the limit at once each cost a warning.
* Protected resources: the guard takes the bot's own prevention edits, which come after the snapshot, for unauthorized ones and undoes them, while the reply says
  that the prevention was applied (`protectedResourcePrevention.ts:119`); when the guard is off, changes are adopted in a raid too; snapshots are written without a comparison.
* New accounts: `OPERATIONS.md:39` says that after a total outage an alert can be claimed again; the code keeps it closed, as `FUNCTION_MAP_CLEAN.md:425` says.
  The scan calls `send` detached from its channel (`securityInteractionAdapters.ts:82`), which `OPERATIONS.md:40` says throws with the real library: the model has it as
  a send that fails, which ends the scan and disables the alerts. A document lives for 90 days, an account is recent for three calendar months: a member that joins again in the days between is told of twice.
* Restoration of a raid: when `savePlan` fails (`raidRecoveryRuntime.ts:270`, the error is dropped) the operations are applied from memory, every mark writes back an empty list, and
  `recoveryComplete([])` is true: the incident is closed although an operation was refused or is still pending. A restoration that is run again without a saved plan plans anew, and
  creates once more what it had recreated under another id.
* Channel locks: `docs/Comenzi Functionalitate.md:252` says that the update of Discord and the persistence undo each other; `FUNCTION_MAP_CLEAN.md:426` speaks only of a rollback that failed.
  A process that ends between `channelLockUseCase.ts:69` and `:71` leaves the channel denied, not stored as locked, with no record and nobody told; so does an
  edit that was applied but not answered, which is reported as a failed command (`:92`), and a `persistState` that was applied unheard leaves the channel stored as locked after a rollback of the edit that succeeded (`:73`-`:74`).
* Anti-raid: a channel is denied before its former permission is recorded (`antiRaidIntervention.ts:117`): after a crash in between, the restoration cannot bring it back, and the owner is told only of a failed write.

## 13. Not modelled

* The TTL indexes that purge finished jobs, markers and payloads, and queued or leased jobs after 7 days; the pause flag of the outbox worker.
* Dead letters after they were written (nothing in the program calls the replay); the notification history; metrics and logs.
* Discounts, DLC and future releases: they run the cycle of section 6 with other fields.
* Parsing (sources, the native inspector), the proxy and the guard of addresses: I/O and text, whose results are choices in the models.
* The detector's scoring, the guards of bots and webhooks, administrators' access lists and delegations.
* Audit log, feedback, game information, presentation and command definitions: single-document reads and writes, or text.
* Clock skew between processes: the code has no provision for it, and every module that has a clock has one.

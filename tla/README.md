# TLA+ verification of the SRE log-analysis service

This directory holds TLA+ models of the service, TLC configurations that check
them on small instances, and TLAPS proofs of their main properties. The source
is under `src/`; paths below are relative to it. `PROJECT.json` lists, for every
definition that stands for code, the lines it was translated from.

Contents: [1 Inventory](#1-inventory) · [2 Modules](#2-modules) ·
[3 Runs](#3-runs) · [4 Fairness and deadlock](#4-fairness-and-deadlock) ·
[5 Proofs](#5-proofs) · [6 Findings](#6-findings) ·
[7 Not modelled](#7-not-modelled) · [8 What is left](#8-what-is-left)

## 1 Inventory

The service takes logs from several tenants' sources, watches each source with an
anomaly engine, records alerts and delivers them to webhooks. It is one asyncio
process over one relational database (SQLite by default).

### Components, their state and their operations

| Component | State | Operations | What makes it correct |
|---|---|---|---|
| **Anomaly engine** `services/anomaly_engine.py` | per-source `_EwmaState` in an in-process cache; table `ewma_state`; `_cascade_fired` (memory); table `anomaly_alerts` | `ingest` (six detectors, auto-resolve, periodic persist), `flush` | no alert during warm-up; spikes are closed when and only when the source is calm; silence, sustained, novel and cascade alerts are true and not repeated; a crash loses little |
| **Alert endpoints** `routers/v1/alerts.py` | `anomaly_alerts` | list, get, acknowledge | open → acknowledged or resolved, then never again |
| **Webhook dispatcher** `services/webhook_dispatcher.py` | table `webhook_events`; `api_keys.webhook_url`, `webhook_filters` | `dispatch`, `retry_loop`/`_process_retries`, `_maybe_disable_webhook` | attempts bounded and in order; only a failed session loses or repeats one; every retry is settled; a webhook is disabled for its own failures only |
| **API keys** `routers/v1/admin/keys.py` | `api_keys` | create, rotate (grace period), revoke, attach and detach a webhook | a revoked key stays dead; a rotated one dies at the end of its grace period |
| **Ingest pipeline** `routers/v1/ingest.py`, `services/log_service.py`, `database.py` | the database session of the request | `process_entries`, `process_normalised` | what is reported is stored |
| **Process life cycle** `main.py`, `services/cache.py` | cache, background tasks | start, shutdown with `flush`, platform-admin bootstrap | a restart resumes from the rows |
| **Retention** `services/retention_service.py` | alerts, webhook events, request logs, keys, tokens | hourly clean-up per tenant | open alerts are never deleted |
| **Connector manager** `services/connector_manager.py` | slots (task, connector, mode, two counters), row `source_state` | `start`, `stop`, `add_source`, `remove_source`, `_poll_loop`, `_persist_state` | one reader per source, every task reachable and stopped; `max_sources`; the schedule follows the polls; a stop loses little |
| **File connector** `connectors/file_connector.py` | handle, offset, inode | `connect`, `poll` in a thread, rotation, `flush_state` | every write once and in order, across rotations and restarts |
| **Database connector** `connectors/db_connector.py` | high-water mark | `connect`, `poll`, `flush_state` | every row once |
| **Push connector, contract** `connectors/push_connector.py`, `connectors/base.py` | none | `poll` returns nothing | — |
| **Sources** `routers/v1/admin/sources.py` | table `log_sources` | create, update, soft delete | a live source is polled, a deleted one is not |
| **Users** `routers/v1/admin/users.py` | table `users` | create, update, delete | the tenant always keeps somebody who can log in |
| **Authentication** `security.py`, `routers/v1/auth.py` | table `refresh_tokens` | login, refresh, logout, `get_tenant_context`, `require_role` | no token after the end of a session or of its user |
| **Tenants, configuration** `platform/tenants.py`, `admin/config.py` | one row each | create, update | single-row updates |
| **Views and plumbing** `middleware.py`, `dashboard.py`, `health.py`, `webhook.py`, `limiter.py`, `config.py` | none of their own | read, log, echo | — |

### How they interact

* A pushed batch enters at `routers/v1/ingest.py`, goes through `LogService` to
  `AnomalyEngine.ingest`, and the alerts that returns go to
  `WebhookDispatcher.dispatch`, all in one request handler and one database session.
* `ewma_state` is the only memory of the engine that survives the process, and it
  holds only some of the fields; `_cascade_fired` and the rest are lost.
* Engine, acknowledge endpoint and hourly clean-up all write `anomaly_alerts`.
* The retry loop, `dispatch` and the key endpoints all read or write `api_keys`
  and `webhook_events`, each in a session of its own.
* Request handlers, retention and a retry round contain no `await` in their
  bodies, so the event loop runs each to its end: they are atomic with respect to
  each other. They are *not* atomic with respect to failure: a session can be
  rolled back half-way, and what was done outside it (the mutated cache, a POST)
  stays done.
* The connector manager is the part that interleaves. `add_source` awaits
  `connect()` between its checks and the slot it registers; `remove_source` and
  `stop` await the task they cancelled. A poll loop awaits between the poll, the
  save of its cursor and the dispatch; a file poll runs in a thread while the
  other program writes and renames, and while the task that awaits it may be
  cancelled.
* A user is deleted in `users`, a session ends in `refresh_tokens`, a key in
  `api_keys`; `get_tenant_context` reads them at each request, `/refresh` reads
  some of them, and the hourly sweep writes one of them.
* Nothing in `src/` calls the manager yet: `main.py` does not start it, the
  endpoints of `sources.py` do not tell it, and `_dispatch` is a placeholder. The
  models take the callers that its docstrings name.

### Where it is hard

The full list, line by line, is in `PROJECT.json` under `hazards`. In short:
a session that rolls back under a cache that does not; errors that are logged and
swallowed, with a counter or an offset already moved; a restart that restores
half of a state; counters, lists and guards at their limits; alerts that pile up
and are closed one by one by three writers; retries of what an aborted round has
already sent; a webhook that changes between an attempt and its retry;
batches whose timestamps are not in the order they arrive in; checks that an
`await` separates from their use; a cursor that memory, the row and the outside
world see at different times; deadlines that a handler and a sweep both read.

## 2 Modules

| Module | What it is |
|---|---|
| `AnomalyEngine` | the engine, with the acknowledge endpoint, the clean-up of alerts, crash, shutdown and the clock |
| `AnomalyMonitor` | `AnomalyEngine` with an observer `sent` of what each source really sent; history properties and liveness |
| `AlertLifecycle` | abstract specification: what may ever happen to an alert |
| `MCAnomalyEngine` | batches and tenants for TLC |
| `AnomalyEngineProofs` | theorems about `AnomalyEngine`: the tables and the guard |
| `AnomalyMonitorProofs` | theorems about `AnomalyEngine` and `AnomalyMonitor`: what the detectors decide |
| `AnomalyHistoryProofs` | theorems about `AnomalyMonitor`: what the engine remembers of earlier batches |
| `WebhookDispatcher` | deliveries, retry rounds, and the endpoints for the key of a webhook |
| `MCWebhookDispatcher` | instances for TLC |
| `WebhookDispatcherProofs` | theorems about `WebhookDispatcher` |
| `DbConnector` | what one `SELECT` returns for a table and a mark: a library of operators |
| `PollLoop` | one slot: `_poll_loop` over a `DbConnector`, the cursor row, stop and restart |
| `ConnectorManager` | the registry: `start`, `stop`, `add_source`, `remove_source` at their awaits, and the rows of `log_sources` |
| `FileConnector` | a file that is written and rotated, and the connector that follows it |
| `Credentials` | users, sessions and API keys of a tenant, and the hourly sweep |
| `MCPollLoop`, `MCConnectorManager`, `MCFileConnector`, `MCCredentials` | instances for TLC |
| `PollLoopProofs`, `ConnectorManagerProofs`, `FileConnectorProofs`, `CredentialsProofs` | theorems about them |

### AnomalyEngine

`cache` is the in-process cache, `rows` the table `ewma_state`, `cascadeFired`
the dictionary `_cascade_fired`, `alerts` the table `anomaly_alerts` (a function
from alerts to their status), `now` the clock. `nextSeq`, `reported` and `boot`
observe: the number of the batch that raised an alert, the alerts the last batch
handed on, and the process that raised them.

`Ingest(b)` is `AnomalyEngine.ingest` with what `LogService._route_to_engine` does
around it. It is one action, because the code has no `await` in it. Inside, it is
written as the code is: a session record `c` (the source's state, the tables as the
session sees them, the cascade guard, whether an exception has ended the batch, and
whether a write of the row has failed) is passed through `CheckServiceSilence`,
`UpdateBaselines`, `CheckErrorRateSpike`, `CheckCascade`, `CheckSustainedElevation`,
`CheckLatencySpike`, `CheckNovelError` and `PersistEveryN`, in the order of `ingest`.
When the foreign key of an alert is violated (`Registered` says for which sources the
database accepts rows) the tables go back to their start while the state keeps what it
already has: the code mutates the cached object in place. `PersistState` is
`_persist_state`, which swallows every error: the row is written, or the query is
refused, or the flush fails and the session is rolled back. The counter restarts in
all three cases, as in the code. `failures` counts the attempts for registered sources
that failed.

A batch is abstracted to what the detectors compare: the class of its error rate
against the baseline *before* the batch, the class of its latency, its error
fingerprints, and the ages of its oldest and newest entry. Which classes follow
each other is left open, so every sequence the EWMA arithmetic can produce is
included; sequences it cannot produce may be, too. Counters that are only
compared with a threshold are kept up to it.

`CallerCommits` is the contract in the docstring of `ingest`, "Caller must
commit". With `TRUE` the engine is checked under its contract. With `FALSE` it is
the push path as deployed: `get_db` closes the session without a commit. Both
values occur in runs; the proofs cover both.

### AnomalyMonitor

The detectors keep summaries of a history: counters, first times, capped lists,
half of them lost in a crash. The observer keeps the history, as much of it as
the properties need, and the properties compare. It adds no behaviour: each of
its actions is an action of the engine with an update of `sent`. For `BoundedLoss`
it counts the batches since the row was last written (`unsaved`) and the attempts to
write it that failed since (`missed`).

### AlertLifecycle

An alert is raised once, under a fresh number, by a batch of its own source; it
is resolved only by its own source and acknowledged only while open; a closed
alert never changes; an open alert is never deleted. `ImplementsLifecycle` is
`Spec` of this module under `status <- alerts, next <- nextSeq`.

### WebhookDispatcher

`keys` is the part of `api_keys` delivery depends on, `log` the table
`webhook_events` (for each alert and key, the sequence of attempts), `session` the
database session of the request or retry round in progress: the attempts it has
yet to make and the two tables as it sees them. `posts` and `streak` observe: the
POSTs of all time, and the failures in a row since the webhook was attached.
`attached` and `aborts` count against the bounds.

A POST cannot be taken back, a session can, so each POST is a step, and what is
committed is apart from what the session holds. `Raise` is the request whose batch
raised alerts: it calls `dispatch` for each. `FirstPost` is the loop of `dispatch`,
key by key; `DispatchCut` the exception that `dispatch` swallows, after which the
keys not yet served never hear of the alert. A retry round is `StartRound` (the
query for what is due), then for each attempt `RetryDropped` or `RetryPost`, in any
order. Both sessions end in `Commit` or, at any point, in `Abort`: a flush or a
commit that fails, a caller that does not commit, or the end of the process.
Nothing else of the process runs meanwhile. `RetryPost` may end in
`MaybeDisable`, which looks at the most recent events of the key; events of one
session carry the same `created_at`, so any choice among them is allowed.
`ComeDue` is the end of a back-off; delays are not modelled as numbers.

### DbConnector and PollLoop

A row is its primary key. `_fetch_batch` compares keys as text and orders them as
the column does, so `DbConnector` has both: `TextLess`, over the constant `Text`
(what `CAST(id AS TEXT)` makes of a key; decimal digits in the run), in `Above`, and
`<` in `Lowest` (`ORDER BY … LIMIT`) and in `MarkAfter` (`max`). Where the two
disagree a row may be passed over or read again. `Overtaken(table, i)` and
`Undercut(table, i)` name the rows this can happen to in a given table: 10 is
overtaken when the table holds 9, and 9 is undercut by 10. The properties make an
exception for those rows only, so they also speak of all other rows of a table of
mixed width.

In `PollLoop`, `table` is the external table, `mark` is `_last_seen_id`, `saved`
the column of `source_state`, `batch` the local `entries`, and `mode`, `empties`,
`errors` are the slot. `pc` names the await the task is in. The order is the
code's: `PollRows` moves the mark, `Save` commits it or `SaveFails` does not
(`_persist_state` logs and goes on), and only then `Dispatch` hands the entries on.
`InsertRow` is the other program, which may commit keys out of order. `Stop` is a
cancellation or a crash anywhere, `StartSlot` the next `_start_connector`.
`times`, `late`, `lost`, `recent` observe.

### ConnectorManager

A step is what a coroutine does between two awaits. `slots` is `_slots`; a *loop*
is one `_ConnectorSlot` from the creation of its connector to the end of its task,
and `source`, `task`, `thread`, `open` are its fields. `call` says what each request,
and the lifespan handler, is suspended in: `adding` between `AddSource` or
`StartNext` and `Connected` or `ConnectFails`, `stopping` between `RemoveSource` or
`StopNext` and `Closed`.

A task goes round `LoopTurns` (the head `while self._running`), `PollBegins` (the
thread of `asyncio.to_thread(poll)` starts) and `PollEnds`. It ends at the head once
`_running` is false, by `TaskCancelled`, or by `TaskDies`: an exception of
`flush_state`, of the session factory of `_persist_state` or of `_dispatch`, which
are called outside the `try` of the loop. The slot stays. A thread cannot be
cancelled: it outlives its task until `ThreadEnds`, and `Closed` may come before.
`CreateSource`, `UpdateSource` and `DeleteSource` write `status` and nothing else, as
the endpoints do. `died`, `overlapped` and `crowd` observe which tasks an exception
ended and which calls were in flight together.

### FileConnector

The unit of data is one write of the other program; a file is the sequence of the
writes in it, an offset a number of writes. `Write`, `Rename`, `Create`, `Reopen`
and `Truncate` are that program and the one that rotates its file. A poll is the
steps `PollStat` (with `_detect_rotation`), `PollDrain`, `PollOpen` or
`PollReopen`, and `PollRead`, any of which the outside may come between. `Save` or
`SaveFails` is `flush_state` with `_persist_state`, `HandOn` the `_dispatch` that is
awaited after it: a stop between the two drops the batch.

What the code does when a poll fails half way is in four steps. `DrainFails` and
`ReadFails` are the two `except OSError: pass`. `DrainRaises` and `ReadRaises` are a
line that cannot be parsed (`_parse_timestamp` catches `ValueError`; a numeric
timestamp is a `TypeError`): the exception leaves `poll`, the manager counts an error,
and the bytes are gone although the handle, and for a read the offset, has moved.
`lost` holds the writes that were read and dropped, `torn` says that a drain has
moved the handle past the offset, `faults` counts against the bound.

`late`, `skipped` and `blind` record the cases in which the code has no means to see
a write: to a file it let go of, to a file that came and went between two polls, and
across a start on another file than the saved cursor's.

### Credentials

`users`, `sessions` (`refresh_tokens`, with the instant of the last access token)
and `keys` (`api_keys`) are the tables of one tenant, `now` the clock. Each handler
is one step. `Authenticated`, `IsAdmin`, `Finds` and `Accepted` are the decisions
of `get_tenant_context`, `require_role`, `_get_or_403`; the comparisons with the
clock are kept exactly (`<` on one side, `<=` on the other). `RotateKey` mints the
successor and dates the grace period of the old key; `Sweep` is `_run_key_expiry`.

## 3 Runs

| Run | Configuration | Result | States |
|---|---|---|---|
| `engine_core` | `MCEngineCore.cfg` | passes | 112 815 |
| `engine_cascade` | `MCEngineCascade.cfg` | passes | 822 145 |
| `engine_time` | `MCEngineTime.cfg` | passes | 801 722 |
| `webhook` | `MCWebhook.cfg` | passes | 331 264 |
| `poll_loop` | `MCPollLoop.cfg` | passes | 250 238 |
| `file_connector` | `MCFileConnector.cfg` | passes | 1 060 211 |
| `connector_manager` | `MCConnectorManager.cfg` | passes | 521 472 |
| `credentials` | `MCCredentials.cfg` | passes | 598 017 |
| `push_path` | `MCPushPath.cfg` | violation | finding 1 |
| `two_clean_windows` | `MCTwoCleanWindows.cfg` | violation | finding 2 |
| `false_silence` | `MCFalseSilence.cfg` | violation | finding 3 |
| `webhook_disabled_early` | `MCWebhookDisabledEarly.cfg` | violation | finding 4 |

**engine_core** asks whether bookkeeping survives failure. Two sources, one whose
rows the database accepts and one whose it does not, two processes, a warm-up of
three batches, a row every two, one write of a row that fails, two batches that
raise alerts.
* `BoundedLoss`: a crash loses fewer than `PersistEvery` observations, and
  `PersistEvery` more for each attempt to write the row that failed since.
* `NoAlertBeforeWarmup`: counted against what the source really sent, no detector
  but silence speaks early, after restarts and failed sessions included.
* `CalmBeforeResolve`: a spike is auto-resolved only after two calm batches in
  this process.
* `SpikesDrain`: every open spike of a source that recovers is closed.
* `ImplementsLifecycle`: the refinement of `AlertLifecycle`, here with violated
  foreign keys, rolled-back sessions and restarts.

**engine_cascade**: three sources of two tenants spike in every order, in one
process, while alerts are acknowledged and cleaned up. `CascadeIsBacked`: a CASCADE
rests on open spikes of its own tenant; `CascadeSpacing`: one process does not
repeat it within the window. `ImplementsLifecycle` again, here with the clean-up
and the acknowledgements among the writers of the table.

**engine_time**: one source, three ticks, late batches (entries older than those
of the batch before), two error messages, room for one fingerprint.
`SilenceNeverOpen`; `SustainedIsSustained`: the source really sent nothing at or
below its baseline for the whole duration, and the alert is not repeated;
`NovelOnce`: a pattern is reported once per TTL unless the list was full.

**webhook**: two alerts, raised by one request or two, one key, two URLs, two
attachments, one request or round that fails between any two of its POSTs.
* `AttemptsInOrder`: the log numbers the attempts of a delivery without gap, and at
  most one is ever scheduled.
* `DuplicatesOnlyByAbort`: an endpoint receives an alert at most once more than the
  log tells for each session that failed, the request's own included.
* `ScheduledIsSettled` (liveness): no attempt stays scheduled.

**poll_loop**: keys 8, 9, 10 and 90, a `LIMIT` of two, thresholds of two errors and
three empty polls, two stops, one failed save. In one table of these keys 10 is
overtaken (behind 8 and 9), 8 and 9 are undercut (by 10), and 90 is neither.
* `NothingMissed`: a committed row was handed on, is in hand or ahead of the
  cursor, was committed behind the mark, was dropped by a stop between save and
  dispatch, or is overtaken; no other way exists.
* `OnceUnlessSaveFailed`: for a row that is not undercut, a duplicate needs a failed
  save *and* a stop. (A row that is undercut is read again without either.)
* `LossPerStop`: saving before dispatching costs a batch per stop and no more.
* `ModeFollowsPolls`: BACKOFF, IDLE and ACTIVE are what the latest polls say.
* `EveryRowArrives` (liveness): 90 arrives from behind 9 and 10; the exceptions are
  those of `NothingMissed`.

**file_connector**: three writes, three files, one truncation, one restart, one
failed save, one poll that fails half way.
* `NoGap`: a write is handed on only after all earlier ones that the code did not
  itself drop.
* `NoReRead`: a write is handed on once, failing reads and lines included.
* `CursorIsHandle`: what will be saved is where the handle stands. A drain that a
  line ends moves the handle alone, and nothing is saved before that handle is
  given up.
* `EveryWriteArrives`, `ReachesTheEnd` (liveness): the connector never sticks to a
  file that left the path.

**connector_manager**: two sources of a tenant whose limit is one, two requests
and the lifespan in flight, three connectors; any task may die.
* `OneReader`: two connectors never read one source at once, although a cancelled
  task leaves its thread behind: what keeps them apart is that only a deleted
  source loses its slot, and that a dead task keeps its own.
* `NoOrphans`: a task that polls is the one its source's slot names. (Both, unless
  two calls for the source were in flight at once. Then the second slot replaces
  the first and its task can no longer be removed: the run reaches this.)
* `TenantLimit`: the limit is exceeded by fewer sources than calls were in flight.
* `SlotIsPolled`: a registered slot has a live task unless an exception ended it.
* `StopEndsEveryTask` (liveness): also tasks that no slot names end after `stop()`,
  because every loop looks at `_running`.

**credentials**: two users, two sessions, two keys, two ticks, an access token of
one instant, a refresh token of two, a grace period of one.
* `NoTokenAfterEnd`: `/refresh` reads only the user's active flag, and
  `delete_user` leaves the tokens alone; still none is issued afterwards.
* `SomeoneStaysActive`: only one's own account is protected, and that is enough.
* `RotationNeverStrands`: the successor of a rotated key works.
* `LapsedIsMarked` (liveness): the sweep marks it in the end.

### Bounds

`MaxTime`, `MaxAlerts` (batches that raise alerts), `MaxBoots`, `MaxAttach`,
`MaxAborts`, `MaxFailedPersists`, and in the later modules `MaxStops`,
`MaxFailedSaves`, `MaxFaults`, `MaxWrites`, `MaxFiles`, `MaxTruncations`, `MaxLoops`,
`MaxSessions` and `MaxKeys` bound the model and stand in the guards of the actions
they bound. The code's own constants are scaled down with their order kept:
`WarmupRequired` (10), `PersistEvery` (10), the sustained durations, the windows,
`MaxFingerprints` and `DisableThreshold` (10). A constant set to 9 switches a detector
off in a run about another one. Two of everything is enough where a property relates
two things: two alerts of one type to pile up, two processes to lose memory between,
two tenants to confuse, two alerts to fill the failure window of a webhook (2 × 3
attempts against a threshold of 4), two requests to overlap, two stops to replay what
was replayed, three files so that one can be missed between two others. A third key, a
rotation of a rotated key, needs no larger run: `CredentialsProofs` covers chains of
any length. The proofs of section 5 remove the bounds for the properties they cover.
No symmetry is used.

Every property has a mutant in `PROJECT.json`: a plausible bug in one mapped
definition (the operators marked *Fault*) under which TLC finds it violated.

## 4 Fairness and deadlock

`SpikesDrain` assumes that every registered source sends a healthy batch again
and again (`MFairSpec`). This is an assumption about the source: a batch is
handled in the request that brings it, and `HealthyBatch` is always enabled, so
it is weak fairness of that action. Crashes stop at `MaxBoots`; with endless
crashes before the second calm batch the property would not hold, as the count
of clean windows is not persisted.

`ScheduledIsSettled` assumes weak fairness of `Working`: the loop wakes every 30
seconds, catches whatever a round throws, and requests and rounds are finite loops
that end in a commit. Sessions fail finitely often (`MaxAborts`); if every round
failed, no retry would be settled.

`PollLoop`: weak fairness of `StartSlot` (the process is started again), of
`PollRows` (a poll that can succeed is not preempted by errors for ever: the
back-off never stops the loop), and of `Save` and `Dispatch` (the task runs on).
`FileConnector`: of `Connect`, of the steps of a poll together, and of `Create` (a
program that renames a log file creates the next). The other program need not
write, rename or truncate; saves may fail up to the bound.
`ConnectorManager`: of the end of each `connect()`, `poll()` and `close()`, of each
task (the event loop runs what is ready; an await of a cancelled task returns), and
of `stop()` once begun. No request and no `stop()` is assumed to come.
`Credentials`: of `Sweep`; `key_expiry_loop` wakes every hour and catches its errors.

Runs set `CHECK_DEADLOCK FALSE` where the system really rests. In `MCEngineTime`
the bounds on time, alerts and boots end the behaviour. In the webhook
configurations both alerts are settled and the key is revoked. In
`MCConnectorManager`, `stop()` is the end of the process.

## 5 Proofs

All theorems hold for every value of the constants that satisfies the named
assumptions: any number of sources, tenants, keys, alerts, processes and rounds.

`AnomalyEngineProofs`, from `EngineAssumption`, `BatchAssumption`,
`NoRowAssumption` and `NoStateAssumption` (TLA+ leaves open whether `None` is a
number, a severity or a record; it is none of them):

| Theorem | Statement |
|---|---|
| `TypeCorrect` | `Spec => []TypeOK` |
| `SilenceIsClosed` | `Spec => []SilenceNeverOpen` |
| `CascadesAreSpaced` | `Spec => []CascadeSpacing` |
| `EngineImplementsLifecycle` | `Spec => ImplementsLifecycle` |

The invariant `IInv` adds to these what they rest on: the guard of a tenant is at
least as late as the CASCADEs of this process (`Guarded`) and not in the future
(`NotAhead`), and alerts carry the number of a process that has started. Without
`Guarded` the spacing is not inductive: the guard and the alert are written by
different statements, one in memory and one in a session that may be rolled back.

The proof of `Ingest` follows the code. `Good(c, b, w)` says of the session `c` what
holds between any two detectors: the table has only grown by alerts of this batch and
only changed by resolving open alerts of this source (`Grown`), no silence alert is
open, cascades are guarded and spaced, the rows are untouched, the warm-up count is
`w`. There is one lemma per detector, `RunDetectorsGood` chains them, `PersistDone`
adds the periodic persist with its three outcomes, `FinishInv` turns the end of the
session into `IInv'`, and one lemma per other action does the rest. The same `Grown`
is what `Detect` of `AlertLifecycle` says, and gives the refinement. `TryAutoResolve`
picks the newest open alert; that there is one (`GreatestExists`) uses the library's
well-foundedness of finite subsets: the prover cannot instantiate induction theorems
that take an operator as parameter.

`AnomalyMonitorProofs`, from the same assumptions:

| Theorem | Statement |
|---|---|
| `CascadesAreBacked` | `Spec => []CascadeIsBacked` |
| `QuietBeforeWarmup` | `MSpec => []NoAlertBeforeWarmup` |
| `ResolvesAfterCalm` | `MSpec => CalmBeforeResolve` |
| `LossIsBounded` | `MSpec => []BoundedLoss` |

These need to know what each detector leaves alone. `Kept(c, d, b, cascade)` says it:
from session `c` to session `d` the count of clean windows and the spikes are the
same, and no CASCADE has been added. All detectors but two satisfy it; `SpikeEffect`
and `CascadeEffect` describe those two, and `ProcessTold` puts a batch together. The
evidence of a CASCADE is therefore still in the table when the batch ends; that it can
be counted at all needs the table to stay finite. `MonitorInv` relates the engine to
the observer: no warm-up count, cached or persisted, is ahead of what was sent
(`CountsAreReal`), and for a registered source the count of clean windows is not ahead
of the calm batches and is zero until the source is warm (`CleanIsCalm`). The second
half matters: before the warm-up a spiking batch does not reset the count. For a
source that is not registered `CleanIsCalm` is false, because a batch whose first
alert fails ends before the reset; there it is enough that such a source has no
alerts (`RegisteredOnly`).

`LossIsBounded` keeps an account (`LossCounted`): the batches that are not in the row
are those of the counter `since` and `PersistEvery` for each attempt that failed. A
batch either counts on, or writes the row and clears the account, or fails and moves
a whole period from the counter to the failures (`LossCase`, `LossStep`). The count
of the warm-up is ahead of the row by no more than that.

`AnomalyHistoryProofs`, from the same assumptions:

| Theorem | Statement |
|---|---|
| `ElevationsAreSustained` | `MSpec => []SustainedIsSustained` |
| `PatternsAreNovelOnce` | `MSpec => []NovelOnce` |
| `SilenceIsRealInOrder` | `OrderlySpec => SilenceIsReal` |

The first two say of an alert what happened long before it; the invariant (`HistoryInv`,
true on the instances of the three engine runs) says what the source state knows of that.
`ElevationKnown`: the start of an elevation is not before the last batch at the
baseline, and the severity kept is no lower than that of any alert raised since that
batch. Both halves are needed: the first makes the duration true, the second keeps
the alert from being repeated. `PatternsKnown`: a pattern reported by this process is
still in the list, with a first time no earlier than the alert, or the TTL is over, or
the list had no room for it (`dropped`). A restart empties the memory, and with it
goes every alert the memory stood for (`RestartHistory`).

The step is again one lemma per detector. `SameMemory` is what most of them do to
the two memories: nothing. `Elevation` and `Recognition` are what the two owners do,
with the grounds of a new alert (`Founded`), and `ProcessNotices` puts a batch together:
before the warm-up ends it keeps the memories, afterwards it updates each once.
`Ran` restates this for the step of the observer, so that `IngestElevation` and
`IngestPatterns` need not look into the engine.

`SilenceIsRealInOrder` pins finding 3 to its causes. `OrderlySpec` is `MSpec` under
three conditions on the outside, all of them met in ordinary operation: batches come
in the order of their entries and with none ahead of the clock (`InOrder`), and a
restart finds the `last_log_at` it had in memory in the row (`LastLogSurvives`: a
`flush` that succeeds, or a crash just after a persist). `LastKnown` says that what a
batch finds, in the cache or in the row, is the time of the latest log ever sent.
`SilenceGrounds` says what `_check_service_silence` compared it with. Every batch in
order preserves `LastKnown`, and so does every restart that keeps the time: a false
silence needs a late batch, an entry ahead of the clock, or a row that was behind the
cache when the process stopped.

`WebhookDispatcherProofs`, from `DispatcherAssumption`:

| Theorem | Statement |
|---|---|
| `TypeCorrect` | `Spec => []TypeOK` |
| `AttemptsStayInOrder` | `Spec => []AttemptsInOrder` |
| `DuplicatesNeedAborts` | `Spec => []DuplicatesOnlyByAbort` |

`AttemptsInOrder` speaks of the session's view, or the table's when there is no
session. The invariant needs both at once: every delivery is in order in the
table *and* in the session; the session has at most one attempt more than the
table (what a session that fails can duplicate); and what it has yet to handle is
as long as in the table, and either empty, with a key that has a URL, or ending in a
scheduled attempt (`SessionOK`). That an alert has no attempts, in either place,
before it is dispatched (`Undispatched`) makes the first attempt number one.
`SessionStep` is shared by the ways to handle an attempt (`FirstInv`, `DroppedInv`,
`PostInv`); `CutInv`, `CommitInv` and `AbortInv` end a list of attempts or a session.

`PollLoopProofs`, from `DbAssumption`, `TextAssumption` (no key reads before the first
mark) and `PollAssumption`:

| Theorem | Statement |
|---|---|
| `TypeCorrect` | `Spec => []TypeOK` |
| `NoRowMissed` | `Spec => []NothingMissed` |
| `DuplicatesAreBounded` | `Spec => []OnceUnlessSaveFailed` |
| `LossIsBounded` | `Spec => []LossPerStop` |
| `PaceFollowsPolls` | `Spec => []ModeFollowsPolls` |

Nothing is assumed of the two orders but that the one of texts is transitive and
irreflexive, which is proved from its definition (`TextTransitive`, `TextIrreflexive`).
`MarksInOrder` says that the saved mark is equal to the mark in memory or behind it
*as a text*, and where the rows in hand are: no larger than the one, above the
other. `Repeats` counts, for every row that is not undercut and by its place on
either side of either mark, how often it can have been handed on. `NothingMissed` is
inductive with these. The exceptions are where the orders meet: a row in hand that
is not undercut is not returned from its own mark again (`InHandIsRead`), and a row
that `LIMIT` left out and that is not overtaken stays ahead of the mark. A table only
grows, so a row once out of place stays so (`OutOfPlace`). About one `SELECT` the
proof needs that `LIMIT` returns at most so many rows (`LowestBounded`), that what it
leaves out lies beyond what it returns (`LeftOutIsBeyond`), and that a finite set of
keys has a greatest one (`GreatestKey`, again by well-foundedness).

For the schedule, `Scheduled` says that each counter is the length of the run of its
outcome at the head of the list of polls, up to its threshold (`RunOf`), and what each
mode knows of the counters. It is weaker for IDLE than one expects: a slot that is
idle stays idle over errors below the threshold, as only entries make it active again.
`Follows` describes the list after one more poll, cut at its depth.

`ConnectorManagerProofs`, from `ManagerAssumption`:

| Theorem | Statement |
|---|---|
| `TypeCorrect` | `Spec => []TypeOK` |
| `SlotsNameTheirTasks` | `Spec => []NoOrphans` |
| `SlotsArePolled` | `Spec => []SlotIsPolled` |
| `OneReaderPerSource` | `Spec => []OneReader` |
| `LimitUpToCrowd` | `Spec => []TenantLimit` |

None is inductive alone. `CallsOK` says what a suspended caller may rely on when it
resumes (its connector is still connecting, or its task was cancelled, and nobody
else connects it); `Alone`, that a source for which one call is in flight has no slot
while that call connects, be it a request or `start()`: this is what the check before
the `await` buys.
`PhaseOK` ties the lists of `start()` and `stop()` to slots and tasks. `Limited`
counts slots and the calls that may become slots together (`Claimed`): a step moves
a connector from one count to the other, and only `AddSource` adds to the sum, just
when `crowd` grows with it.

`OneReaderPerSource` rests on a second invariant, `RInv`. What reads a source, the
thread of a cancelled task included, is in the slot of the source, or the row of the
source is deleted (`ReadersOK`); so while a call connects a source nothing reads it
(`FreshOK`). Only `Connected` adds a reader. Most other steps are `Quiet` (they make
no reader, begin no connection, and empty a slot only of a deleted row), which
`QuietKeeps` treats at once.

`FileConnectorProofs`, from `FileAssumption`:

| Theorem | Statement |
|---|---|
| `TypeCorrect` | `Spec => []TypeOK` |
| `CursorFollowsHandle` | `Spec => []CursorIsHandle` |
| `NothingLeftOut` | `Spec => []NoGap` |
| `NothingReadTwice` | `Spec => []NoReRead` |

The last two speak of writes, the code of a file and an offset. `UpTo(D, c, p)`
connects them: the writes a cursor has behind it when it stands after `p` writes of
file `c`. While nothing is truncated, the files hold the writes once each and in
order (`InOrder`), so a cursor cuts the log in two. `LogInv` then says, of the
saved cursor and of the one in memory:
* `Passed`: what lies behind them was handed on, is in hand or was dropped (`lost`),
  so nothing else is left out;
* `Ahead`: what was handed on lies behind both, so nothing is read twice;
* `Fetched`: what is in hand lies behind the cursor in memory;
* `NothingBetween`: beyond that cursor there is data only in its own file and at the path.

The exceptions of the two properties enter one by one. A failed save breaks only
`Ahead`: the saved cursor stays behind what was handed on. A late write or a file
that came and went breaks only `NothingBetween` and `Passed`. A truncation or a blind
start breaks the order itself. What a stop between `Save` and `HandOn` drops is
`Covered` until then: in hand, with the cursor beyond it saved. `Started` and `Inside`
say where a cursor can be; the second needs that a file never shrinks.

A drain that a line ends leaves the handle beyond the offset. `CutShort` says that
this happens only on a file that has left the path, so that the next poll finds the
rotation again and drops the handle: this is why `CursorIsHandle` can be proved only
together with `LogInv`, and why nothing is read twice.

`CredentialsProofs`, from `CredentialsAssumption`:

| Theorem | Statement |
|---|---|
| `TypeCorrect` | `Spec => []TypeOK` |
| `SessionsEnd` | `Spec => []NoTokenAfterEnd` |
| `TenantKeepsUser` | `Spec => []SomeoneStaysActive` |
| `RotationIsSeamless` | `Spec => []RotationNeverStrands` |

Sessions rest on `UsersOK`: a deleted user is inactive, and nothing is dated in the
future. Keys rest on `ChainsOK`: a successor has no expiry of its own, and a key
that was not rotated has no grace period, so that the sweep never takes the last
key of a chain.

Model-checked only: liveness (`SpikesDrain`, `ScheduledIsSettled`, `EveryRowArrives`,
`EveryWriteArrives`, `ReachesTheEnd`, `StopEndsEveryTask`, `LapsedIsMarked`). It rests
on fairness and on `ENABLED`, which are out of the prover's reach. Every safety
invariant and action property of a passing run is proved.

## 6 Findings

1. **The push path stores nothing** (`push_path`). `services/log_service.py:13`
   says that `get_db` "owns the session and commits after this method returns";
   `get_db` (`database.py:22`) yields the session and closes it. Alerts,
   auto-resolutions, `ewma_state` rows and webhook events of a pushed batch are
   rolled back after the webhooks have been posted. In the deployed program this
   is the only way into the engine: `main.py` does not start the connector
   manager, and the manager's dispatch is a placeholder.
2. **Spikes drain one per clean window** (`two_clean_windows`). `README.md:356`
   says that a spike auto-resolves after "2 consecutive clean windows". A source
   raises one alert per spiking window and a clean window resolves only the newest.
3. **False silence** (`false_silence`). `last_log_at` is the newest timestamp of
   the *last* batch; a late batch moves it back, and the next batch raises
   CRITICAL silence for a source that was never silent. Two other causes have the
   same effect: an entry stamped ahead of the clock, which `schemas/v1/ingest.py:11`
   accepts "as-is", and a restart that loses the `last_log_at` of batches since the
   last persist. `SilenceIsRealInOrder` proves that the model has no fourth.
4. **A fresh webhook inherits old failures** (`webhook_disabled_early`).
   `README.md:1827` promises a disable "after 10 consecutive failures" and
   re-attaching as the remedy; the ten events are those of the key, whichever URL
   they went to, and re-attaching does not reset them.

Observations, no run of their own:
* A retry round that fails after a POST repeats it, and a request that fails after
  its POSTs forgets them: an endpoint may see more than the "Maximum 3 delivery
  attempts" of `README.md:1825`, or one that failed and is never retried (bounded
  by `DuplicatesOnlyByAbort`). `dispatch` swallows its own exceptions: the keys after
  the one it failed at never hear of the alert (`DispatchCut`).
* `_persist_state` of the engine swallows every error, and `ingest` resets
  the counter although nothing was written: each failed attempt costs a crash
  another `PersistEvery` observations (`BoundedLoss`).
* A retry ignores `revoked_at` and the filters, and its row carries the URL of the
  first attempt, not the one posted to. The third back-off (8 s) is never used.
* A SUSTAINED_ELEVATION of severity WARNING stays open when the CRITICAL one that
  followed it is resolved. CASCADE alerts are never auto-resolved.
* `flush` at shutdown is one session: one cached source the foreign key rejects
  loses the rows written before it.
* After a restart `_cascade_fired` is empty and a CASCADE may be repeated at once.
* `DECISIONS.md:252` promises "no missed rows, no duplicates" and a mark that moves
  "only after successful processing". The mark is saved before the dispatch: a stop
  between the two loses a batch (`LossPerStop`). And it is compared as text and
  ordered as a number, although an autoincrement key passes from 9 to 10: with 9 as
  the mark row 10 is not returned, and with 10 as the mark rows 2 to 9 are returned
  again, with no failure at all. `Overtaken` and `Undercut` name the rows. A row
  committed behind the mark is never read.
* `_poll_loop` calls `flush_state`, `_persist_state` (which opens its session outside
  its `try`) and `_dispatch` outside its own `try`. An exception there ends the task
  while the slot stays; `add_source` then refuses the source as already running, so
  that it is not polled until it is removed or the process restarts (`TaskDies`,
  `SlotIsPolled`).
* Cancelling a task does not end the thread its poll runs in: `_stop_slot` closes the
  connector under it, and the entries it returns are dropped with their cursor
  unsaved. It never reads next to another connector of its source (`OneReader`).
* `_parse_timestamp` says that it "returns None rather than raising"
  (`file_connector.py:415`), but catches `ValueError` alone: `strptime` of a number
  raises `TypeError`. The lines of that poll are lost, as the offset, or the handle
  that is drained, has moved (`ReadRaises`, `DrainRaises`). An `OSError` of the drain
  loses the tail of the old file without a trace (`DrainFails`).
* `ARCHITECTURE.md:365` tells rotation by the *persisted* inode. `connect()` opens
  whatever is at the path and overwrites the inode (`file_connector.py:243`): a
  rotation while the process was down goes unnoticed unless the new file is shorter
  than the offset. The runs in which it happens are marked `blind`.
* After a truncation in place the drain of the old handle and the read from the
  start may return the same bytes. A line that a poll meets half-written is handed
  on in two parts.
* Two `add_source` calls for one source both pass the check; the first task is then
  in no slot and polls until `stop()`. `max_sources` is exceeded in the same way.
* Pausing or deleting a source does not reach the manager: it is polled until the
  next start. The name of a deleted source cannot be used again, as the
  `UniqueConstraint` does not know `deleted_at`.
* Rotating a key that has lapsed but was not yet swept gives it a new grace period:
  it works again, though `README.md:1729` calls it "effectively revoked". A key with
  an expiry of its own may lapse inside its grace period.

## 7 Not modelled

* The EWMA arithmetic (classes stand for it); the payload, signature and HTTP of a
  delivery; the three line formats and the mapping of columns; the reflection of
  the external table; decryption of connection strings. They are data to the
  control that is modelled.
* Tenants and configuration: updates of one row without further control. What
  others depend on is a constant (`MaxSources`) or a fault (`Registered`).
  Deactivating a tenant is one more condition of `Authenticated`.
* Platform admins, scopes and rate limits. They restrict who may call; the
  properties hold for every caller.
* Retention of webhook events and request logs: deletes by age. For the dispatcher
  they take events out of the window of `_maybe_disable_webhook`: fewer than
  `DisableThreshold` may remain, and a disable comes later than in the model, which
  never deletes an event. Where foreign
  keys are enforced, deleting an alert before its events fails and takes the
  tenant's whole clean-up with it; SQLite as configured does not enforce them.
* A module that composes engine and dispatcher. What they share is the session of
  the request, whose end is `CallerCommits` in the one and `Commit` or `Abort` in the
  other; neither reads what the other wrote.
* Errors of the database other than those named above: a violated foreign key, a
  failed write of a row, a failed session of the dispatcher, a failed save of a
  cursor. In particular the error that `_try_auto_resolve` swallows
  (`anomaly_engine.py:829`) would leave a silence alert or a spike open until the
  next; `SilenceNeverOpen` speaks of the steps in which its query succeeds.
* An `open` of the log file that fails while the file is there (permissions, too
  many files). A file that is not there is modelled.
* Time within one request. A handler reads the clock several times; in the model
  each handler and the sweep have one instant.
* Views, middleware, schemas, templates, migrations, scripts: no state of their own,
  generated, or straight-line. Cryptography is a library.

## 8 What is left

The plan was to model by weight: engine, dispatcher, connectors, credentials, and to
prove the safety properties of each; that is done. What a next step could add:
* when `main.py` starts the manager and `_dispatch` calls the engine, one module that
  composes `PollLoop` with `AnomalyEngine`, with the cursor, the alerts and the
  baseline in their three sessions;
* abstract specifications of the poll loop and of the file connector (a queue that
  hands on what was written, with the exceptions as its own steps), implemented by
  the detailed ones.

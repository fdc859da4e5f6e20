# MetricsHub in TLA+

MetricsHub collects metrics from devices. A device posts batches of
measurements; the API commits them to MySQL together with the device's status
and the alerts they raise or resolve, mirrors the current state in Redis and
publishes events over SignalR. A background loop marks devices that fell silent
as Offline. Devices and alert rules are managed over HTTP. A simulator registers
devices and sends for them. A Blazor front end, not connected to the API yet,
contributes the script of the dialog that it shows when it loses its server.

This directory models that system, checks it with TLC on small instances and
proves part of it with TLAPS for every instance. Paths below are relative to
the repository; `Application/`, `Infrastructure/`, `Api/`, `Domain/` and
`DeviceSimulator/` and `Web/` stand for `src/MetricsHub.<name>/`.

- [1. The system](#1-the-system)
- [2. Modules](#2-modules)
- [3. Runs](#3-runs)
- [4. Disagreements found](#4-disagreements-found)
- [5. Proofs](#5-proofs)
- [6. Abstractions, bounds and fairness](#6-abstractions-bounds-and-fairness)
- [7. Not modelled](#7-not-modelled)
- [8. Plan](#8-plan)

## 1. The system

### Components, their state and their operations

| Component | Code | State | Operations | Correct when |
| --- | --- | --- | --- | --- |
| Domain entities | `Domain/Entities`, `Application/Alerts/AlertRuleEvaluator.cs` | - | `RecordTelemetry`, `MarkOffline`, `UpdateDetails`, `Alert.Resolve`, evaluation of a value against rules | a violated rule has one active alert, a satisfied one none |
| MySQL | `Infrastructure/Persistence`, `Infrastructure/Data` | devices, telemetry points, alert rules, alerts | queries, `SaveChangesAsync` (one transaction) | keys are unique, references do not dangle, no update undoes another |
| Redis | `Infrastructure/Redis/RedisDeviceStateStore.cs` | a hash per device with status, `LastSeenAt` and the latest reading of each metric | `SetAsync` (a Lua script), `GetAsync`, `RemoveAsync`, expiry | a key never moves backward in time and only holds what MySQL has |
| Ingestion | `Application/Telemetry/TelemetryService.cs`, `Application/Alerts/AlertEvaluationService.cs` | per request: the entities as loaded | `IngestAsync`, `GetStateAsync` and read-only queries | cache and events follow the commit; alerts follow the batch |
| Offline monitor | `Api/BackgroundServices/DeviceOfflineMonitor.cs`, `Application/Monitoring` | per pass: the stale devices as loaded | `MarkStaleDevicesOfflineAsync` | every silent device goes Offline, and that is announced |
| Management | `Application/Devices`, `Application/AlertRules` | per call: the entities as loaded | create, update and delete devices and rules | checks made before the save still hold when it commits |
| Events | `Api/Realtime/SignalRRealtimeNotifier.cs` | what each dashboard has been told | five events | a dashboard that got every event shows the database |
| Subscriptions | `Api/Realtime/MonitoringHub.cs` | groups of each connection | subscribe, unsubscribe, (dis)connect | each event reaches a connection once |
| Simulator | `DeviceSimulator/` | per device: whether it is registered | one loop per device: register over two calls, send, stop | what it takes for registered is, failures are temporary, Ctrl+C ends it |
| Reconnect dialog | `Web/Components/Layout/ReconnectModal.razor.js` | the dialog, its listener, the calls in progress | react to the runtime's state, `retry`, `resume`, return of the user | the page is never stranded and never given up while its circuit can be had back |

### How they interact

Requests and the monitor run concurrently in one process, each with its own
Entity Framework context. They share only MySQL, Redis and the SignalR hub. All
cooperation is through the database: entities are read in one query, changed in
memory and saved later, and a save writes the columns that differ from what was
read. There are no concurrency tokens. Redis and SignalR come after the commit
and are best effort. A SignalR connection is in the global group or in the groups of
devices; the notifier starts the sends of each event to the global group and to
its device's one after the other and awaits both. The simulator is a client of the HTTP API like any other. The dialog
talks to the Blazor runtime of its page, and the runtime to the page's circuit
on the server.

### What is hard

- **Between a read and the save that relies on it**, every other request can
  commit: the active alerts, the device's status and `LastSeenAt`, the rules,
  the existence of the device, the history that forbids a deletion.
- **Between a commit and the cache write** another commit and its cache write
  may overtake; the Lua script orders them by timestamp, and ties by arrival.
- **A state query writes too**: on a cache miss it puts back a state rebuilt
  from an earlier read.
- **Failures**: a Redis call may fail before or after it took effect; a key may
  expire; an event may be lost; a request or a pass may be cut off at any
  `await`.
- **Switching streams**: a connection leaves one group and joins another in two
  awaits, and an event goes to two groups in two sends, started one after the
  other under one `Task.WhenAll`; a connection may switch in between.
- **Late answers**: the simulator gives a call up after its timeout and the API
  may still serve it; two simulators may have one key; a retry of the dialog may
  run next to the return of the user, and be answered after either.
- **Time**: timestamps come from clients, in any order and with ties; the
  monitor compares them with the server's clock.

`PROJECT.json` lists the hazards one by one, each at its line and with the
properties that cover it.

## 2. Modules

```
Domain                          entities and pure functions
 |- Database                    MySQL tables, queries, constraints, SaveChanges
 |- DeviceStateStore            Redis hashes and the Lua script, failure kinds
     |- RealtimeNotifier        events as a dashboard sees them
TelemetryService  = Database + RealtimeNotifier     IngestAsync, GetStateAsync
DeviceMonitoring  = Database + RealtimeNotifier     the monitor and the clock
Administration    = Database + DeviceStateStore     devices and rules
MetricsHub        = all of the above, Next, properties, fairness
 |- CurrentState, AlertLifecycle  abstract specifications it implements
 |- MCMetricsHub                values of the constants for TLC
 |- TypeProofs                  type correctness
     |- CacheProofs             the script; cache and events hold history only
         |- IntegrityProofs     constraints; health columns follow the history
             |- CommitProofs    what overlapping commits leave behind
                 |- AlertProofs alerts and what dashboards show of them

MonitoringHub                   connections, groups, the two sends of an event
 |- MCMonitoringHub, StreamProofs
Simulator                       the loops of the simulator and an API that may answer late
 |- MCSimulator, SimulatorProofs
ReconnectModal                  the script of the dialog
 |- Reconnection                with the runtime, the server and the user
     |- MCReconnection, ReconnectProofs
```

**Domain.** A device row is `[existence, isEnabled, status, lastSeenAt]`; an Id
is `unused` until registered and `deleted` for ever after, because Ids are fresh
Guids. `IsViolated`, `RulesToRaise` and `AlertsToResolve` translate
`AlertRuleEvaluator`; a batch that names a metric twice stores both points but
is evaluated and cached by its last value (`AlertEvaluationService.cs:15`).

**Database.** `SaveDevice` and `SaveRule` model change tracking: a column is
written only if the entity differs from the row as it was loaded. The foreign
keys are in `DeleteDeviceRow` (restricted by telemetry and alerts, setting the
device of rules to null) and `DeleteRuleRow` (setting the rule of alerts to null).

**DeviceStateStore.** `UpdateScript` is the Lua script: status and `LastSeenAt`
are replaced unless the incoming `LastSeenAt` is older, each reading unless the
incoming one is older. `SetAsyncFails` is a call that reports an error, with or
without having run.

**RealtimeNotifier.** `shown`, `announced` and `openAlerts` are what a dashboard
holds that applies every event in the order it is published.

**TelemetryService.** A request goes through one action per `await`:

| Action | Code (`TelemetryService.cs` unless named) |
| --- | --- |
| `LoadDevice` | 37-43: the tracked device; 404 or 409 |
| `LoadRules`, `LoadActiveAlerts` | `AlertEvaluationService.cs` 13, 14; the latter throws on two active alerts of a rule |
| `RequireDevice` | `AlertEvaluationService.cs` 18-46: the device is looked up again; verdicts |
| `SaveChanges` | 65-70: points, device columns, alerts, in one transaction |
| `CacheWrite`, `CacheRead`, `RebuildState` | 91-102, 196-201: Redis, or MySQL when Redis fails |
| `PublishState`, `PublishStatus`, `PublishAlerts` | 203-235 |

`GetState`, `ReadCachedState`, `ReadHistory` and `WriteRebuiltState` are
`GetStateAsync`.

**DeviceMonitoring.** `FindStaleDevices`, `CommitOffline`, then per device
`ReadState`, `ReadHistoryForState`, `WriteState`, `PublishOffline`,
`PublishOfflineState`. `Tick` advances the server clock.

**Administration.** Each operation of `DeviceService` and `AlertRuleService` in
its steps: read and check, further checks, save, and for a deletion the removal
of the Redis key.

**MetricsHub.** `Next` interleaves all of them. `Faults` says which failures a
behaviour may contain: `redis`, `expire`, `notify`, `abort`. `Overlap = FALSE`
makes each device wait for the answer to its last request, as the
repository's own simulator does while no request times out (`SimulationRunner.cs`
awaits each); nothing in the API enforces it.

**CurrentState and AlertLifecycle** say what the cache and the alerts promise
without saying how. `CurrentState` is a state per device that holds only accepted
readings, moves forward while it exists and may be forgotten at any moment;
`MetricsHub` implements it with the committed telemetry as `accepted` and Redis
as `current`. `AlertLifecycle` is one alert at a time per device and rule, from
normal to unresolved to resolved, where a resolved alert never changes and an
unresolved one whose rule is deleted is kept as an orphan; `MetricsHub`
implements it with `Overlap = FALSE`. A batch may resolve an orphan in one case
only: its rule was deleted between the batch's evaluation and its commit.

**MonitoringHub.** `SubscribeToDevice` and `UnsubscribeFromDevice` end at their
first await, in which the connection has left one group; `JoinGroup` is the
second. `Send` is the two sends that `SignalRRealtimeNotifier` starts one after
the other under one `Task.WhenAll`; each reads the members of its group at its
own time. SignalR runs the invocations of one connection one at a time (the default
of `MaximumParallelInvocationsPerClient`, which `Program.cs` leaves alone);
everything else interleaves. `OneSubscription` makes clients unsubscribe from a
device before they subscribe to another.

**Simulator.** `loop[d]` is the call a device's loop awaits: `list` and `create`
are the two calls of `EnsureDeviceRegisteredAsync`, and a conflict counts as
registered. `CallFails` covers a refusal, a lost request and a timeout: the call
gets the answer `error`, after which the loop goes on as after any other, and
`late` counts calls that were given up and that the API still serves. Nothing keeps two
devices, or two simulators, from having one key.

**ReconnectModal and Reconnection.** The page is one record. Each operator of
`ReconnectModal` is the page after a piece of the script up to its next await:
`Retry` calls `Blazor.reconnect()`; `RetryRefused` goes on to
`Blazor.resumeCircuit()`; `RetryResumed`, `RetryLost` and `RetryThrows` follow
the answers, and `Resume...` likewise. `Reconnection` adds what the script
relies on: the runtime, which shows the dialog, tries to rejoin and asks the
user when it gives up; the server, which keeps a circuit live, saved or lost;
the user, who clicks and leaves and returns to the page.

Operators commented as mistaken variants (`RecordTelemetryOnce`,
`RetryThrowsUnheard`, ...) are plausible errors in the code. None of them is used
by the specification: substituting one for the definition it varies must make
TLC report a violation, which shows that the property can tell right from wrong.

## 3. Runs

| Run | Instance | Properties | Distinct states |
| --- | --- | --- | --- |
| `MCIngest` | one device, two overlapping batches out of timestamp order, a state query, the monitor, no failure | `TypeOK`, `StatesComeFromHistory`, `CommittedIsCachedOrPending`, `CacheIsAsRecent`, `CacheNeverMovesBackward` | 316 000 |
| `MCFaults` | one device, two overlapping batches, the monitor, every kind of failure | `StatesComeFromHistory`, `UnknownMeansNeverSeen`, `ImplementsCurrentState`, `StatusEventsAreTransitions` | 376 000 |
| `MCSequential` | one device sending four batches one at a time in any order, a caller editing and deleting it and a rule | `AtMostOneActiveAlert`, `LastSeenIsNewest`, `DashboardAlertsAreCurrent`, `CacheMirrorsDatabase`, `ImplementsAlertLifecycle`, `AlertsFollowVerdicts` | 560 000 |
| `MCAdmin` | two Ids of one key, neither registered yet, two callers, a rule, a batch, Redis failures and aborts | `StatesComeFromHistory`, `NoDanglingHistory`, `DeviceKeysAreUnique`, `UnknownMeansNeverSeen` | 984 000 |
| `MCOffline` | two devices, two batches of one, one of the other, each waiting for the answer, the monitor, Redis failures, fairness | `SilentDeviceGoesOffline`, `OfflineIsAnnounced`, `StatusEventsAreTransitions` | 378 000 |
| `MCStreams` | two connections, two devices, two events of one device, any switching, one subscription at a time | `TypeOK`, `OneStream`, `SettledReceiveOnce` | 37 000 |
| `MCSimulator` | two devices of one key, calls that fail or are served late, a deletion, Ctrl+C, fairness | `TypeOK`, `RegisteredIsStored`, `RecoversFromFailures`, `StopsWhenCancelled` | 34 000 |
| `MCReconnection` | two calls that may overlap, four outages, fairness | `TypeOK`, `NeverStranded`, `DialogCoversLostPage`, `ListensOnlyAfterFailure`, `ReloadsOnlyLostCircuits`, `RejoinsOrReloads` | 7 000 |

What they show:

- **The cache and the events never run ahead of the database**
  (`StatesComeFromHistory`). Every reading and `LastSeenAt` in Redis or on a
  dashboard is that of a committed point of the same device, with every failure.
- **The cache is a current state of the telemetry** (`ImplementsCurrentState`):
  whatever fails, expires, overlaps or is written late, each step of the system
  is a step of `CurrentState` or leaves it alone.
- **The cache loses nothing** (`CommittedIsCachedOrPending`). Without failures,
  a committed reading is cached, superseded by a newer one, or about to be
  written, although state queries and monitor passes write older states. At rest
  its readings are as recent as the latest points (`CacheIsAsRecent`).
- **Alerts of a device that waits for its answers** follow the documented
  lifecycle (`ImplementsAlertLifecycle`), including edits and deletion of the
  rule in between; an edited rule does not confuse `AlertsFollowVerdicts`, which
  is about the rules as read. An alert whose rule is deleted between evaluation
  and commit is still resolved.
- **Races of checks and saves are decided by the constraints** of the database,
  not by the checks (`NoDanglingHistory`, `DeviceKeysAreUnique`).
- **Column-wise saving matters** (`UnknownMeansNeverSeen`,
  `StatusEventsAreTransitions`): if an edit wrote all columns it could take a
  device that has telemetry back to Unknown, and a slow request one that a pass
  has marked Offline back to Online, both without an event.
- **Status events follow the commits** (`StatusEventsAreTransitions`), although
  requests and passes compute them from rows they loaded earlier. `Owed(d)` is
  the events that are still to be published for commits that were made. No commit
  changes a status without owing an event of that status, and nothing is
  announced that is not owed; a failure may lose an owed event but not make one
  up. For devices that wait for their answers an owed event is of a real
  transition. `MCOffline` goes through Unknown to Online, Online to Offline and
  Offline to Online again with passes between a request's load and its commit;
  `MCFaults` adds overlapping requests and every failure.
- **A silent device goes Offline** (`SilentDeviceGoesOffline`) and every
  dashboard is told (`OfflineIsAnnounced`), although Redis calls fail in ways
  that the code handles, which are those the store reports as
  `DeviceStateStoreException`. A `RedisTimeoutException` is not one of them: it
  ends the pass, which is part of what `abort` stands for, and that is excluded.
- **Two sends reach each connection once** (`SettledReceiveOnce`). A connection
  that neither switched, connected nor closed while an event was published has
  it exactly once, or not at all if it follows another device. One that switches
  meanwhile may have it twice or never, which nothing in the code prevents.
- **The simulator recovers** from failures that are temporary, and its own
  earlier call succeeding late does not mislead it (`RegisteredIsStored`,
  `RecoversFromFailures`, whose premise is that `CallFails` happens finitely
  often: answered calls go on). It is stuck with a device that an administrator
  deletes: it never registers it again, which is why
  `RecoversFromFailures` excludes deletion.
- **The page gets back to work**: after any overlap of the runtime's attempts,
  the button and the return of the user, there is a way on (`NeverStranded`), and
  the page rejoins or reloads once the server stays up and the user keeps
  returning (`RejoinsOrReloads`). It is reloaded only when its circuit is lost
  (`ReloadsOnlyLostCircuits`).

## 4. Disagreements found

Each of these runs checks one promise and ends in a counterexample.

| Run | Promise (line of the repository's `README.md`) | What happens |
| --- | --- | --- |
| `MCDuplicateAlerts` | a continued violation reuses the unresolved alert (232) | two requests of a device both find no active alert and both raise one; from then on `ToDictionaryAsync` (`AlertRepository.cs:19`) throws and every batch of the device is answered 500 |
| `MCCacheOnline` | the cache follows the persisted transition (206, 249) | a slow request's cache write ties with the monitor's on `LastSeenAt` and turns the cached status back to Online |
| `MCPartialState` | other latest values remain (206) | after the key expired, a partial batch creates it with its own metrics only, and a hit is not rebuilt |
| `MCTwoStreams` | subscribing switches a connection to a device, unsubscribing returns it to the global stream (212) | a connection subscribes to two devices and unsubscribes from one: it is in the global group and in the other device's, and gets each event of that device twice |

Other behaviours of the model disagree with the documentation in the same way;
they are consequences of the steps named here and have no run of their own:

- `LastSeenAt` advances when the timestamp is newer (188): of two overlapping
  batches the older may commit last and set it back.
- Ingestion sets the device Online (188, 249): when the monitor commits Offline
  between a request's load and its commit, the request, having loaded Online,
  writes no status, and the device stays Offline.
- A deletion removes the key (208): a state query that missed the cache may
  write after the removal; the key stays until it expires.

The properties that are checked with `Overlap = FALSE` say nothing of overlapping
requests, and have counterexamples as soon as `Overlap` is `TRUE`: two requests
raise one alert twice (`AtMostOneActiveAlert`, above); the older of two batches
commits last (`LastSeenIsNewest`, above); two requests resolve one alert and the
second replaces `ResolvedAt` (`ImplementsAlertLifecycle`, against lines 232 and
268); two batches with one timestamp reach Redis in the opposite order of their
commits, where MySQL ranks them by Id and Redis by arrival
(`CacheMirrorsDatabase`); an alert's resolution is published before its raising
(`DashboardAlertsAreCurrent`). Two first batches both announce Online (against
line 218), which is why `StatusEventsAreTransitions` claims a real transition
only without overlap. Nothing in the API
keeps requests of one device apart. The simulator awaits each request, but its
client gives up after ten seconds and the next request then overlaps the one
that is still running.

One behaviour is documented but surprising: deleting a device clears the device
of its rules (line 289), and a rule without a device applies to every device.

## 5. Proofs

TLAPS checks these for every value of the constants that satisfies the named
assumptions of the modules: for any number of devices, requests, readers,
callers, metrics and rules and any set of failures (`DomainAssumption`,
`DatabaseAssumption`, `FaultsAssumption`, `OverlapAssumption`,
`MonitoringAssumption`, `AdminAssumption`); any number of connections, devices
and events (`HubAssumptions`); any number of simulated devices, keys and late
calls (`SimulatorAssumptions`); any number of calls and outages
(`MaxOutagesAssumption`).

| Theorem | States | Argument |
| --- | --- | --- |
| `TypeCorrect` (TypeProofs) | `Spec => []TypeOK` | `TypeOK` is inductive. The types of requests, readers, passes and callers say that a step in progress has a device (or rule) of its own; without that the writes through it could not be typed. |
| `CacheIsMonotonic` (CacheProofs) | `Spec => CacheNeverMovesBackward` | `CacheSteps`: every step leaves Redis alone, runs the script with a typed state, or drops keys. `UpdateScriptAdvances`: the script moves neither `LastSeenAt` nor a reading's timestamp backward. |
| `KeysStayUnique` (IntegrityProofs) | `Spec => []DeviceKeysAreUnique` | Only `InsertDevice` stores a device, and it does so after the unique index found no other with the key; updates keep existence, deletions remove. |
| `HistoryNeverDangles` (IntegrityProofs) | `Spec => []NoDanglingHistory` | A commit inserts points and alerts only for a stored device and stored rules; a deletion only succeeds without history and clears or keeps valid every other reference. The state as read earlier plays no part, which is why the races are harmless. |
| `HistoryIsShown` (CacheProofs) | `Spec => []StatesComeFromHistory` | `HistoryInv`: every `LastSeenAt` column is the timestamp of a committed point, and so are the timestamps and readings of the states that requests, readers, passes and callers hold between a database read or commit and their cache writes. Telemetry only grows, so what was recorded stays recorded; merging two recorded states in the script gives a recorded one. |
| `CacheIsCurrentState` (CacheProofs) | `Spec => ImplementsCurrentState` | Each step of the cache writes a state that `HistoryInv` shows recorded and that `CacheSteps` shows to be no older than the one it replaces. |
| `UnknownUntilSeen` (IntegrityProofs) | `Spec => []UnknownMeansNeverSeen` | `ContactInv`: in every row, and in every row as a request or the monitor loaded it, the status is `Unknown` exactly when `LastSeenAt` is null; a device with points has been seen. A save of stale columns cannot undo that, because a row that was loaded as seen has points (`HistoryInv`) and points are not taken back (`NoDanglingHistory` rules out a deletion). |
| `NoUpdateIsLost` (CommitProofs) | `Spec => []CommittedIsCachedOrPending`, if `Faults \subseteq {"notify"}` | A request leaves its cache write only by making it; the script takes the newer reading; the key of a device with history is not removed, since a removal follows a deletion and an Id is never inserted again (`CallerInv`). |
| `CacheStaysRecent`, `CacheIsComplete` (CommitProofs) | `Spec => []CacheIsAsRecent`, `Spec => []CachedStateIsComplete`, if `Faults \subseteq {"notify"}` | At rest no write is pending, so each cached reading is as new as every point, and by `HistoryInv` it is one of them; among the points of one timestamp there is a latest because Ids are bounded by `nextId`. The second is what `MCPartialState` refutes once keys expire. |
| `NewestIsKept`, `OneActiveAlert` (CommitProofs) | `Spec => []LastSeenIsNewest`, `Spec => []AtMostOneActiveAlert`, if `Overlap = FALSE` | `QueueInv`: at most one request per key is in flight, and it is of its device. `SerialInv`: until it commits, the `LastSeenAt` it loaded is that of the row, and every active alert of its device and rules is among those it found. The monitor, edits, and deletions of rules keep both. |
| `StatusEventsFollowCommits` (CommitProofs) | `Spec => StatusEventsAreTransitions` | `StatusSteps`: only the commit of a request or of a pass changes a status, because edits keep it and an Id that is inserted had none. `PassInv`: what a pass found is still Online when it commits, since nothing else takes a row out of Online. `StatusAsLoaded`, for requests that do not overlap: a device that a request found not Online still has that status when it commits, since a pass only touches Online rows. `OnlineDueSteps` and `OfflineDueSteps`: an event comes to be owed by its commit only. |
| `CacheIsMirror` (CommitProofs) | `Spec /\ []Undisturbed => []CacheMirrorsDatabase`, if `Overlap = FALSE` and `Faults \subseteq {"notify"}` | `MirrorInv`: points are numbered; the cached state of a device with history equals its row and its latest points, and while a request is about to write, what the script will make of it does. The heart is `LatestAfterBatch`: merging a batch into the latest readings as the script does gives what `GetLatestByMetric` finds after the commit, since both let the later one win a tie (the script by arrival, the query by Id), and a batch that names a metric twice caches the entry that gets the greater Id. `Undisturbed` excludes passes and state queries, whose delayed writes can bring back what they read. |
| `CommitsLeaveVerdicts` (AlertProofs) | `Spec => AlertsFollowVerdicts`, if `Overlap = FALSE` | `AlertInv` adds to `SerialInv` the converse of `ActiveIsCurrent`, that each alert a request found is still active, and that an alert's Id is unique, because a request commits once. So a violated rule without an alert found gets one, and a satisfied rule loses the only one it has. |
| `AlertsFollowLifecycle` (AlertProofs) | `Spec => ImplementsAlertLifecycle`, if `Overlap = FALSE` | The refinement of `AlertLifecycle`: a commit maps to one step that resolves and raises, the deletion of a rule to one that makes its unresolved alert an orphan, and every other step to a stutter. An orphan that a batch resolves was found before its rule was deleted (`OrphansLostTheirRule`). |
| `DashboardFollowsAlerts` (AlertProofs) | `Spec => []DashboardAlertsAreCurrent`, if `Overlap = FALSE` and `Faults \subseteq {"redis", "expire"}` | `DashboardInv`: an alert is open on a dashboard exactly if it is unresolved and its raising is not still to be published, or its resolution is. What a committed request has yet to publish does not change, and no two requests have the same alert to publish. |
| `DialogMatchesLink`, `PageIsNeverStranded` (ReconnectProofs) | `Spec => []DialogCoversLostPage`, `Spec => []NeverStranded` | `PageInv`: the class of the dialog follows the link, the dialog is open exactly while the link is not connected, and a failed link is listened for or being retried. A late answer to one call is harmless because only an answer that attaches the page closes the dialog. |
| `ListenerIsRemoved`, `OnlyLostCircuitsReload` (ReconnectProofs) | `Spec => []ListensOnlyAfterFailure`, `Spec => ReloadsOnlyLostCircuits` | `CallInv`, for calls that do not overlap: the one call in progress fits the state of the link, and a paused link has no live circuit. So when `resumeCircuit()` is refused the circuit is lost. |
| `OneStreamAtATime`, `SettledConnectionsReceiveOnce` (StreamProofs) | `Spec => []OneStream`, `Spec => SettledReceiveOnce`, if `OneSubscription` | `StreamInv`: a ready connection is in exactly one group, a switching one in none but possibly the one it will join. `SettledInv`: a connection that kept still since an event's publication began has received it as often as the sends so far reached its stream. |
| `RegistrationIsReal` (SimulatorProofs) | `Spec => []RegisteredIsStored` | `RegistrationInv` adds that an answer on its way is still true: a key found, created or in conflict is stored or deleted since. |
| `ReconnectionTypes`, `StreamTypes`, `SimulatorTypes` | `Spec => []TypeOK` of each module | For connections it needs that a publication has sent an event to a connection at most as often as its stage says (`ReceivedAtMostSent`). |

`DatabaseAssumption` asks that the devices registered at the start have
different keys and that the rules at the start refer to registered devices,
which is what the unique index and the foreign keys of an existing database
guarantee.

The hypotheses are those of the properties, no stronger: where one names failures
that may not occur, each of the others may, and a theorem without one holds for
any. `Overlap = FALSE` is a promise of the clients (section 6), and section 4
names the counterexamples without it. `[]Undisturbed` selects behaviours rather
than instances; with `MaxClock` at most `OfflineAfter` and no readers, as in
`MCSequential`, every behaviour is one of them.

Every safety property and refinement that a passing run checks is thus a theorem
too. Only model-checked are the liveness properties (`SilentDeviceGoesOffline`,
`OfflineIsAnnounced`, `RecoversFromFailures`, `StopsWhenCancelled`,
`RejoinsOrReloads`): the prover has no fairness and no `ENABLED`. What the
functions of a batch compute is proved as far as the theorems need it:
`LastValueIsSent` finds the last entry of a metric by the well-foundedness of
the naturals, since induction over a sequence is out of reach.

## 6. Abstractions, bounds and fairness

**Data.** Values and thresholds are integers. Timestamps are naturals, so
instants before 1970, which the Lua script would confuse with "no timestamp",
are excluded. An alert's Id is the request and rule that raised it. `ResolvedAt`
is represented by the request whose clock it was read from. Names, units,
messages and the severity of alerts are left out. `Warning` and `Critical` are
no statuses of the model: no code sets them.

**Atomicity.** One action per stretch between awaits, with these steps merged:
the two queries of `HasHistoricalDataAsync`; the alert events of one request,
which concern different alerts; the deletion of a device and the `SET NULL` of
its rules, which are one transaction. A transaction is atomic and queries see
committed rows; points get their Ids in the order of their commits.

**Failures.** `abort` stands for whatever ends a request or a pass at an await:
a MySQL error, a cancelled request, a crash of the process, or an exception the
code does not classify (a `RedisTimeoutException` is no `RedisException`). After
a crash the new process starts with the same database, no requests and a
waiting monitor, which is what aborting all of them amounts to. A reader can
always be cut off: its caller may go away.

**External code.** The Blazor runtime and server do what the script's comments
and its use of their answers say: `reconnect()` and `resumeCircuit()` answer
true, false or throw when the server is not reached; a pause dispatches `show`
with the class `paused`; `resumeCircuit()` on a circuit that another call made
live again may answer either way. A circuit without a connection may be saved or
lost at any time. SignalR removes a closed connection from its groups.
Between the runtime's attaching of the page and the script's continuation, which
closes the dialog, a browser may run other tasks; in the model an answer is
delivered in one step that does both. `DialogCoversLostPage` therefore covers
answers and calls in any order, and not a page that is lost again within that
gap.

**Bounds.** At most two device Ids (an Id that is deleted and registered again
under its key, or two devices side by side), two metrics (one in the batch, one
not), one rule (rules are evaluated independently of each other), two callers
(the smallest number that races), and up to four batches. The batches
(`MCMetricsHub!Bodies`) cross the threshold both ways, arrive out of order, tie
on a timestamp and name a metric twice. `MaxClock` bounds the server clock just
above the timestamps plus `OfflineAfter = 1`; runs that are not about the
monitor set it to 0, which keeps the monitor from finding anything stale. Each
request is sent once; a reader may ask again without limit. `Calls`: two runs of the dialog's
functions are the fewest that overlap. `MaxOutages` is four: a fifth outage
reaches no new state of the page, the link, the server and the calls (TLC with
the counter left out of the states finds the same 2 339 for four, five, six and
seven). Two connections, two devices and two events of one device:
each connection can follow another stream while the events overlap. `MaxLate`:
one given-up call of each kind per device waits at the API, so that with two
devices of one key a creation can be served late both before and after the
deletion.

**Deadlock.** `CHECK_DEADLOCK FALSE` where an instance comes to rest: requests
are sent once and the clock is bounded, cancelled loops stop, outages are
bounded. `MCStreams` checks for deadlock: connections come and go for ever.

**Fairness.** `FairSpec` assumes weak fairness of the monitor's steps (the
hosted service loops on a `PeriodicTimer` until shutdown and survives
exceptions) and of the clock, and nothing of requests: one that hangs for ever
does not keep the monitor from its work. In `Simulator` the loops run and the API serves the calls that reach it. In
`Reconnection` the runtime makes its attempts and the browser delivers every
answer; that the server stays up and the user returns are premises of the
property. Nothing is assumed of clients, callers of the management endpoints, state
queries, expiry or failures. The liveness run contains Redis failures but no
aborts: a pass that is cut off after its commit does not announce its devices,
and no later pass finds them again.

## 7. Not modelled

- `GetHistoryAsync`, `GetLatestAsync`, alert and device listings: read-only.
- Validation of formats, ProblemDetails bodies, logging.
- `TelemetryReceived`: it carries what the request sent, and a dashboard keeps
  nothing of it.
- The name, type and location of devices and rules: single columns that no
  other operation reads.
- `DeviceSimulator/Simulation/MetricGenerator.cs`: a random walk of values
  that nothing depends on.
- `src/MetricsHub.Web` apart from the reconnect dialog: the Blazor template
  with vendored Bootstrap, not connected to the API.
- Migrations: generated; the constraints are taken from the entity
  configurations.

## 8. Plan

In the order of importance; all of it is done.

1. `Domain`, `Database`, `DeviceStateStore`, `RealtimeNotifier`: shared state.
2. `TelemetryService`: ingestion and state queries, with `MCIngest`, `MCFaults`.
3. `DeviceMonitoring`: the monitor, with `MCOffline` and its liveness.
4. `Administration`, with `MCAdmin`, `MCSequential`.
5. `TypeProofs`, `CacheProofs`, `IntegrityProofs`.
6. `ReconnectModal` and `Reconnection`, with `MCReconnection` and
   `ReconnectProofs`.
7. `MonitoringHub`, with `MCStreams`, `MCTwoStreams` and `StreamProofs`.
8. `Simulator`, with `MCSimulator` and `SimulatorProofs`.
9. `CurrentState` and `AlertLifecycle` and their refinements.
10. History in `CacheProofs`: what is cached and shown was committed, and with
    `CacheIsMonotonic` the refinement of `CurrentState`.
11. `CommitProofs`: lost updates, and what requests that do not overlap guarantee
    for the rows, the announcements and the cache.
12. `AlertProofs`: verdicts, the refinement of `AlertLifecycle`, and dashboards.

---------------------------- MODULE CacheProofs -----------------------------
(***************************************************************************)
(* What the Lua script guarantees of the cache, whoever writes in whatever *)
(* order and whatever fails; and that the cache and the events never run   *)
(* ahead of the database, because everything that requests, queries,       *)
(* passes and operations hold locally and may write later was committed    *)
(* before. Together they make the system an implementation of CurrentState.*)
(***************************************************************************)
EXTENDS TypeProofs

-----------------------------------------------------------------------------
(* The script.                                                             *)

(* The script never takes a timestamp of the hash back.                    *)
LEMMA UpdateScriptAdvances ==
  ASSUME NEW hash \in DeviceState, NEW state \in DeviceState
  PROVE  /\ UpdateScript(hash, state).lastSeenAt >= hash.lastSeenAt
         /\ \A m \in Metrics :
              UpdateScript(hash, state).metrics[m].timestamp >= hash.metrics[m].timestamp
<1>1. /\ hash.lastSeenAt \in OptionalTime
      /\ state.lastSeenAt \in OptionalTime
  BY DEF DeviceState
<1>2. UpdateScript(hash, state).lastSeenAt >= hash.lastSeenAt
  BY <1>1 DEF UpdateScript, OptionalTime, NoTime, Time
<1>3. ASSUME NEW m \in Metrics
      PROVE  UpdateScript(hash, state).metrics[m].timestamp >= hash.metrics[m].timestamp
  <2>1. /\ hash.metrics[m].timestamp \in OptionalTime
        /\ state.metrics[m].timestamp \in OptionalTime
    BY DEF DeviceState, Reading
  <2>2. MergeReading(hash.metrics[m], state.metrics[m]).timestamp >= hash.metrics[m].timestamp
    BY <2>1 DEF MergeReading, OptionalTime, NoTime, Time
  <2> QED
    BY <2>2 DEF UpdateScript
<1> QED
  BY <1>2, <1>3

(* A step leaves the cache alone, runs the script on one key, or drops one *)
(* key: it expires, or its device was deleted.                             *)
CacheStep ==
  \/ UNCHANGED redis
  \/ \E d \in Devices, state \in DeviceState : SetAsync(d, state)
  \/ \E d \in Devices : /\ RemoveAsync(d)
                        /\ \/ Expire(d)
                           \/ \E a \in Admins : admin[a].pc = "removeKey" /\ admin[a].device = d

LEMMA CacheSteps == TypeOK /\ [Next]_vars => CacheStep
<1> SUFFICES ASSUME TypeOK, [Next]_vars PROVE CacheStep
  OBVIOUS
<1>1. ASSUME NEW r \in Requests, Ingest(r) \/ AbortIngest(r) PROVE CacheStep
  <2>1. CASE CacheWrite(r)
    <3>1. ingest[r].device \in Devices
      BY <2>1 DEF CacheWrite, TypeOK, ServiceTypeOK, IngestState, IngestSteps
    <3>2. StateToCache(r) \in DeviceState
      BY IngestFieldTypes
    <3> QED
      BY <2>1, <3>1, <3>2 DEF CacheWrite, SetAsyncFails, CacheStep
  <2> QED
    BY <1>1, <2>1 DEF Ingest, LoadDevice, LoadRules, LoadActiveAlerts, RequireDevice, SaveChanges,
       CacheRead, RebuildState, PublishState, PublishStatus, PublishAlerts, AbortIngest, CacheStep
<1>2. ASSUME NEW g \in Readers, Read(g) \/ AbortReader(g) PROVE CacheStep
  <2>1. CASE WriteRebuiltState(g)
    <3>1. reader[g].device \in Devices /\ reader[g].state \in DeviceState
      BY <2>1 DEF WriteRebuiltState, TypeOK, ServiceTypeOK, ReaderState
    <3> QED
      BY <2>1, <3>1 DEF WriteRebuiltState, SetAsyncFails, CacheStep
  <2> QED
    BY <1>2, <2>1 DEF Read, GetState, ReadCachedState, ReadHistory, AbortReader, CacheStep
<1>3. CASE MonitorStep
  <2>1. CASE WriteState
    <3>1. monitor.device \in Devices /\ monitor.state \in DeviceState
      BY <2>1 DEF WriteState, TypeOK, MonitorTypeOK, MonitorState, MonitorSteps
    <3> QED
      BY <2>1, <3>1 DEF WriteState, SetAsyncFails, CacheStep
  <2> QED
    BY <1>3, <2>1 DEF MonitorStep, MonitorPass, FindStaleDevices, CommitOffline, NextDevice, ReadState,
       ReadHistoryForState, PublishOffline, PublishOfflineState, AbortPass, Tick, CacheStep
<1>4. ASSUME NEW a \in Admins, Administer(a) \/ AbortAdmin(a) PROVE CacheStep
  <2>1. CASE RemoveKey(a)
    <3>1. admin[a].device \in Devices
      BY <2>1 DEF RemoveKey, TypeOK, AdminTypeOK, AdminState, DeviceSteps, RuleSteps
    <3> QED
      BY <2>1, <3>1 DEF RemoveKey, CacheStep
  <2> QED
    BY <1>4, <2>1 DEF Administer, AdvanceAdmin, RegisterDevice, DeleteDevice, EditDevice,
       InsertDevice, SaveEditedDevice, CheckHistory, DeleteLoadedDevice, CreateRule, EditRule,
       CheckDevice, SaveEditedRule, DeleteRule, DeleteLoadedRule, AbortAdmin, CacheStep
<1>5. CASE ExpiryStep
  BY <1>5 DEF ExpiryStep, Expire, RemoveAsync, CacheStep
<1>6. CASE UNCHANGED vars
  BY <1>6 DEF vars, CacheStep
<1> QED
  BY <1>1, <1>2, <1>3, <1>4, <1>5, <1>6 DEF Next, ServiceStep, AdminStep

CacheAdvances ==
  \A d \in Devices : redis'[d] = NoState \/
    /\ redis'[d].lastSeenAt >= redis[d].lastSeenAt
    /\ \A m \in Metrics : redis'[d].metrics[m].timestamp >= redis[d].metrics[m].timestamp

LEMMA CacheStepAdvances == TypeOK /\ CacheStep => CacheAdvances
<1> SUFFICES ASSUME TypeOK, CacheStep, NEW d \in Devices, redis'[d] # NoState
             PROVE  /\ redis'[d].lastSeenAt >= redis[d].lastSeenAt
                    /\ \A m \in Metrics :
                         redis'[d].metrics[m].timestamp >= redis[d].metrics[m].timestamp
  BY DEF CacheAdvances
<1>1. redis \in [Devices -> DeviceState]
  BY DEF TypeOK, StoreTypeOK
<1>2. CASE redis'[d] = redis[d]
  <2>1. /\ redis[d].lastSeenAt \in OptionalTime
        /\ \A m \in Metrics : redis[d].metrics[m].timestamp \in OptionalTime
    BY <1>1 DEF DeviceState, Reading
  <2> QED
    BY <1>2, <2>1 DEF OptionalTime, NoTime, Time
<1>3. CASE \E state \in DeviceState : redis'[d] = UpdateScript(redis[d], state)
  BY <1>1, <1>3, UpdateScriptAdvances
<1>4. redis'[d] = redis[d] \/ \E state \in DeviceState : redis'[d] = UpdateScript(redis[d], state)
  BY <1>1 DEF CacheStep, SetAsync, RemoveAsync
<1> QED
  BY <1>2, <1>3, <1>4

(* While a key of the cache lives, its LastSeenAt and the timestamps of    *)
(* its readings never go back, for any number of devices, requests,        *)
(* queries and metrics, and with every failure.                            *)
THEOREM CacheIsMonotonic == Spec => CacheNeverMovesBackward
<1>1. TypeOK /\ [Next]_vars => [CacheAdvances]_vars
  BY CacheSteps, CacheStepAdvances
<1> QED
  BY <1>1, TypeCorrect, PTL DEF Spec, CacheNeverMovesBackward, CacheAdvances

-----------------------------------------------------------------------------
(* History.                                                                *)

(* A timestamp, a reading and a state of device d that some points justify.*)
Seen(points, d, timestamp) ==
  timestamp = NoTime \/ \E p \in points : p.device = d /\ p.timestamp = timestamp

Recorded(points, d, m, reading) ==
  \/ reading = NoReading
  \/ \E p \in points : /\ p.device = d
                       /\ p.metric = m
                       /\ p.value = reading.value
                       /\ p.timestamp = reading.timestamp

Past(points, d, state) ==
  /\ Seen(points, d, state.lastSeenAt)
  /\ \A m \in Metrics : Recorded(points, d, m, state.metrics[m])

(* The inductive invariant, part by part.                                  *)
RowsSeen == \A d \in Devices : Seen(telemetry, d, devices[d].lastSeenAt)

Committed == {"cacheWrite", "cacheRead", "rebuild"}

IngestPast ==
  \A r \in Requests :
    /\ Seen(telemetry, ingest[r].device, ingest[r].loaded.lastSeenAt)
    /\ ingest[r].pc \in Committed =>
         Past(telemetry, ingest[r].device, StateToCache(r))
    /\ ingest[r].pc = "publishState" =>
         Past(telemetry, ingest[r].device, ingest[r].notification)

ReaderPast ==
  \A g \in Readers :
    /\ Seen(telemetry, reader[g].device, reader[g].loaded.lastSeenAt)
    /\ reader[g].pc = "cacheWrite" => Past(telemetry, reader[g].device, reader[g].state)

MonitorPast ==
  /\ \A d \in Devices : Seen(telemetry, d, monitor.loaded[d].lastSeenAt)
  /\ monitor.pc \in {"writeState", "publishStatus", "publishState"} =>
       Past(telemetry, monitor.device, monitor.state)

AdminPast ==
  \A a \in Admins :
    admin[a].pc = "saveDevice" => Seen(telemetry, admin[a].device, admin[a].edited.lastSeenAt)

CachePast == \A d \in Devices : Past(telemetry, d, redis[d])
ShownPast == \A d \in Devices : Past(telemetry, d, shown[d])

HistoryInv ==
  RowsSeen /\ IngestPast /\ ReaderPast /\ MonitorPast /\ AdminPast /\ CachePast /\ ShownPast

-----------------------------------------------------------------------------
(* Points are never taken back, so what they justify stays justified.      *)
LEMMA SeenGrows ==
  ASSUME NEW points, NEW more, points \subseteq more, NEW d, NEW t, Seen(points, d, t)
  PROVE  Seen(more, d, t)
BY DEF Seen

LEMMA PastGrows ==
  ASSUME NEW points, NEW more, points \subseteq more, NEW d, NEW state, Past(points, d, state)
  PROVE  Past(more, d, state)
BY DEF Past, Seen, Recorded

LEMMA NoStatePast ==
  ASSUME NEW points, NEW d
  PROVE  Past(points, d, NoState)
BY DEF Past, Seen, Recorded, NoState

(* The script and the entity methods only choose among what they are given.*)
LEMMA ScriptPast ==
  ASSUME NEW points, NEW d, NEW hash, NEW state, Past(points, d, hash), Past(points, d, state)
  PROVE  Past(points, d, UpdateScript(hash, state))
<1>1. Seen(points, d, UpdateScript(hash, state).lastSeenAt)
  BY DEF UpdateScript, Past
<1>2. ASSUME NEW m \in Metrics
      PROVE  Recorded(points, d, m, UpdateScript(hash, state).metrics[m])
  <2>1. UpdateScript(hash, state).metrics[m] = MergeReading(hash.metrics[m], state.metrics[m])
    BY DEF UpdateScript
  <2> QED
    BY <2>1 DEF MergeReading, Past
<1> QED
  BY <1>1, <1>2 DEF Past

LEMMA StateOfPast ==
  ASSUME NEW points, NEW d, NEW device, NEW metrics, Seen(points, d, device.lastSeenAt),
         \A m \in Metrics : Recorded(points, d, m, metrics[m])
  PROVE  Past(points, d, StateOf(device, metrics))
BY DEF Past, StateOf

LEMMA RecordTelemetrySeen ==
  ASSUME NEW device \in DeviceRow, NEW t
  PROVE  RecordTelemetry(device, t).lastSeenAt \in {device.lastSeenAt, t}
BY DEF RecordTelemetry, DeviceRow

LEMMA MarkOfflineSeen ==
  ASSUME NEW device \in DeviceRow
  PROVE  MarkOffline(device).lastSeenAt = device.lastSeenAt
BY DEF MarkOffline, DeviceRow

LEMMA SaveDeviceSeen ==
  ASSUME NEW current \in DeviceRow, NEW loaded, NEW entity
  PROVE  SaveDevice(current, loaded, entity).lastSeenAt \in {current.lastSeenAt, entity.lastSeenAt}
BY DEF SaveDevice, Column, DeviceRow

LEMMA LatestReadingsRecorded ==
  ASSUME NEW d, NEW m \in Metrics
  PROVE  Recorded(telemetry, d, m, LatestReadings(d)[m])
<1>1. CASE \E p \in GetLatestByMetric(d) : p.metric = m
  <2> DEFINE p == CHOOSE p \in GetLatestByMetric(d) : p.metric = m
  <2>1. p \in telemetry /\ p.device = d /\ p.metric = m
    BY <1>1 DEF GetLatestByMetric
  <2>2. LatestReadings(d)[m] = [value |-> p.value, timestamp |-> p.timestamp]
    BY <1>1 DEF LatestReadings
  <2> HIDE DEF p
  <2> QED
    BY <2>1, <2>2 DEF Recorded
<1>2. CASE ~ \E p \in GetLatestByMetric(d) : p.metric = m
  BY <1>2 DEF LatestReadings, Recorded
<1> QED
  BY <1>1, <1>2

-----------------------------------------------------------------------------
(* What a commit adds justifies the state that its request caches.         *)

LEMMA LastValueIsSent ==
  ASSUME NEW r \in Requests, NEW m, Includes(Command[r], m)
  PROVE  \E i \in DOMAIN Command[r].metrics :
           /\ Command[r].metrics[i].metric = m
           /\ LastValue(Command[r], m) = Command[r].metrics[i].value
           /\ \A j \in DOMAIN Command[r].metrics : Command[r].metrics[j].metric = m => j <= i
<1> DEFINE s == Command[r].metrics
           S == {i \in DOMAIN s : s[i].metric = m}
<1>1. s \in Seq([metric: Metrics, value: Int])
  BY DomainAssumption DEF IngestTelemetryCommand
<1>2. S \subseteq 1..Len(s) /\ S # {}
  BY <1>1 DEF Includes
<1>3. \E i \in S : \A j \in S : j <= i
  <2>1. Len(s) \in Nat
    BY <1>1
  <2> HIDE DEF S, s
  <2> QED
    BY <1>2, <2>1, LastPosition
<1>4. PICK i \in DOMAIN s : /\ s[i].metric = m
                           /\ \A j \in DOMAIN s : s[j].metric = m => j <= i
  BY <1>3
<1> DEFINE k == CHOOSE k \in DOMAIN s :
                  /\ s[k].metric = m
                  /\ \A j \in DOMAIN s : s[j].metric = m => j <= k
<1>5. k \in DOMAIN s /\ s[k].metric = m /\ \A j \in DOMAIN s : s[j].metric = m => j <= k
  BY <1>4
<1>6. LastValue(Command[r], m) = s[k].value
  BY DEF LastValue
<1> QED
  BY <1>5, <1>6

LEMMA PointsAdded ==
  ASSUME NEW r \in Requests, NEW d, AddPoints(d, Command[r])
  PROVE  /\ telemetry \subseteq telemetry'
         /\ \A i \in DOMAIN Command[r].metrics :
              \E p \in telemetry' : /\ p.device = d
                                    /\ p.metric = Command[r].metrics[i].metric
                                    /\ p.value = Command[r].metrics[i].value
                                    /\ p.timestamp = Command[r].timestamp
<1>1. ASSUME NEW i \in DOMAIN Command[r].metrics
      PROVE  \E p \in telemetry' : /\ p.device = d
                                   /\ p.metric = Command[r].metrics[i].metric
                                   /\ p.value = Command[r].metrics[i].value
                                   /\ p.timestamp = Command[r].timestamp
  <2> DEFINE p == [id |-> nextId + i, device |-> d, metric |-> Command[r].metrics[i].metric,
                   value |-> Command[r].metrics[i].value, timestamp |-> Command[r].timestamp]
  <2>1. p \in telemetry'
    BY DEF AddPoints
  <2> QED
    BY <2>1
<1> QED
  BY <1>1 DEF AddPoints

LEMMA BatchIsPast ==
  ASSUME TypeOK, NEW r \in Requests, NEW d, AddPoints(d, Command[r]),
         Seen(telemetry, d, ingest[r].loaded.lastSeenAt)
  PROVE  /\ Seen(telemetry', d, Entity(r).lastSeenAt)
         /\ Past(telemetry', d, StateToCache(r))
<1>1. Seen(telemetry', d, Command[r].timestamp)
  <2>1. 1 \in DOMAIN Command[r].metrics
    BY DomainAssumption DEF IngestTelemetryCommand
  <2> QED
    BY <2>1, PointsAdded DEF Seen
<1>2. Seen(telemetry', d, ingest[r].loaded.lastSeenAt)
  BY PointsAdded, SeenGrows
<1>3. Entity(r).lastSeenAt \in {ingest[r].loaded.lastSeenAt, Command[r].timestamp}
  BY IngestFieldTypes, RecordTelemetrySeen DEF Entity
<1>4. Seen(telemetry', d, Entity(r).lastSeenAt)
  BY <1>1, <1>2, <1>3
<1>5. ASSUME NEW m \in Metrics
      PROVE  Recorded(telemetry', d, m, BatchReadings(Command[r])[m])
  <2>1. CASE Includes(Command[r], m)
    <3>1. BatchReadings(Command[r])[m] =
            [value |-> LastValue(Command[r], m), timestamp |-> Command[r].timestamp]
      BY <2>1 DEF BatchReadings
    <3>2. \E p \in telemetry' : /\ p.device = d
                                /\ p.metric = m
                                /\ p.value = LastValue(Command[r], m)
                                /\ p.timestamp = Command[r].timestamp
      <4>1. PICK i \in DOMAIN Command[r].metrics :
              /\ Command[r].metrics[i].metric = m
              /\ LastValue(Command[r], m) = Command[r].metrics[i].value
        BY <2>1, LastValueIsSent
      <4> QED
        BY <4>1, PointsAdded
    <3> QED
      BY <3>1, <3>2 DEF Recorded
  <2>2. CASE ~Includes(Command[r], m)
    BY <2>2 DEF BatchReadings, Recorded
  <2> QED
    BY <2>1, <2>2
<1> QED
  BY <1>4, <1>5, StateOfPast DEF StateToCache

-----------------------------------------------------------------------------
(* Every step keeps every part of the invariant.                           *)

(* The table of points changes when a request commits, and then Redis and  *)
(* the dashboards do not.                                                  *)
TelemetryStep ==
  \/ UNCHANGED telemetry
  \/ \E r \in Requests : /\ SaveChanges(r)
                         /\ AddPoints(ingest[r].device, Command[r])
                         /\ ingest[r].device \in Devices

LEMMA TelemetrySteps == TypeOK /\ [Next]_vars => TelemetryStep
<1> SUFFICES ASSUME TypeOK, [Next]_vars PROVE TelemetryStep
  OBVIOUS
<1>1. ASSUME NEW r \in Requests, Ingest(r) \/ AbortIngest(r) PROVE TelemetryStep
  <2>1. CASE SaveChanges(r)
    <3>1. ingest[r].device \in Devices
      BY <2>1 DEF SaveChanges, TypeOK, ServiceTypeOK, IngestState, IngestSteps
    <3> QED
      BY <2>1, <3>1 DEF SaveChanges, TelemetryStep
  <2> QED
    BY <1>1, <2>1 DEF Ingest, LoadDevice, LoadRules, LoadActiveAlerts, RequireDevice, CacheWrite,
       CacheRead, RebuildState, PublishState, PublishStatus, PublishAlerts, AbortIngest,
       dbVars, TelemetryStep
<1>2. ASSUME NEW g \in Readers, Read(g) \/ AbortReader(g) PROVE TelemetryStep
  BY <1>2 DEF Read, GetState, ReadCachedState, ReadHistory, WriteRebuiltState, AbortReader,
     dbVars, TelemetryStep
<1>3. CASE MonitorStep
  BY <1>3 DEF MonitorStep, MonitorPass, FindStaleDevices, CommitOffline, NextDevice, ReadState,
     ReadHistoryForState, WriteState, PublishOffline, PublishOfflineState, AbortPass, Tick,
     dbVars, TelemetryStep
<1>4. ASSUME NEW a \in Admins, Administer(a) \/ AbortAdmin(a) PROVE TelemetryStep
  BY <1>4 DEF Administer, AdvanceAdmin, RegisterDevice, DeleteDevice, EditDevice,
     InsertDevice, SaveEditedDevice, CheckHistory, DeleteLoadedDevice, RemoveKey, CreateRule,
     EditRule, CheckDevice, SaveEditedRule, DeleteRule, DeleteLoadedRule, AbortAdmin,
     dbVars, TelemetryStep
<1>5. CASE ExpiryStep
  BY <1>5 DEF ExpiryStep, dbVars, TelemetryStep
<1>6. CASE UNCHANGED vars
  BY <1>6 DEF vars, dbVars, TelemetryStep
<1> QED
  BY <1>1, <1>2, <1>3, <1>4, <1>5, <1>6 DEF Next, ServiceStep, AdminStep

LEMMA TelemetryGrows == TypeOK /\ [Next]_vars => telemetry \subseteq telemetry'
BY TelemetrySteps, PointsAdded DEF TelemetryStep

(* The LastSeenAt column: kept, or set by a request that commits, or by a  *)
(* save of what was loaded.                                                *)
LEMMA RowsNext == TypeOK /\ HistoryInv /\ [Next]_vars => RowsSeen'
<1> SUFFICES ASSUME TypeOK, HistoryInv, [Next]_vars, NEW d \in Devices
             PROVE  Seen(telemetry', d, devices'[d].lastSeenAt)
  BY DEF RowsSeen
<1> DEFINE Goal == Seen(telemetry', d, devices'[d].lastSeenAt)
<1>1. Seen(telemetry', d, devices[d].lastSeenAt)
  BY TelemetryGrows, SeenGrows DEF HistoryInv, RowsSeen
<1>2. devices \in [Devices -> DeviceRow]
  BY DEF TypeOK, DatabaseTypeOK
<1>3. CASE devices'[d].lastSeenAt \in {devices[d].lastSeenAt, NoTime}
  BY <1>1, <1>3 DEF Seen
<1> HIDE DEF Goal
<1>4. ASSUME NEW r \in Requests, Ingest(r) \/ AbortIngest(r) PROVE Goal
  <2>1. CASE SaveChanges(r)
    <3>1. CASE devices' = devices
      BY <1>1, <3>1 DEF Goal
    <3>2. CASE /\ devices' = [devices EXCEPT ![ingest[r].device] =
                                 SaveDevice(@, ingest[r].loaded, Entity(r))]
               /\ AddPoints(ingest[r].device, Command[r])
      <4>1. CASE d = ingest[r].device
        <5>1. Seen(telemetry', d, Entity(r).lastSeenAt)
          BY <3>2, <4>1, BatchIsPast DEF HistoryInv, IngestPast
        <5>2. devices'[d] = SaveDevice(devices[d], ingest[r].loaded, Entity(r))
          BY <1>2, <3>2, <4>1
        <5>3. devices'[d].lastSeenAt \in {devices[d].lastSeenAt, Entity(r).lastSeenAt}
          BY <1>2, <5>2, SaveDeviceSeen
        <5> QED
          BY <1>1, <5>1, <5>3 DEF Goal
      <4>2. CASE d # ingest[r].device
        BY <1>1, <1>2, <3>2, <4>2 DEF Goal
      <4> QED
        BY <4>1, <4>2
    <3> QED
      BY <2>1, <3>1, <3>2 DEF SaveChanges
  <2>2. CASE UNCHANGED devices
    BY <1>1, <2>2 DEF Goal
  <2> QED
    BY <1>4, <2>1, <2>2 DEF Ingest, LoadDevice, LoadRules, LoadActiveAlerts, RequireDevice,
       CacheWrite, CacheRead, RebuildState, PublishState, PublishStatus, PublishAlerts,
       AbortIngest, dbVars
<1>5. ASSUME NEW g \in Readers, Read(g) \/ AbortReader(g) PROVE Goal
  BY <1>1, <1>5 DEF Goal, Read, GetState, ReadCachedState, ReadHistory, WriteRebuiltState,
     AbortReader, dbVars
<1>6. CASE MonitorStep
  <2>1. CASE CommitOffline
    <3> DEFINE loaded == monitor.loaded[d]
    <3>1. CASE devices'[d] = SaveDevice(devices[d], loaded, MarkOffline(loaded))
      <4>1. loaded \in DeviceRow
        BY DEF TypeOK, MonitorTypeOK, MonitorState
      <4>2. Seen(telemetry', d, MarkOffline(loaded).lastSeenAt)
        BY <4>1, MarkOfflineSeen, TelemetryGrows, SeenGrows DEF HistoryInv, MonitorPast
      <4>3. devices'[d].lastSeenAt \in {devices[d].lastSeenAt, MarkOffline(loaded).lastSeenAt}
        BY <1>2, <3>1, SaveDeviceSeen
      <4> QED
        BY <1>1, <4>2, <4>3 DEF Goal
    <3>2. CASE devices'[d] = devices[d]
      BY <1>1, <3>2 DEF Goal
    <3> QED
      BY <2>1, <3>1, <3>2 DEF CommitOffline
  <2>2. CASE UNCHANGED devices
    BY <1>1, <2>2 DEF Goal
  <2> QED
    BY <1>6, <2>1, <2>2 DEF MonitorStep, MonitorPass, FindStaleDevices, NextDevice, ReadState,
       ReadHistoryForState, WriteState, PublishOffline, PublishOfflineState, AbortPass, Tick, dbVars
<1>7. ASSUME NEW a \in Admins, Administer(a) \/ AbortAdmin(a) PROVE Goal
  <2>1. CASE InsertDevice(a)
    <3>1. devices'[d] = devices[d] \/ devices'[d] = NewDevice
      BY <1>2, <2>1 DEF InsertDevice
    <3> QED
      BY <1>3, <3>1 DEF NewDevice, Goal
  <2>2. CASE SaveEditedDevice(a)
    <3> DEFINE edited == admin[a].edited
    <3>1. CASE d = admin[a].device /\ devices'[d] = SaveDevice(devices[d], admin[a].loaded, edited)
      <4>1. Seen(telemetry', d, edited.lastSeenAt)
        BY <2>2, <3>1, TelemetryGrows, SeenGrows DEF SaveEditedDevice, HistoryInv, AdminPast
      <4>2. devices'[d].lastSeenAt \in {devices[d].lastSeenAt, edited.lastSeenAt}
        BY <1>2, <3>1, SaveDeviceSeen
      <4> QED
        BY <1>1, <4>1, <4>2 DEF Goal
    <3>2. CASE devices'[d] = devices[d]
      BY <1>1, <3>2 DEF Goal
    <3> QED
      BY <1>2, <2>2, <3>1, <3>2 DEF SaveEditedDevice
  <2>3. CASE DeleteLoadedDevice(a)
    <3>1. devices'[d] = devices[d] \/ devices'[d] = [devices[d] EXCEPT !.existence = "deleted"]
      BY <1>2, <2>3 DEF DeleteLoadedDevice, DeleteDeviceRow
    <3>2. devices'[d].lastSeenAt = devices[d].lastSeenAt
      BY <1>2, <3>1 DEF DeviceRow
    <3> QED
      BY <1>1, <3>2 DEF Goal
  <2>4. CASE UNCHANGED devices
    BY <1>1, <2>4 DEF Goal
  <2> QED
    BY <1>7, <2>1, <2>2, <2>3, <2>4 DEF Administer, AdvanceAdmin, RegisterDevice, DeleteDevice,
       EditDevice, CheckHistory, RemoveKey, CreateRule, EditRule, CheckDevice, SaveEditedRule,
       DeleteRule, DeleteLoadedRule, AbortAdmin, dbVars
<1>8. CASE ExpiryStep
  BY <1>1, <1>8 DEF Goal, ExpiryStep, dbVars
<1>9. CASE UNCHANGED vars
  BY <1>1, <1>9 DEF Goal, vars, dbVars
<1> QED
  BY <1>4, <1>5, <1>6, <1>7, <1>8, <1>9 DEF Next, ServiceStep, AdminStep, Goal

(* A key of the cache: kept, dropped, or run through the script with a     *)
(* state that its writer holds.                                            *)
LEMMA SetAsyncPast ==
  ASSUME TypeOK, NEW points, NEW e, NEW state, Past(points, e, state),
         \A d \in Devices : Past(points, d, redis[d]),
         SetAsync(e, state) \/ SetAsyncFails(e, state)
  PROVE  \A d \in Devices : Past(points, d, redis'[d])
<1> TAKE d \in Devices
<1>1. redis'[d] = redis[d] \/ (d = e /\ redis'[d] = UpdateScript(redis[d], state))
  BY DEF SetAsync, SetAsyncFails, TypeOK, StoreTypeOK
<1> QED
  BY <1>1, ScriptPast

LEMMA CacheNext == TypeOK /\ HistoryInv /\ [Next]_vars => CachePast'
<1> SUFFICES ASSUME TypeOK, HistoryInv, [Next]_vars
             PROVE  \A d \in Devices : Past(telemetry', d, redis'[d])
  BY DEF CachePast
<1> DEFINE Goal == \A d \in Devices : Past(telemetry', d, redis'[d])
<1>1. \A d \in Devices : Past(telemetry', d, redis[d])
  BY TelemetryGrows, PastGrows DEF HistoryInv, CachePast
<1>2. ASSUME NEW e \in Devices, RemoveAsync(e) PROVE Goal
  <2> SUFFICES ASSUME NEW d \in Devices PROVE Past(telemetry', d, redis'[d])
    OBVIOUS
  <2>1. redis'[d] = redis[d] \/ redis'[d] = NoState
    BY <1>2 DEF RemoveAsync, TypeOK, StoreTypeOK
  <2> QED
    BY <1>1, <2>1, NoStatePast
<1> HIDE DEF Goal
<1>3. ASSUME UNCHANGED redis PROVE Goal
  BY <1>1, <1>3 DEF Goal
<1>4. ASSUME NEW r \in Requests, Ingest(r) \/ AbortIngest(r) PROVE Goal
  <2>1. CASE CacheWrite(r)
    <3>1. Past(telemetry', ingest[r].device, StateToCache(r))
      BY <2>1, TelemetryGrows, PastGrows DEF CacheWrite, HistoryInv, IngestPast, Committed
    <3> QED
      BY <1>1, <2>1, <3>1, SetAsyncPast DEF CacheWrite, Goal
  <2> QED
    BY <1>3, <1>4, <2>1 DEF Ingest, LoadDevice, LoadRules, LoadActiveAlerts, RequireDevice,
       SaveChanges, CacheRead, RebuildState, PublishState, PublishStatus, PublishAlerts, AbortIngest
<1>5. ASSUME NEW g \in Readers, Read(g) \/ AbortReader(g) PROVE Goal
  <2>1. CASE WriteRebuiltState(g)
    <3>1. Past(telemetry', reader[g].device, reader[g].state)
      BY <2>1, TelemetryGrows, PastGrows DEF WriteRebuiltState, HistoryInv, ReaderPast
    <3> QED
      BY <1>1, <2>1, <3>1, SetAsyncPast DEF WriteRebuiltState, Goal
  <2> QED
    BY <1>3, <1>5, <2>1 DEF Read, GetState, ReadCachedState, ReadHistory, AbortReader
<1>6. ASSUME MonitorStep PROVE Goal
  <2>1. CASE WriteState
    <3>1. Past(telemetry', monitor.device, monitor.state)
      BY <2>1, TelemetryGrows, PastGrows DEF WriteState, HistoryInv, MonitorPast
    <3> QED
      BY <1>1, <2>1, <3>1, SetAsyncPast DEF WriteState, Goal
  <2> QED
    BY <1>3, <1>6, <2>1 DEF MonitorStep, MonitorPass, FindStaleDevices, CommitOffline, NextDevice,
       ReadState, ReadHistoryForState, PublishOffline, PublishOfflineState, AbortPass, Tick
<1>7. ASSUME NEW a \in Admins, Administer(a) \/ AbortAdmin(a) PROVE Goal
  <2>1. CASE RemoveKey(a)
    <3>1. admin[a].device \in Devices
      BY <2>1 DEF RemoveKey, TypeOK, AdminTypeOK, AdminState, DeviceSteps, RuleSteps
    <3> QED
      BY <1>2, <1>3, <2>1, <3>1 DEF RemoveKey
  <2> QED
    BY <1>3, <1>7, <2>1 DEF Administer, AdvanceAdmin, RegisterDevice, DeleteDevice, EditDevice,
       InsertDevice, SaveEditedDevice, CheckHistory, DeleteLoadedDevice, CreateRule, EditRule,
       CheckDevice, SaveEditedRule, DeleteRule, DeleteLoadedRule, AbortAdmin
<1>8. ASSUME ExpiryStep PROVE Goal
  BY <1>2, <1>8 DEF ExpiryStep, Expire, RemoveAsync
<1>9. ASSUME UNCHANGED vars PROVE Goal
  BY <1>3, <1>9 DEF vars
<1> QED
  BY <1>4, <1>5, <1>6, <1>7, <1>8, <1>9 DEF Next, ServiceStep, AdminStep, Goal

(* What a dashboard shows: what a request or the pass published last.      *)
LEMMA ShownNext == TypeOK /\ HistoryInv /\ [Next]_vars => ShownPast'
<1> SUFFICES ASSUME TypeOK, HistoryInv, [Next]_vars
             PROVE  \A d \in Devices : Past(telemetry', d, shown'[d])
  BY DEF ShownPast
<1> DEFINE Goal == \A d \in Devices : Past(telemetry', d, shown'[d])
<1>1. \A d \in Devices : Past(telemetry', d, shown[d])
  BY TelemetryGrows, PastGrows DEF HistoryInv, ShownPast
<1>2. ASSUME NEW e, NEW state, Past(telemetry', e, state), DeviceStateUpdated(e, state) PROVE Goal
  <2> SUFFICES ASSUME NEW d \in Devices PROVE Past(telemetry', d, shown'[d])
    OBVIOUS
  <2>1. shown'[d] = shown[d] \/ (d = e /\ shown'[d] = state)
    BY <1>2 DEF DeviceStateUpdated, Lost, notifierVars, TypeOK, NotifierTypeOK
  <2> QED
    BY <1>1, <1>2, <2>1
<1> HIDE DEF Goal
<1>3. ASSUME UNCHANGED shown PROVE Goal
  BY <1>1, <1>3 DEF Goal
<1>4. ASSUME NEW r \in Requests, Ingest(r) \/ AbortIngest(r) PROVE Goal
  <2>1. CASE PublishState(r)
    <3>1. Past(telemetry', ingest[r].device, ingest[r].notification)
      BY <2>1, TelemetryGrows, PastGrows DEF PublishState, HistoryInv, IngestPast
    <3> QED
      BY <1>2, <2>1, <3>1 DEF PublishState
  <2> QED
    BY <1>3, <1>4, <2>1 DEF Ingest, LoadDevice, LoadRules, LoadActiveAlerts, RequireDevice,
       SaveChanges, CacheWrite, CacheRead, RebuildState, PublishStatus, PublishAlerts, AbortIngest,
       notifierVars, DeviceStatusChanged, AlertEvents, Lost
<1>5. ASSUME NEW g \in Readers, Read(g) \/ AbortReader(g) PROVE Goal
  BY <1>3, <1>5 DEF Read, GetState, ReadCachedState, ReadHistory, WriteRebuiltState, AbortReader,
     notifierVars
<1>6. ASSUME MonitorStep PROVE Goal
  <2>1. CASE PublishOfflineState
    <3>1. Past(telemetry', monitor.device, monitor.state)
      BY <2>1, TelemetryGrows, PastGrows DEF PublishOfflineState, HistoryInv, MonitorPast
    <3> QED
      BY <1>2, <2>1, <3>1 DEF PublishOfflineState
  <2> QED
    BY <1>3, <1>6, <2>1 DEF MonitorStep, MonitorPass, FindStaleDevices, CommitOffline, NextDevice,
       ReadState, ReadHistoryForState, WriteState, PublishOffline, AbortPass, Tick,
       notifierVars, DeviceStatusChanged, Lost
<1>7. ASSUME AdminStep \/ ExpiryStep \/ UNCHANGED vars PROVE Goal
  BY <1>3, <1>7 DEF AdminStep, ExpiryStep, vars, notifierVars
<1> QED
  BY <1>4, <1>5, <1>6, <1>7 DEF Next, ServiceStep, Goal

(* What the requests hold.                                                 *)
LEMMA IngestNext == TypeOK /\ HistoryInv /\ [Next]_vars => IngestPast'
<1> SUFFICES ASSUME TypeOK, HistoryInv, [Next]_vars, NEW r \in Requests
             PROVE  /\ Seen(telemetry', ingest'[r].device, ingest'[r].loaded.lastSeenAt)
                    /\ ingest'[r].pc \in Committed =>
                         Past(telemetry', ingest'[r].device, StateToCache(r)')
                    /\ ingest'[r].pc = "publishState" =>
                         Past(telemetry', ingest'[r].device, ingest'[r].notification)
  BY DEF IngestPast
<1> DEFINE d == ingest[r].device
           Goal == /\ Seen(telemetry', ingest'[r].device, ingest'[r].loaded.lastSeenAt)
                   /\ ingest'[r].pc \in Committed =>
                        Past(telemetry', ingest'[r].device, StateToCache(r)')
                   /\ ingest'[r].pc = "publishState" =>
                        Past(telemetry', ingest'[r].device, ingest'[r].notification)
<1>1. Seen(telemetry', d, ingest[r].loaded.lastSeenAt)
  BY TelemetryGrows, SeenGrows DEF HistoryInv, IngestPast
<1>2. ingest \in [Requests -> IngestState] /\ ingest[r] \in IngestState
  BY DEF TypeOK, ServiceTypeOK
<1>3. ingest[r].pc \in Committed => Past(telemetry', d, StateToCache(r))
  BY TelemetryGrows, PastGrows DEF HistoryInv, IngestPast
<1>4. ASSUME ingest'[r].loaded = ingest[r].loaded PROVE StateToCache(r)' = StateToCache(r)
  BY <1>4 DEF StateToCache, Entity
<1>5. ASSUME NEW pc \in IngestSteps, Goto(r, pc), pc # "publishState",
             pc \in Committed => Past(telemetry', d, StateToCache(r))
      PROVE  Goal
  <2>1. /\ ingest'[r].pc = pc
        /\ ingest'[r].device = d
        /\ ingest'[r].loaded = ingest[r].loaded
    BY <1>2, <1>5 DEF Goto, IngestState
  <2> HIDE DEF d
  <2> QED
    BY <1>1, <1>4, <1>5, <2>1
<1>6. ASSUME NEW outcome \in {"new"} \cup Ended, ingest'[r] = AtPc(outcome) PROVE Goal
  <2>1. ingest'[r].pc = outcome /\ ingest'[r].loaded.lastSeenAt = NoTime
    BY <1>6 DEF AtPc, NewDevice
  <2>2. outcome \notin Committed /\ outcome # "publishState"
    BY DEF Committed, Ended
  <2> QED
    BY <2>1, <2>2 DEF Seen
<1>7. ASSUME NEW outcome \in Ended, End(r, outcome) PROVE Goal
  <2>1. ingest'[r] = AtPc(outcome)
    BY <1>2, <1>7 DEF End
  <2> QED
    BY <1>6, <2>1
<1>8. ASSUME NEW state, Notify(r, state), Past(telemetry', d, state) PROVE Goal
  <2>1. /\ ingest'[r].pc = "publishState"
        /\ ingest'[r].device = d
        /\ ingest'[r].loaded = ingest[r].loaded
        /\ ingest'[r].notification = state
    BY <1>2, <1>8 DEF Notify, IngestState
  <2>2. "publishState" \notin Committed
    BY DEF Committed
  <2> HIDE DEF d
  <2> QED
    BY <1>1, <1>8, <2>1, <2>2
<1>9. ASSUME ingest'[r] = ingest[r] PROVE Goal
  <2>1. ingest[r].pc = "publishState" => Past(telemetry', d, ingest[r].notification)
    BY TelemetryGrows, PastGrows DEF HistoryInv, IngestPast
  <2> QED
    BY <1>1, <1>3, <1>4, <1>9, <2>1
<1> HIDE DEF Goal
<1>10. ASSUME Ingest(r) PROVE Goal
  <2>1. CASE LoadDevice(r)
    <3>1. CASE End(r, "refused")
      BY <1>7, <3>1 DEF Ended
    <3>2. ASSUME NEW e \in GetByKey(Command[r].key),
                 ingest' = [ingest EXCEPT ![r].pc = "loadRules", ![r].device = e,
                                          ![r].loaded = devices[e]]
          PROVE  Goal
      <4>1. /\ ingest'[r].pc = "loadRules"
            /\ ingest'[r].device = e
            /\ ingest'[r].loaded = devices[e]
        BY <1>2, <3>2 DEF IngestState
      <4>2. e \in Devices
        BY DEF GetByKey
      <4>3. Seen(telemetry', e, devices[e].lastSeenAt)
        BY <4>2, TelemetryGrows, SeenGrows DEF HistoryInv, RowsSeen
      <4> QED
        BY <4>1, <4>3 DEF Goal, Committed
    <3> QED
      BY <2>1, <3>1, <3>2 DEF LoadDevice
  <2>2. CASE LoadRules(r) \/ LoadActiveAlerts(r)
    <3>1. CASE End(r, "failed")
      BY <1>7, <3>1 DEF Ended
    <3>2. CASE ~End(r, "failed")
      <4>1. /\ ingest'[r].pc \in {"loadActive", "requireDevice"}
            /\ ingest'[r].device = d
            /\ ingest'[r].loaded = ingest[r].loaded
        BY <1>2, <2>2, <3>2 DEF LoadRules, LoadActiveAlerts, IngestState
      <4> HIDE DEF d
      <4> QED
        BY <1>1, <4>1 DEF Goal, Committed
    <3> QED
      BY <3>1, <3>2
  <2>3. CASE RequireDevice(r)
    BY <1>5, <1>7, <2>3 DEF RequireDevice, IngestSteps, Committed, Ended
  <2>4. CASE SaveChanges(r)
    <3>1. CASE End(r, "failed")
      BY <1>7, <3>1 DEF Ended
    <3>2. CASE AddPoints(d, Command[r]) /\ Goto(r, "cacheWrite")
      <4>1. Past(telemetry', d, StateToCache(r))
        BY <3>2, BatchIsPast DEF HistoryInv, IngestPast
      <4> HIDE DEF d
      <4> QED
        BY <1>5, <3>2, <4>1 DEF IngestSteps
    <3> QED
      BY <2>4, <3>1, <3>2 DEF SaveChanges
  <2>5. CASE CacheWrite(r)
    <3>1. Past(telemetry', d, StateToCache(r))
      BY <1>3, <2>5 DEF CacheWrite, Committed
    <3> HIDE DEF d
    <3> QED
      BY <1>5, <2>5, <3>1 DEF CacheWrite, IngestSteps
  <2>6. CASE CacheRead(r)
    <3>1. Past(telemetry', d, StateToCache(r))
      BY <1>3, <2>6 DEF CacheRead, Committed
    <3>2. d \in Devices
      BY <1>2, <2>6 DEF CacheRead, IngestState, IngestSteps
    <3>3. Past(telemetry', d, redis[d])
      BY <3>2, TelemetryGrows, PastGrows DEF HistoryInv, CachePast
    <3> QED
      BY <1>5, <1>8, <2>6, <3>1, <3>3 DEF CacheRead, IngestSteps
  <2>7. CASE RebuildState(r)
    <3>1. Past(telemetry, d, StateToCache(r))
      BY <2>7 DEF RebuildState, HistoryInv, IngestPast, Committed
    <3>2. Seen(telemetry, d, Entity(r).lastSeenAt)
      BY <3>1 DEF Past, StateToCache, StateOf
    <3> HIDE DEF d
    <3>3. Past(telemetry, d, StateOf(Entity(r), LatestReadings(d)))
      BY <3>2, StateOfPast, LatestReadingsRecorded
    <3>4. Past(telemetry', d, StateOf(Entity(r), LatestReadings(d)))
      BY <3>3, TelemetryGrows, PastGrows
    <3> QED
      BY <1>8, <2>7, <3>4 DEF RebuildState, d
  <2>8. CASE PublishState(r) \/ PublishStatus(r)
    BY <1>5, <2>8 DEF PublishState, PublishStatus, IngestSteps, Committed
  <2>9. CASE PublishAlerts(r)
    BY <1>7, <2>9 DEF PublishAlerts, Ended
  <2> QED
    BY <1>10, <2>1, <2>2, <2>3, <2>4, <2>5, <2>6, <2>7, <2>8, <2>9 DEF Ingest
<1>11. ASSUME NEW s \in Requests, Ingest(s) \/ AbortIngest(s), s # r PROVE Goal
  <2>1. ingest'[r] = ingest[r]
    BY <1>2, <1>11 DEF Ingest, LoadDevice, LoadRules, LoadActiveAlerts, RequireDevice,
       SaveChanges, CacheWrite, CacheRead, RebuildState, PublishState, PublishStatus, PublishAlerts,
       AbortIngest, Goto, End, Notify
  <2> QED
    BY <1>9, <2>1
<1>12. ASSUME AbortIngest(r) PROVE Goal
  BY <1>7, <1>12 DEF AbortIngest, Ended
<1>13. ASSUME NEW g \in Readers, Read(g) \/ AbortReader(g) PROVE Goal
  BY <1>9, <1>13 DEF Read, GetState, ReadCachedState, ReadHistory, WriteRebuiltState, AbortReader
<1>14. ASSUME MonitorStep \/ AdminStep \/ ExpiryStep \/ UNCHANGED vars PROVE Goal
  BY <1>9, <1>14 DEF MonitorStep, AdminStep, ExpiryStep, vars, serviceVars
<1> QED
  BY <1>10, <1>11, <1>12, <1>13, <1>14 DEF Next, ServiceStep, Goal

(* What the state queries hold.                                            *)
LEMMA ReaderNext == TypeOK /\ HistoryInv /\ [Next]_vars => ReaderPast'
<1> SUFFICES ASSUME TypeOK, HistoryInv, [Next]_vars, NEW g \in Readers
             PROVE  /\ Seen(telemetry', reader'[g].device, reader'[g].loaded.lastSeenAt)
                    /\ reader'[g].pc = "cacheWrite" =>
                         Past(telemetry', reader'[g].device, reader'[g].state)
  BY DEF ReaderPast
<1> DEFINE Goal == /\ Seen(telemetry', reader'[g].device, reader'[g].loaded.lastSeenAt)
                   /\ reader'[g].pc = "cacheWrite" =>
                        Past(telemetry', reader'[g].device, reader'[g].state)
<1>1. Seen(telemetry', reader[g].device, reader[g].loaded.lastSeenAt)
  BY TelemetryGrows, SeenGrows DEF HistoryInv, ReaderPast
<1>2. reader \in [Readers -> ReaderState] /\ reader[g] \in ReaderState
  BY DEF TypeOK, ServiceTypeOK
<1>3. ASSUME reader'[g] = reader[g] PROVE Goal
  <2>1. reader[g].pc = "cacheWrite" => Past(telemetry', reader[g].device, reader[g].state)
    BY TelemetryGrows, PastGrows DEF HistoryInv, ReaderPast
  <2> QED
    BY <1>1, <1>3, <2>1
<1>4. ASSUME reader'[g] = IdleReader PROVE Goal
  BY <1>4 DEF IdleReader, NewDevice, Seen
<1> HIDE DEF Goal
<1>5. ASSUME Read(g) \/ AbortReader(g) PROVE Goal
  <2>1. ASSUME NEW d \in Devices, GetState(g, d) PROVE Goal
    <3>1. /\ reader'[g].pc = "cacheRead"
          /\ reader'[g].device = d
          /\ reader'[g].loaded = devices[d]
      BY <1>2, <2>1 DEF GetState, ReaderState
    <3>2. Seen(telemetry', d, devices[d].lastSeenAt)
      BY TelemetryGrows, SeenGrows DEF HistoryInv, RowsSeen
    <3> QED
      BY <3>1, <3>2 DEF Goal
  <2>2. CASE ReadCachedState(g)
    <3>1. CASE reader'[g] = IdleReader
      BY <1>4, <3>1
    <3>2. CASE reader'[g] # IdleReader
      <4>1. /\ reader'[g].pc = "rebuild"
            /\ reader'[g].device = reader[g].device
            /\ reader'[g].loaded = reader[g].loaded
        BY <1>2, <2>2, <3>2 DEF ReadCachedState, ReaderState
      <4> QED
        BY <1>1, <4>1 DEF Goal
    <3> QED
      BY <3>1, <3>2
  <2>3. CASE ReadHistory(g)
    <3> DEFINE rebuilt == StateOf(reader[g].loaded, LatestReadings(reader[g].device))
    <3>1. Past(telemetry', reader[g].device, rebuilt)
      <4>1. Past(telemetry, reader[g].device, rebuilt)
        BY StateOfPast, LatestReadingsRecorded DEF HistoryInv, ReaderPast
      <4> QED
        BY <4>1, TelemetryGrows, PastGrows
    <3> HIDE DEF rebuilt
    <3>2. CASE reader'[g] = IdleReader
      BY <1>4, <3>2
    <3>3. CASE reader'[g] = [reader[g] EXCEPT !.pc = "cacheWrite", !.state = rebuilt]
      <4>1. /\ reader'[g].device = reader[g].device
            /\ reader'[g].loaded = reader[g].loaded
            /\ reader'[g].state = rebuilt
        BY <1>2, <3>3 DEF ReaderState
      <4> QED
        BY <1>1, <3>1, <4>1 DEF Goal
    <3> QED
      BY <1>2, <2>3, <3>2, <3>3 DEF ReadHistory, rebuilt
  <2>4. CASE WriteRebuiltState(g) \/ AbortReader(g)
    BY <1>2, <1>4, <2>4 DEF WriteRebuiltState, AbortReader
  <2> QED
    BY <1>5, <2>1, <2>2, <2>3, <2>4 DEF Read
<1>6. ASSUME NEW h \in Readers, Read(h) \/ AbortReader(h), h # g PROVE Goal
  <2>1. reader'[g] = reader[g]
    BY <1>2, <1>6 DEF Read, GetState, ReadCachedState, ReadHistory, WriteRebuiltState, AbortReader
  <2> QED
    BY <1>3, <2>1
<1>7. ASSUME NEW r \in Requests, Ingest(r) \/ AbortIngest(r) PROVE Goal
  BY <1>3, <1>7 DEF Ingest, LoadDevice, LoadRules, LoadActiveAlerts, RequireDevice,
     SaveChanges, CacheWrite, CacheRead, RebuildState, PublishState, PublishStatus, PublishAlerts,
     AbortIngest
<1>8. ASSUME MonitorStep \/ AdminStep \/ ExpiryStep \/ UNCHANGED vars PROVE Goal
  BY <1>3, <1>8 DEF MonitorStep, AdminStep, ExpiryStep, vars, serviceVars
<1> QED
  BY <1>5, <1>6, <1>7, <1>8 DEF Next, ServiceStep, Goal

(* What the offline monitor holds.                                         *)
LEMMA MonitorNext == TypeOK /\ HistoryInv /\ [Next]_vars => MonitorPast'
<1> SUFFICES ASSUME TypeOK, HistoryInv, [Next]_vars PROVE MonitorPast'
  OBVIOUS
<1> DEFINE Holds == {"writeState", "publishStatus", "publishState"}
<1>1. monitor \in MonitorState
  BY DEF TypeOK, MonitorTypeOK
<1>2. \A d \in Devices : Seen(telemetry', d, monitor.loaded[d].lastSeenAt)
  BY TelemetryGrows, SeenGrows DEF HistoryInv, MonitorPast
<1>3. monitor.pc \in Holds => Past(telemetry', monitor.device, monitor.state)
  BY TelemetryGrows, PastGrows DEF HistoryInv, MonitorPast
<1>4. ASSUME monitor' = Waiting PROVE MonitorPast'
  BY <1>4 DEF MonitorPast, Waiting, NewDevice, Seen
<1>5. ASSUME monitor'.loaded = monitor.loaded,
             monitor'.pc \in Holds => Past(telemetry', monitor'.device, monitor'.state)
      PROVE  MonitorPast'
  BY <1>2, <1>5 DEF MonitorPast
<1>6. ASSUME UNCHANGED monitor PROVE MonitorPast'
  BY <1>3, <1>5, <1>6
<1>7. ASSUME MonitorStep PROVE MonitorPast'
  <2>1. CASE FindStaleDevices
    <3>1. \A d \in Devices : Seen(telemetry', d, devices[d].lastSeenAt)
      BY TelemetryGrows, SeenGrows DEF HistoryInv, RowsSeen
    <3>2. monitor'.loaded = devices /\ monitor'.pc = "commit"
      BY <1>1, <2>1 DEF FindStaleDevices, MonitorState
    <3> QED
      BY <3>1, <3>2 DEF MonitorPast
  <2>2. CASE CommitOffline \/ NextDevice
    <3>1. CASE monitor' = Waiting
      BY <1>4, <3>1
    <3>2. CASE monitor' # Waiting
      <4>1. monitor'.loaded = monitor.loaded /\ monitor'.pc \in {"nextDevice", "readState"}
        BY <1>1, <2>2, <3>2 DEF CommitOffline, NextDevice, MonitorState
      <4> QED
        BY <1>5, <4>1
    <3> QED
      BY <3>1, <3>2
  <2>3. ASSUME monitor.device \in Devices,
               NEW metrics, \A m \in Metrics : Recorded(telemetry, monitor.device, m, metrics[m]),
               monitor' = [monitor EXCEPT !.pc = "writeState", !.state = OfflineState(metrics)]
        PROVE  MonitorPast'
    <3> DEFINE loaded == monitor.loaded[monitor.device]
    <3>1. loaded \in DeviceRow /\ Seen(telemetry, monitor.device, loaded.lastSeenAt)
      BY <1>1, <2>3 DEF MonitorState, HistoryInv, MonitorPast
    <3>2. Seen(telemetry, monitor.device, MarkOffline(loaded).lastSeenAt)
      BY <3>1, MarkOfflineSeen
    <3>3. Past(telemetry, monitor.device, OfflineState(metrics))
      BY <2>3, <3>2, StateOfPast DEF OfflineState
    <3>4. Past(telemetry', monitor.device, OfflineState(metrics))
      BY <3>3, TelemetryGrows, PastGrows
    <3>5. /\ monitor'.loaded = monitor.loaded
          /\ monitor'.device = monitor.device
          /\ monitor'.state = OfflineState(metrics)
      BY <1>1, <2>3 DEF MonitorState
    <3> QED
      BY <1>5, <3>4, <3>5
  <2>4. CASE ReadState
    <3>1. monitor.device \in Devices
      BY <1>1, <2>4 DEF ReadState, MonitorState, MonitorSteps
    <3>2. \A m \in Metrics : Recorded(telemetry, monitor.device, m, redis[monitor.device].metrics[m])
      BY <3>1 DEF HistoryInv, CachePast, Past
    <3>3. CASE monitor' = [monitor EXCEPT !.pc = "readHistory"]
      <4>1. monitor'.loaded = monitor.loaded /\ monitor'.pc = "readHistory"
        BY <1>1, <3>3 DEF MonitorState
      <4> QED
        BY <1>5, <4>1
    <3> QED
      BY <2>3, <2>4, <3>1, <3>2, <3>3 DEF ReadState
  <2>5. CASE ReadHistoryForState
    <3>1. monitor.device \in Devices
      BY <1>1, <2>5 DEF ReadHistoryForState, MonitorState, MonitorSteps
    <3> QED
      BY <2>3, <2>5, <3>1, LatestReadingsRecorded DEF ReadHistoryForState
  <2>6. CASE WriteState \/ PublishOffline
    <3>1. /\ monitor'.loaded = monitor.loaded
          /\ monitor'.device = monitor.device
          /\ monitor'.state = monitor.state
          /\ monitor.pc \in Holds
      BY <1>1, <2>6 DEF WriteState, PublishOffline, MonitorState
    <3> QED
      BY <1>3, <1>5, <3>1
  <2>7. CASE PublishOfflineState
    <3>1. monitor'.loaded = monitor.loaded /\ monitor'.pc = "nextDevice"
      BY <1>1, <2>7 DEF PublishOfflineState, MonitorState
    <3> QED
      BY <1>5, <3>1
  <2> QED
    BY <1>4, <1>6, <1>7, <2>1, <2>2, <2>4, <2>5, <2>6, <2>7
    DEF MonitorStep, MonitorPass, AbortPass, Tick
<1>8. ASSUME ServiceStep \/ AdminStep \/ ExpiryStep \/ UNCHANGED vars PROVE MonitorPast'
  BY <1>6, <1>8 DEF ServiceStep, AdminStep, ExpiryStep, vars, monitorVars
<1> QED
  BY <1>7, <1>8 DEF Next

(* What an edit of a device is about to save.                              *)
LEMMA AdminNext == TypeOK /\ HistoryInv /\ [Next]_vars => AdminPast'
<1> SUFFICES ASSUME TypeOK, HistoryInv, [Next]_vars, NEW a \in Admins, admin'[a].pc = "saveDevice"
             PROVE  Seen(telemetry', admin'[a].device, admin'[a].edited.lastSeenAt)
  BY DEF AdminPast
<1> DEFINE Goal == Seen(telemetry', admin'[a].device, admin'[a].edited.lastSeenAt)
<1>1. admin \in [Admins -> AdminState] /\ admin[a] \in AdminState
  BY DEF TypeOK, AdminTypeOK
<1>2. ASSUME admin'[a] = admin[a] PROVE Goal
  BY <1>2, TelemetryGrows, SeenGrows DEF HistoryInv, AdminPast
<1> HIDE DEF Goal
<1>3. ASSUME Administer(a) \/ AbortAdmin(a) PROVE Goal
  <2>1. ASSUME NEW d \in Devices, NEW isEnabled \in BOOLEAN, EditDevice(a, d, isEnabled) PROVE Goal
    <3>1. admin'[a].device = d /\ admin'[a].edited = UpdateDetails(devices[d], isEnabled)
      BY <1>1, <2>1 DEF EditDevice, AdminState
    <3>2. devices[d] \in DeviceRow
      BY DEF TypeOK, DatabaseTypeOK
    <3>3. UpdateDetails(devices[d], isEnabled).lastSeenAt = devices[d].lastSeenAt
      BY <3>2 DEF UpdateDetails, DeviceRow
    <3>4. Seen(telemetry', d, devices[d].lastSeenAt)
      BY TelemetryGrows, SeenGrows DEF HistoryInv, RowsSeen
    <3> QED
      BY <3>1, <3>3, <3>4 DEF Goal
  <2>2. CASE Done(a)
    BY <1>1, <2>2 DEF Done, Idle
  <2>3. ASSUME NEW d \in Devices, RegisterDevice(a, d) \/ DeleteDevice(a, d) PROVE Goal
    BY <1>1, <2>3 DEF RegisterDevice, DeleteDevice, AdminState
  <2>4. ASSUME NEW q \in Rules, NEW form \in RuleForms, CreateRule(a, q, form) \/ EditRule(a, q, form)
        PROVE  Goal
    BY <1>1, <2>4 DEF CreateRule, EditRule, StartRule, AdminState
  <2>5. ASSUME NEW q \in Rules, DeleteRule(a, q) PROVE Goal
    BY <1>1, <2>5 DEF DeleteRule, AdminState
  <2>6. CASE CheckHistory(a) \/ DeleteLoadedDevice(a) \/ CheckDevice(a)
    BY <1>1, <2>2, <2>6 DEF CheckHistory, DeleteLoadedDevice, CheckDevice, AdminState
  <2> QED
    BY <1>3, <2>1, <2>2, <2>3, <2>4, <2>5, <2>6 DEF Administer, AdvanceAdmin, InsertDevice,
       SaveEditedDevice, RemoveKey, SaveEditedRule, DeleteLoadedRule, AbortAdmin, Goal
<1>4. ASSUME NEW b \in Admins, Administer(b) \/ AbortAdmin(b), b # a PROVE Goal
  <2>1. admin'[a] = admin[a]
    BY <1>1, <1>4 DEF Administer, AdvanceAdmin, RegisterDevice, DeleteDevice, EditDevice,
       InsertDevice, SaveEditedDevice, CheckHistory, DeleteLoadedDevice, RemoveKey, CreateRule,
       EditRule, StartRule, CheckDevice, SaveEditedRule, DeleteRule, DeleteLoadedRule, AbortAdmin, Done
  <2> QED
    BY <1>2, <2>1
<1>5. ASSUME ServiceStep \/ MonitorStep \/ ExpiryStep \/ UNCHANGED vars PROVE Goal
  BY <1>2, <1>5 DEF ServiceStep, MonitorStep, ExpiryStep, vars
<1> QED
  BY <1>3, <1>4, <1>5 DEF Next, AdminStep, Goal

-----------------------------------------------------------------------------
LEMMA HistoryInit == Init => HistoryInv
<1> SUFFICES ASSUME Init PROVE HistoryInv
  OBVIOUS
<1>1. \A d \in Devices : devices[d].lastSeenAt = NoTime
  BY DEF Init, DatabaseInit, NewDevice
<1>2. IngestPast
  BY DEF Init, ServiceInit, AtPc, NewDevice, Seen, IngestPast, Committed
<1>3. ReaderPast
  BY DEF Init, ServiceInit, IdleReader, NewDevice, Seen, ReaderPast
<1>4. MonitorPast
  BY DEF Init, MonitorInit, Waiting, NewDevice, Seen, MonitorPast
<1>5. AdminPast
  BY DEF Init, AdminInit, Idle, AdminPast
<1>6. CachePast /\ ShownPast
  BY NoStatePast DEF Init, NotifierInit, CachePast, ShownPast
<1> QED
  BY <1>1, <1>2, <1>3, <1>4, <1>5, <1>6 DEF HistoryInv, RowsSeen, Seen

LEMMA HistoryNext == TypeOK /\ HistoryInv /\ [Next]_vars => HistoryInv'
BY RowsNext, IngestNext, ReaderNext, MonitorNext, AdminNext, CacheNext, ShownNext DEF HistoryInv

LEMMA HistoryInvImplies == HistoryInv => StatesComeFromHistory
BY DEF HistoryInv, CachePast, ShownPast, Past, Seen, Recorded, StatesComeFromHistory,
   StateIsHistory, IsHistory

LEMMA HistoryHolds == Spec => [](TypeOK /\ HistoryInv)
<1>1. Init => TypeOK /\ HistoryInv
  BY TypeInit, HistoryInit
<1>2. TypeOK /\ HistoryInv /\ [Next]_vars => (TypeOK /\ HistoryInv)'
  BY TypeNext, HistoryNext
<1> QED
  BY <1>1, <1>2, PTL DEF Spec

(* Every reading and LastSeenAt in Redis or on a dashboard is that of a    *)
(* committed point of the same device, for any number of requests, state   *)
(* queries, passes and edits that overlap, and with every failure.         *)
THEOREM HistoryIsShown == Spec => []StatesComeFromHistory
BY HistoryHolds, HistoryInvImplies, PTL

-----------------------------------------------------------------------------
(* The refinement of CurrentState.                                         *)

LEMMA CurrentInit == Init => Current!Init
BY DEF Init, DatabaseInit, Current!Init, AcceptedReading, NoState, NoReading,
   Current!NoState, Current!NoReading, NoTime, Current!NoTime

(* A commit accepts readings of one device and one timestamp.              *)
LEMMA CommitAccepts ==
  ASSUME TypeOK, NEW r \in Requests, SaveChanges(r), AddPoints(ingest[r].device, Command[r])
  PROVE  Current!Accept
<1> DEFINE accepted == {AcceptedReading(p) : p \in telemetry}
<1>1. accepted \subseteq accepted'
  BY PointsAdded
<1>2. ASSUME NEW x \in accepted' \ accepted
      PROVE  x.device = ingest[r].device /\ x.timestamp = Command[r].timestamp
  <2>1. PICK p \in telemetry' : x = AcceptedReading(p) /\ p \notin telemetry
    BY <1>2
  <2>2. p.device = ingest[r].device /\ p.timestamp = Command[r].timestamp
    BY <2>1 DEF AddPoints
  <2> QED
    BY <2>1, <2>2 DEF AcceptedReading
<1>3. UNCHANGED redis
  BY DEF SaveChanges
<1> QED
  BY <1>1, <1>2, <1>3 DEF Current!Accept

(* Every other step leaves the telemetry alone, and the cache moves        *)
(* forward to what was accepted.                                           *)
LEMMA CacheRefreshes ==
  ASSUME TypeOK, CachePast', CacheStep, UNCHANGED telemetry
  PROVE  [Current!Next]_(Current!currentStateVars)
<1>1. redis \in [Devices -> DeviceState]
  BY DEF TypeOK, StoreTypeOK
<1>2. ASSUME NEW d \in Devices, RemoveAsync(d) PROVE Current!Forget(d)
  BY <1>2 DEF RemoveAsync, Current!Forget, NoState, NoReading, Current!NoState,
     Current!NoReading, NoTime, Current!NoTime
<1>3. ASSUME NEW d \in Devices, NEW state \in DeviceState, SetAsync(d, state)
      PROVE  Current!Refresh(d)
  <2>1. redis' = [redis EXCEPT ![d] = redis'[d]] /\ redis'[d] = UpdateScript(redis[d], state)
    BY <1>1, <1>3 DEF SetAsync
  <2>2. Current!Advances(d, redis'[d])
    BY <1>1, <2>1, UpdateScriptAdvances DEF Current!Advances
  <2>3. Past(telemetry, d, redis'[d])
    BY DEF CachePast
  <2>4. Current!IsAccepted(d, redis'[d])
    <3> DEFINE new == redis'[d]
    <3>1. \A p \in telemetry : AcceptedReading(p) \in {AcceptedReading(q) : q \in telemetry}
      OBVIOUS
    <3>2. \A p \in telemetry : AcceptedReading(p).device = p.device
                             /\ AcceptedReading(p).timestamp = p.timestamp
      BY DEF AcceptedReading
    <3>3. new.lastSeenAt = NoTime \/ \E x \in {AcceptedReading(p) : p \in telemetry} :
                                       x.device = d /\ x.timestamp = new.lastSeenAt
      BY <2>3, <3>1, <3>2 DEF Past, Seen
    <3>4. ASSUME NEW m \in Metrics, new.metrics[m] # NoReading
          PROVE  Current!Known(d, m, new.metrics[m])
      <4>1. PICK p \in telemetry : /\ p.device = d
                                   /\ p.metric = m
                                   /\ p.value = new.metrics[m].value
                                   /\ p.timestamp = new.metrics[m].timestamp
        BY <2>3, <3>4 DEF Past, Recorded
      <4>2. AcceptedReading(p) = [device |-> d, metric |-> m, value |-> new.metrics[m].value,
                                  timestamp |-> new.metrics[m].timestamp]
        BY <4>1 DEF AcceptedReading
      <4> QED
        BY <3>1, <4>2 DEF Current!Known
    <3> HIDE DEF new
    <3>5. Current!IsAccepted(d, new)
      BY <3>3, <3>4 DEF Current!IsAccepted, NoReading, Current!NoReading, NoTime, Current!NoTime
    <3> QED
      BY <3>5 DEF new
  <2> QED
    BY <2>1, <2>2, <2>4 DEF Current!Refresh
<1>4. CASE UNCHANGED redis
  BY <1>4 DEF Current!currentStateVars
<1> QED
  BY <1>2, <1>3, <1>4 DEF CacheStep, Current!Next

(* Redis is a current state of the committed telemetry, whatever fails,    *)
(* expires, overlaps or is written late: the system implements             *)
(* CurrentState.                                                           *)
THEOREM CacheIsCurrentState == Spec => ImplementsCurrentState
<1>1. TypeOK /\ HistoryInv' /\ [Next]_vars => [Current!Next]_(Current!currentStateVars)
  <2> SUFFICES ASSUME TypeOK, HistoryInv', [Next]_vars
               PROVE  [Current!Next]_(Current!currentStateVars)
    OBVIOUS
  <2>1. CASE UNCHANGED telemetry
    BY <2>1, CacheSteps, CacheRefreshes DEF HistoryInv
  <2>2. ASSUME NEW r \in Requests, SaveChanges(r), AddPoints(ingest[r].device, Command[r])
        PROVE  Current!Next
    BY <2>2, CommitAccepts DEF Current!Next
  <2> QED
    BY <2>1, <2>2, TelemetrySteps DEF TelemetryStep
<1> QED
  BY <1>1, CurrentInit, HistoryHolds, PTL DEF Spec, ImplementsCurrentState, Current!Spec
=============================================================================

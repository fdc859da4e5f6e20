----------------------------- MODULE TypeProofs -----------------------------
(***************************************************************************)
(* Type correctness of the system: the types of what the operators of the  *)
(* model compute, and the type invariant of the specification.             *)
(***************************************************************************)
EXTENDS MetricsHub, WellFoundedInduction, TLAPS

(* A non-empty set of positions of a sequence has a last one.              *)
LEMMA LastPosition ==
  ASSUME NEW S, NEW n \in Nat, S \subseteq 1..n, S # {}
  PROVE  \E i \in S : \A j \in S : j <= i
<1> DEFINE T == {n - i : i \in S}
<1>1. T \in SUBSET Nat /\ T # {}
  <2>1. \A i \in S : n - i \in Nat
    BY DEF T
  <2> QED
    BY <2>1
<1>2. \E x \in T : \A y \in T : ~(<<y, x>> \in OpToRel(<, Nat))
  <2> HIDE DEF T
  <2> QED
    BY <1>1, NatLessThanWellFounded, WFMin
<1>3. PICK x \in T : \A y \in T : ~(y < x)
  BY <1>1, <1>2 DEF OpToRel
<1>4. PICK i \in S : x = n - i
  BY <1>3
<1>5. ASSUME NEW j \in S PROVE j <= i
  <2>1. n - j \in T
    OBVIOUS
  <2>2. ~(n - j < n - i)
    BY <1>3, <1>4, <2>1
  <2>3. i \in Nat /\ j \in Nat
    OBVIOUS
  <2> QED
    BY <2>2, <2>3
<1> QED
  BY <1>5

(* The initial hash is a device state.                                     *)
LEMMA NoStateType == NoState \in DeviceState
BY DEF NoState, NoReading, DeviceState, Reading, OptionalTime, Time, NoTime

(* UpdateScript maps device states to device states.                       *)
LEMMA UpdateScriptType ==
  ASSUME NEW hash \in DeviceState, NEW state \in DeviceState
  PROVE  UpdateScript(hash, state) \in DeviceState
<1>1. hash.status \in DeviceStatus \cup {"None"} /\ state.status \in DeviceStatus \cup {"None"}
  BY DEF DeviceState
<1>2. hash.lastSeenAt \in OptionalTime /\ state.lastSeenAt \in OptionalTime
  BY DEF DeviceState
<1>3. ASSUME NEW m \in Metrics
      PROVE  MergeReading(hash.metrics[m], state.metrics[m]) \in Reading
  BY DEF MergeReading, DeviceState
<1> QED
  BY <1>1, <1>2, <1>3 DEF UpdateScript, DeviceState

(* RecordTelemetry and MarkOffline map device rows to device rows.         *)
LEMMA RecordTelemetryType ==
  ASSUME NEW device \in DeviceRow, NEW timestamp \in Time
  PROVE  RecordTelemetry(device, timestamp) \in DeviceRow
BY DEF RecordTelemetry, DeviceRow, DeviceStatus, OptionalTime, Time

LEMMA MarkOfflineType ==
  ASSUME NEW device \in DeviceRow
  PROVE  MarkOffline(device) \in DeviceRow
BY DEF MarkOffline, DeviceRow, DeviceStatus

LEMMA ElementType ==
  ASSUME NEW X, NEW s \in Seq(X), NEW k \in DOMAIN s
  PROVE  s[k] \in X
OBVIOUS

(* The readings of a batch and those queried from MySQL have their types.  *)
LEMMA LastValueType ==
  ASSUME NEW r \in Requests, NEW m, Includes(Command[r], m)
  PROVE  LastValue(Command[r], m) \in Int
<1> DEFINE s == Command[r].metrics
           S == {i \in DOMAIN s : s[i].metric = m}
<1>1. s \in Seq([metric: Metrics, value: Int])
  BY DomainAssumption DEF IngestTelemetryCommand
<1>2. S \subseteq 1..Len(s) /\ S # {}
  BY <1>1 DEF Includes
<1>3. \E i \in S : \A j \in S : j <= i
  <2>1. Len(s) \in Nat
    BY <1>1
  <2> HIDE DEF S, s
  <2> QED
    BY <1>2, <2>1, LastPosition
<1>4. PICK i \in DOMAIN s : /\ s[i].metric = m
                           /\ \A j \in DOMAIN s : s[j].metric = m => j <= i
  BY <1>3
<1> DEFINE k == CHOOSE k \in DOMAIN s :
                  /\ s[k].metric = m
                  /\ \A j \in DOMAIN s : s[j].metric = m => j <= k
<1>5. k \in DOMAIN s
  BY <1>4
<1>6. s[k].value \in Int
  <2> HIDE DEF k, s
  <2>1. s[k] \in [metric: Metrics, value: Int]
    BY <1>1, <1>5, ElementType
  <2> QED
    BY <2>1
<1>7. LastValue(Command[r], m) = s[k].value
  BY DEF LastValue
<1> QED
  BY <1>6, <1>7

LEMMA BatchReadingsType ==
  ASSUME NEW r \in Requests
  PROVE  BatchReadings(Command[r]) \in [Metrics -> Reading]
<1>1. Command[r].timestamp \in Time
  BY DomainAssumption DEF IngestTelemetryCommand
<1>2. NoReading \in Reading
  BY DEF NoReading, Reading, OptionalTime, NoTime
<1>3. ASSUME NEW m \in Metrics, Includes(Command[r], m)
      PROVE  [value |-> LastValue(Command[r], m), timestamp |-> Command[r].timestamp] \in Reading
  BY <1>1, <1>3, LastValueType DEF Reading, OptionalTime
<1> QED
  BY <1>2, <1>3 DEF BatchReadings

LEMMA LatestReadingsType ==
  ASSUME DatabaseTypeOK, NEW d
  PROVE  LatestReadings(d) \in [Metrics -> Reading]
<1>1. ASSUME NEW m \in Metrics, \E p \in GetLatestByMetric(d) : p.metric = m
      PROVE  LET p == CHOOSE p \in GetLatestByMetric(d) : p.metric = m
             IN p.value \in Int /\ p.timestamp \in Time
  <2> DEFINE p == CHOOSE p \in GetLatestByMetric(d) : p.metric = m
  <2>1. p \in GetLatestByMetric(d)
    BY <1>1
  <2>2. p \in Point
    BY <2>1 DEF GetLatestByMetric, DatabaseTypeOK
  <2> QED
    BY <2>2 DEF Point
<1> QED
  BY <1>1 DEF LatestReadings, Reading, NoReading, OptionalTime, NoTime

LEMMA StateOfType ==
  ASSUME NEW device \in DeviceRow, NEW metrics \in [Metrics -> Reading]
  PROVE  StateOf(device, metrics) \in DeviceState
BY DEF StateOf, DeviceState, DeviceRow

(* A saved device row combines columns of device rows.                     *)
LEMMA SaveDeviceType ==
  ASSUME NEW current \in DeviceRow, NEW loaded \in DeviceRow, NEW entity \in DeviceRow
  PROVE  SaveDevice(current, loaded, entity) \in DeviceRow
BY DEF SaveDevice, Column, DeviceRow

LEMMA SaveRuleType ==
  ASSUME NEW current \in RuleRow, NEW loaded \in RuleRow, NEW entity \in RuleRow
  PROVE  SaveRule(current, loaded, entity) \in RuleRow
<1>1. ASSUME NEW T, NEW x \in T, NEW y, NEW z \in T
      PROVE  Column(x, y, z) \in T
  BY DEF Column
<1>2. /\ Column(current.isEnabled, loaded.isEnabled, entity.isEnabled) \in BOOLEAN
      /\ Column(current.device, loaded.device, entity.device) \in Devices \cup {NoDevice}
      /\ Column(current.metric, loaded.metric, entity.metric) \in Metrics
      /\ Column(current.operator, loaded.operator, entity.operator) \in Operators
      /\ Column(current.threshold, loaded.threshold, entity.threshold) \in Int
  BY <1>1 DEF RuleRow
<1> QED
  BY <1>2 DEF SaveRule, RuleRow

-----------------------------------------------------------------------------
(* The local state of a request and of a state query.                      *)

LEMMA AtPcType ==
  ASSUME NEW pc \in {"new"} \cup Ended
  PROVE  AtPc(pc) \in IngestState
<1>1. NewDevice \in DeviceRow
  BY DEF NewDevice, DeviceRow, Existence, DeviceStatus, OptionalTime, NoTime
<1>2. RulesAtStart \in [Rules -> RuleRow]
  BY DatabaseAssumption
<1> QED
  BY <1>1, <1>2, NoStateType DEF AtPc, IngestState, IngestSteps, Ended

LEMMA IngestFieldTypes ==
  ASSUME TypeOK, NEW r \in Requests
  PROVE  /\ ingest[r] \in IngestState
         /\ ingest[r].device \in Devices \cup {NoDevice}
         /\ ingest[r].loaded \in DeviceRow
         /\ ingest[r].rules \in [Rules -> RuleRow]
         /\ ingest[r].active \in SUBSET AlertId
         /\ ingest[r].notification \in DeviceState
         /\ Entity(r) \in DeviceRow
         /\ StateToCache(r) \in DeviceState
<1>1. ingest[r] \in IngestState
  BY DEF TypeOK, ServiceTypeOK
<1>2. /\ ingest[r].device \in Devices \cup {NoDevice}
      /\ ingest[r].loaded \in DeviceRow
      /\ ingest[r].rules \in [Rules -> RuleRow]
      /\ ingest[r].active \in SUBSET AlertId
      /\ ingest[r].notification \in DeviceState
  BY <1>1 DEF IngestState
<1>3. Command[r].timestamp \in Time
  BY DomainAssumption DEF IngestTelemetryCommand
<1>4. Entity(r) \in DeviceRow
  BY <1>2, <1>3, RecordTelemetryType DEF Entity
<1>5. StateToCache(r) \in DeviceState
  BY <1>4, BatchReadingsType, StateOfType DEF StateToCache
<1> QED
  BY <1>1, <1>2, <1>4, <1>5

(* Replacing the local state of one request keeps the type.                *)
LEMMA IngestUpdateType ==
  ASSUME TypeOK, NEW r \in Requests, NEW i \in IngestState,
         ingest' = [ingest EXCEPT ![r] = i]
  PROVE  ingest' \in [Requests -> IngestState]
BY DEF TypeOK, ServiceTypeOK

(* Moving a request on keeps its type.                                     *)
LEMMA GotoType ==
  ASSUME TypeOK, NEW r \in Requests, NEW pc \in IngestSteps,
         ingest[r].pc \in IngestSteps, Goto(r, pc)
  PROVE  ingest' \in [Requests -> IngestState]
BY DEF TypeOK, ServiceTypeOK, Goto, IngestState

LEMMA EndType ==
  ASSUME TypeOK, NEW r \in Requests, NEW outcome \in Ended, End(r, outcome)
  PROVE  ingest' \in [Requests -> IngestState]
BY AtPcType DEF TypeOK, ServiceTypeOK, End

LEMMA NotifyType ==
  ASSUME TypeOK, NEW r \in Requests, NEW state \in DeviceState,
         ingest[r].pc \in IngestSteps, Notify(r, state)
  PROVE  ingest' \in [Requests -> IngestState]
<1> DEFINE i == [ingest[r] EXCEPT !.pc = "publishState", !.notification = state]
<1>1. i \in IngestState
  BY IngestFieldTypes DEF IngestState, IngestSteps
<1>2. ingest' = [ingest EXCEPT ![r] = i]
  BY DEF Notify
<1> QED
  BY <1>1, <1>2, IngestUpdateType

(* Writing a state to the cache keeps the cache's type.                    *)
LEMMA SetAsyncType ==
  ASSUME StoreTypeOK, NEW d, NEW state \in DeviceState,
         SetAsync(d, state) \/ SetAsyncFails(d, state)
  PROVE  StoreTypeOK'
BY UpdateScriptType DEF StoreTypeOK, SetAsync, SetAsyncFails

-----------------------------------------------------------------------------
(* What a commit writes.                                                   *)

LEMMA AddPointsType ==
  ASSUME DatabaseTypeOK, NEW r \in Requests, NEW d \in Devices, AddPoints(d, Command[r])
  PROVE  telemetry' \in SUBSET Point /\ nextId' \in Nat
<1> DEFINE s == Command[r].metrics
           Entry == [metric: Metrics, value: Int]
<1>1. s \in Seq(Entry) /\ Command[r].timestamp \in Time
  BY DomainAssumption DEF IngestTelemetryCommand
<1>2. Len(s) \in Nat /\ DOMAIN s = 1..Len(s)
  BY <1>1
<1>3. ASSUME NEW i \in DOMAIN s
      PROVE  [id |-> nextId + i, device |-> d, metric |-> s[i].metric,
              value |-> s[i].value, timestamp |-> Command[r].timestamp] \in Point
  <2>1. s[i] \in Entry
    <3> HIDE DEF s, Entry
    <3> QED
      BY <1>1, ElementType
  <2>2. nextId + i \in Nat
    BY <1>2 DEF DatabaseTypeOK
  <2> QED
    BY <1>1, <2>1, <2>2 DEF Point
<1> QED
  BY <1>2, <1>3 DEF AddPoints, DatabaseTypeOK

LEMMA TransitionTypes ==
  ASSUME NEW r \in Requests
  PROVE  Raised(r) \subseteq Rules
BY DEF Raised, RulesToRaise, Violated, Evaluated, GetApplicableRules

LEMMA SaveAlertsType ==
  ASSUME DatabaseTypeOK, NEW r \in Requests, NEW d \in Devices,
         NEW raised \in SUBSET Rules, NEW resolved, SaveAlerts(r, d, raised, resolved)
  PROVE  alerts' \in SUBSET Alert
<1>1. ASSUME NEW a \in alerts
      PROVE  (IF a.id \in resolved THEN [a EXCEPT !.resolvedBy = r] ELSE a) \in Alert
  BY DEF DatabaseTypeOK, Alert
<1>2. ASSUME NEW q \in raised
      PROVE  [id |-> <<r, q>>, device |-> d, rule |-> q, resolvedBy |-> NoRequest] \in Alert
  BY DEF Alert, AlertId
<1> QED
  BY <1>1, <1>2 DEF SaveAlerts

-----------------------------------------------------------------------------
(* Steps of requests and state queries.                                    *)

LEMMA IngestStepType ==
  ASSUME TypeOK, NEW r \in Requests, Ingest(r) \/ AbortIngest(r),
         UNCHANGED <<monitorVars, admin>>
  PROVE  TypeOK'
<1>1. MonitorTypeOK' /\ AdminTypeOK'
  BY DEF TypeOK, monitorVars, MonitorTypeOK, AdminTypeOK
<1> USE IngestFieldTypes
<1>2. CASE LoadDevice(r)
  <2>1. ingest' \in [Requests -> IngestState]
    <3>1. CASE End(r, "refused")
      BY <3>1, EndType DEF Ended
    <3>2. ASSUME NEW d \in GetByKey(Command[r].key),
                 ingest' = [ingest EXCEPT ![r].pc = "loadRules", ![r].device = d,
                                          ![r].loaded = devices[d]]
          PROVE  ingest' \in [Requests -> IngestState]
      <4>1. d \in Devices /\ devices[d] \in DeviceRow
        BY DEF GetByKey, TypeOK, DatabaseTypeOK
      <4> DEFINE i == [ingest[r] EXCEPT !.pc = "loadRules", !.device = d,
                                        !.loaded = devices[d]]
      <4>2. i \in IngestState
        BY <4>1 DEF IngestState, IngestSteps
      <4>3. ingest' = [ingest EXCEPT ![r] = i]
        BY <3>2
      <4> QED
        BY <4>2, <4>3, IngestUpdateType
    <3> QED
      BY <1>2, <3>1, <3>2 DEF LoadDevice
  <2> QED
    BY <1>1, <1>2, <2>1 DEF LoadDevice, TypeOK, ServiceTypeOK, DatabaseTypeOK, dbVars,
       StoreTypeOK, NotifierTypeOK, notifierVars
<1>3. CASE LoadRules(r)
  <2>1. ingest' \in [Requests -> IngestState]
    <3> DEFINE i == [ingest[r] EXCEPT !.pc = "loadActive", !.rules = alertRules]
    <3>1. alertRules \in [Rules -> RuleRow]
      BY DEF TypeOK, DatabaseTypeOK
    <3>2. i \in IngestState
      BY <1>3, <3>1 DEF LoadRules, IngestState, IngestSteps
    <3>3. ingest' = [ingest EXCEPT ![r] = i]
      BY <1>3 DEF LoadRules
    <3> QED
      BY <3>2, <3>3, IngestUpdateType
  <2> QED
    BY <1>1, <1>3, <2>1 DEF LoadRules, TypeOK, ServiceTypeOK, DatabaseTypeOK, dbVars,
       StoreTypeOK, NotifierTypeOK, notifierVars
<1>4. CASE LoadActiveAlerts(r)
  <2> DEFINE found == GetActiveByRuleIds(ingest[r].device,
                        GetApplicableRules(ingest[r].rules, ingest[r].device))
  <2>1. {a.id : a \in found} \in SUBSET AlertId
    BY DEF GetActiveByRuleIds, TypeOK, DatabaseTypeOK, Alert
  <2>2. ingest' \in [Requests -> IngestState]
    <3>1. CASE End(r, "failed")
      BY <3>1, EndType DEF Ended
    <3>2. CASE ingest' = [ingest EXCEPT ![r].pc = "requireDevice",
                                        ![r].active = {a.id : a \in found}]
      <4> HIDE DEF found
      <4> DEFINE i == [ingest[r] EXCEPT !.pc = "requireDevice",
                                        !.active = {a.id : a \in found}]
      <4>1. i \in IngestState
        BY <1>4, <2>1 DEF LoadActiveAlerts, IngestState, IngestSteps
      <4>2. ingest' = [ingest EXCEPT ![r] = i]
        BY <3>2
      <4> QED
        BY <4>1, <4>2, IngestUpdateType
    <3> QED
      BY <1>4, <3>1, <3>2 DEF LoadActiveAlerts
  <2> QED
    BY <1>1, <1>4, <2>2 DEF LoadActiveAlerts, TypeOK, ServiceTypeOK, DatabaseTypeOK, dbVars,
       StoreTypeOK, NotifierTypeOK, notifierVars
<1>5. CASE RequireDevice(r)
  <2>1. ingest' \in [Requests -> IngestState]
    BY <1>5, GotoType, EndType DEF RequireDevice, IngestSteps, Ended
  <2> QED
    BY <1>1, <1>5, <2>1 DEF RequireDevice, TypeOK, ServiceTypeOK, DatabaseTypeOK, dbVars,
       StoreTypeOK, NotifierTypeOK, notifierVars
<1>6. CASE SaveChanges(r)
  <2>1. ingest' \in [Requests -> IngestState]
    BY <1>6, GotoType, EndType DEF SaveChanges, IngestSteps, Ended
  <2>2. DatabaseTypeOK'
    <3>1. CASE UNCHANGED <<devices, telemetry, nextId, alerts>>
      BY <1>6, <3>1 DEF SaveChanges, TypeOK, DatabaseTypeOK
    <3>2. CASE /\ Stored(ingest[r].device)
               /\ devices' = [devices EXCEPT ![ingest[r].device] =
                                 SaveDevice(@, ingest[r].loaded, Entity(r))]
               /\ AddPoints(ingest[r].device, Command[r])
               /\ SaveAlerts(r, ingest[r].device, Raised(r), Resolved(r))
      <4>1. ingest[r].device \in Devices
        BY <1>6 DEF SaveChanges, TypeOK, ServiceTypeOK, IngestState, IngestSteps
      <4>2. devices' \in [Devices -> DeviceRow]
        BY <3>2, SaveDeviceType DEF TypeOK, DatabaseTypeOK
      <4>3. telemetry' \in SUBSET Point /\ nextId' \in Nat
        BY <3>2, <4>1, AddPointsType DEF TypeOK
      <4>4. alerts' \in SUBSET Alert
        BY <3>2, <4>1, SaveAlertsType, TransitionTypes DEF TypeOK
      <4> QED
        BY <1>6, <4>2, <4>3, <4>4 DEF SaveChanges, TypeOK, DatabaseTypeOK
    <3> QED
      BY <1>6, <3>1, <3>2 DEF SaveChanges
  <2> QED
    BY <1>1, <1>6, <2>1, <2>2 DEF SaveChanges, TypeOK, ServiceTypeOK,
       StoreTypeOK, NotifierTypeOK, notifierVars
<1>7. CASE CacheWrite(r)
  <2>1. ingest' \in [Requests -> IngestState]
    BY <1>7, GotoType DEF CacheWrite, IngestSteps
  <2>2. StoreTypeOK'
    BY <1>7, SetAsyncType DEF CacheWrite, TypeOK
  <2> QED
    BY <1>1, <1>7, <2>1, <2>2 DEF CacheWrite, TypeOK, ServiceTypeOK, DatabaseTypeOK, dbVars,
       NotifierTypeOK, notifierVars
<1>8. CASE CacheRead(r)
  <2>1. ingest[r].pc \in IngestSteps
    BY <1>8 DEF CacheRead, IngestSteps
  <2>2. redis[ingest[r].device] \in DeviceState
    BY <2>1 DEF IngestState, TypeOK, StoreTypeOK
  <2>3. ingest' \in [Requests -> IngestState]
    BY <1>8, <2>1, <2>2, GotoType, NotifyType DEF CacheRead, IngestSteps
  <2> QED
    BY <1>1, <1>8, <2>3 DEF CacheRead, TypeOK, ServiceTypeOK, DatabaseTypeOK, dbVars,
       StoreTypeOK, NotifierTypeOK, notifierVars
<1>9. CASE RebuildState(r)
  <2>1. StateOf(Entity(r), LatestReadings(ingest[r].device)) \in DeviceState
    BY LatestReadingsType, StateOfType DEF TypeOK
  <2>2. ingest' \in [Requests -> IngestState]
    BY <1>9, <2>1, NotifyType DEF RebuildState, IngestSteps
  <2> QED
    BY <1>1, <1>9, <2>2 DEF RebuildState, TypeOK, ServiceTypeOK, DatabaseTypeOK, dbVars,
       StoreTypeOK, NotifierTypeOK, notifierVars
<1>10. CASE PublishState(r)
  <2>1. ingest' \in [Requests -> IngestState]
    BY <1>10, GotoType DEF PublishState, IngestSteps
  <2>2. NotifierTypeOK'
    BY <1>10 DEF PublishState, TypeOK, NotifierTypeOK, DeviceStateUpdated, Lost, notifierVars
  <2> QED
    BY <1>1, <1>10, <2>1, <2>2 DEF PublishState, TypeOK, ServiceTypeOK, DatabaseTypeOK, dbVars,
       StoreTypeOK
<1>11. CASE PublishStatus(r)
  <2>1. ingest' \in [Requests -> IngestState]
    BY <1>11, GotoType DEF PublishStatus, IngestSteps
  <2>2. Entity(r).status \in DeviceStatus
    BY DEF DeviceRow
  <2>3. NotifierTypeOK'
    BY <1>11, <2>2 DEF PublishStatus, TypeOK, NotifierTypeOK, DeviceStatusChanged, Lost, notifierVars
  <2> QED
    BY <1>1, <1>11, <2>1, <2>3 DEF PublishStatus, TypeOK, ServiceTypeOK, DatabaseTypeOK, dbVars,
       StoreTypeOK
<1>12. CASE PublishAlerts(r)
  <2>1. ingest' \in [Requests -> IngestState]
    BY <1>12, EndType DEF PublishAlerts, Ended
  <2>2. {<<r, q>> : q \in Raised(r)} \subseteq AlertId
    BY TransitionTypes DEF AlertId
  <2>3. NotifierTypeOK'
    BY <1>12, <2>2 DEF PublishAlerts, TypeOK, NotifierTypeOK, AlertEvents
  <2> QED
    BY <1>1, <1>12, <2>1, <2>3 DEF PublishAlerts, TypeOK, ServiceTypeOK, DatabaseTypeOK, dbVars,
       StoreTypeOK
<1>13. CASE AbortIngest(r)
  <2>1. ingest' \in [Requests -> IngestState]
    BY <1>13, EndType DEF AbortIngest, Ended
  <2> QED
    BY <1>1, <1>13, <2>1 DEF AbortIngest, TypeOK, ServiceTypeOK, DatabaseTypeOK, dbVars,
       StoreTypeOK, NotifierTypeOK, notifierVars
<1> QED
  BY <1>2, <1>3, <1>4, <1>5, <1>6, <1>7, <1>8, <1>9, <1>10, <1>11, <1>12, <1>13 DEF Ingest

LEMMA IdleReaderType == IdleReader \in ReaderState
<1>1. NewDevice \in DeviceRow
  BY DEF NewDevice, DeviceRow, Existence, DeviceStatus, OptionalTime, NoTime
<1> QED
  BY <1>1, NoStateType DEF IdleReader, ReaderState

LEMMA ReaderUpdateType ==
  ASSUME TypeOK, NEW g \in Readers, NEW i \in ReaderState,
         reader' = [reader EXCEPT ![g] = i]
  PROVE  reader' \in [Readers -> ReaderState]
BY DEF TypeOK, ServiceTypeOK

LEMMA ReaderStepType ==
  ASSUME TypeOK, NEW g \in Readers, Read(g) \/ AbortReader(g),
         UNCHANGED <<monitorVars, admin>>
  PROVE  TypeOK'
<1>1. MonitorTypeOK' /\ AdminTypeOK'
  BY DEF TypeOK, monitorVars, MonitorTypeOK, AdminTypeOK
<1>2. reader[g] \in ReaderState
  BY DEF TypeOK, ServiceTypeOK
<1>3. ASSUME NEW d \in Devices, GetState(g, d)
      PROVE  TypeOK'
  <2> DEFINE i == [reader[g] EXCEPT !.pc = "cacheRead", !.device = d, !.loaded = devices[d]]
  <2>1. i \in ReaderState
    BY <1>2 DEF ReaderState, TypeOK, DatabaseTypeOK
  <2>2. reader' = [reader EXCEPT ![g] = i]
    BY <1>3 DEF GetState
  <2>3. reader' \in [Readers -> ReaderState]
    BY <2>1, <2>2, ReaderUpdateType
  <2> QED
    BY <1>1, <1>3, <2>3 DEF GetState, TypeOK, ServiceTypeOK, DatabaseTypeOK, dbVars,
       StoreTypeOK, NotifierTypeOK, notifierVars
<1>4. CASE ReadCachedState(g)
  <2>1. [reader[g] EXCEPT !.pc = "rebuild"] \in ReaderState
    BY <1>2, <1>4 DEF ReadCachedState, ReaderState
  <2>2. [reader[g] EXCEPT !.pc = "rebuild", !.redisAvailable = FALSE] \in ReaderState
    BY <1>2, <1>4 DEF ReadCachedState, ReaderState
  <2>3. \E i \in ReaderState : reader' = [reader EXCEPT ![g] = i]
    BY <1>4, <2>1, <2>2, IdleReaderType DEF ReadCachedState
  <2>4. reader' \in [Readers -> ReaderState]
    BY <2>3, ReaderUpdateType
  <2> QED
    BY <1>1, <1>4, <2>4 DEF ReadCachedState, TypeOK, ServiceTypeOK, DatabaseTypeOK, dbVars,
       StoreTypeOK, NotifierTypeOK, notifierVars
<1>5. CASE ReadHistory(g)
  <2> DEFINE rebuilt == StateOf(reader[g].loaded, LatestReadings(reader[g].device))
  <2>1. rebuilt \in DeviceState
    BY <1>2, LatestReadingsType, StateOfType DEF ReaderState, TypeOK
  <2>2. [reader[g] EXCEPT !.pc = "cacheWrite", !.state = rebuilt] \in ReaderState
    <3> HIDE DEF rebuilt
    <3> QED
      BY <1>2, <1>5, <2>1 DEF ReadHistory, ReaderState
  <2>3. \E i \in ReaderState : reader' = [reader EXCEPT ![g] = i]
    BY <1>5, <2>2, IdleReaderType DEF ReadHistory
  <2>4. reader' \in [Readers -> ReaderState]
    BY <2>3, ReaderUpdateType
  <2> QED
    BY <1>1, <1>5, <2>4 DEF ReadHistory, TypeOK, ServiceTypeOK, DatabaseTypeOK, dbVars,
       StoreTypeOK, NotifierTypeOK, notifierVars
<1>6. CASE WriteRebuiltState(g)
  <2>1. reader' \in [Readers -> ReaderState]
    BY <1>6, ReaderUpdateType, IdleReaderType DEF WriteRebuiltState
  <2>2. reader[g].state \in DeviceState
    BY <1>2 DEF ReaderState
  <2>3. StoreTypeOK'
    BY <1>6, <2>2, SetAsyncType DEF WriteRebuiltState, TypeOK
  <2> QED
    BY <1>1, <1>6, <2>1, <2>3 DEF WriteRebuiltState, TypeOK, ServiceTypeOK, DatabaseTypeOK, dbVars,
       NotifierTypeOK, notifierVars
<1>7. CASE AbortReader(g)
  <2>1. reader' \in [Readers -> ReaderState]
    BY <1>7, ReaderUpdateType, IdleReaderType DEF AbortReader
  <2> QED
    BY <1>1, <1>7, <2>1 DEF AbortReader, TypeOK, ServiceTypeOK, DatabaseTypeOK, dbVars,
       StoreTypeOK, NotifierTypeOK, notifierVars
<1> QED
  BY <1>3, <1>4, <1>5, <1>6, <1>7 DEF Read

-----------------------------------------------------------------------------
(* Steps of the offline monitor and the clock.                             *)

LEMMA WaitingType == Waiting \in MonitorState
<1>1. NewDevice \in DeviceRow
  BY DEF NewDevice, DeviceRow, Existence, DeviceStatus, OptionalTime, NoTime
<1> QED
  BY <1>1, NoStateType DEF Waiting, MonitorState, MonitorSteps

LEMMA OfflineStateType ==
  ASSUME MonitorTypeOK, monitor.device \in Devices, NEW metrics \in [Metrics -> Reading]
  PROVE  OfflineState(metrics) \in DeviceState
<1>1. monitor.loaded[monitor.device] \in DeviceRow
  BY DEF MonitorTypeOK, MonitorState
<1> QED
  BY <1>1, MarkOfflineType, StateOfType DEF OfflineState

LEMMA MonitorStepType ==
  ASSUME TypeOK, MonitorPass \/ AbortPass \/ Tick, UNCHANGED <<serviceVars, admin>>
  PROVE  TypeOK'
<1>1. ServiceTypeOK' /\ AdminTypeOK'
  BY DEF TypeOK, ServiceTypeOK, serviceVars, AdminTypeOK
<1>2. /\ monitor \in MonitorState
      /\ clock \in Nat
      /\ monitor.loaded \in [Devices -> DeviceRow]
      /\ monitor.pending \in SUBSET Devices
  BY DEF TypeOK, MonitorTypeOK, MonitorState, Time
<1>3. CASE Tick
  BY <1>1, <1>2, <1>3 DEF Tick, TypeOK, MonitorTypeOK, Time, DatabaseTypeOK, dbVars,
     StoreTypeOK, NotifierTypeOK, notifierVars
<1>4. CASE FindStaleDevices
  <2>1. GetStaleOnlineDevices(clock - OfflineAfter) \in SUBSET Devices
    BY DEF GetStaleOnlineDevices
  <2>2. devices \in [Devices -> DeviceRow]
    BY DEF TypeOK, DatabaseTypeOK
  <2>3. monitor' \in MonitorState
    BY <1>2, <1>4, <2>1, <2>2 DEF FindStaleDevices, MonitorState, MonitorSteps
  <2> QED
    BY <1>1, <1>4, <2>3 DEF FindStaleDevices, TypeOK, MonitorTypeOK, DatabaseTypeOK, dbVars,
       StoreTypeOK, NotifierTypeOK, notifierVars
<1>5. CASE CommitOffline
  <2>1. ASSUME NEW d \in Devices
        PROVE  SaveDevice(devices[d], monitor.loaded[d], MarkOffline(monitor.loaded[d]))
                 \in DeviceRow
    BY <1>2, MarkOfflineType, SaveDeviceType DEF TypeOK, DatabaseTypeOK
  <2>2. devices' \in [Devices -> DeviceRow]
    BY <1>5, <2>1 DEF CommitOffline, TypeOK, DatabaseTypeOK
  <2>3. monitor' \in MonitorState
    BY <1>2, <1>5, WaitingType DEF CommitOffline, MonitorState, MonitorSteps
  <2> QED
    BY <1>1, <1>5, <2>2, <2>3 DEF CommitOffline, TypeOK, MonitorTypeOK, DatabaseTypeOK,
       StoreTypeOK, NotifierTypeOK, notifierVars
<1>6. CASE NextDevice
  <2>1. ASSUME NEW d \in monitor.pending
        PROVE  [monitor EXCEPT !.pc = "readState", !.device = d, !.pending = @ \ {d}]
                 \in MonitorState
    <3>1. d \in Devices
      BY <1>2 DEF MonitorState
    <3> QED
      BY <1>2, <3>1 DEF MonitorState, MonitorSteps
  <2>2. monitor' \in MonitorState
    BY <1>6, <2>1, WaitingType DEF NextDevice
  <2> QED
    BY <1>1, <1>6, <2>2 DEF NextDevice, TypeOK, MonitorTypeOK, DatabaseTypeOK, dbVars,
       StoreTypeOK, NotifierTypeOK, notifierVars
<1>7. CASE ReadState
  <2>1. monitor.device \in Devices
    BY <1>2, <1>7 DEF ReadState, MonitorState, MonitorSteps
  <2>2. OfflineState(redis[monitor.device].metrics) \in DeviceState
    BY <2>1, OfflineStateType DEF TypeOK, StoreTypeOK, DeviceState
  <2>3. monitor' \in MonitorState
    BY <1>2, <1>7, <2>1, <2>2 DEF ReadState, MonitorState, MonitorSteps
  <2> QED
    BY <1>1, <1>7, <2>3 DEF ReadState, TypeOK, MonitorTypeOK, DatabaseTypeOK, dbVars,
       StoreTypeOK, NotifierTypeOK, notifierVars
<1>8. CASE ReadHistoryForState
  <2>1. monitor.device \in Devices
    BY <1>2, <1>8 DEF ReadHistoryForState, MonitorState, MonitorSteps
  <2>2. OfflineState(LatestReadings(monitor.device)) \in DeviceState
    BY <2>1, OfflineStateType, LatestReadingsType DEF TypeOK
  <2>3. monitor' \in MonitorState
    BY <1>2, <1>8, <2>1, <2>2 DEF ReadHistoryForState, MonitorState, MonitorSteps
  <2> QED
    BY <1>1, <1>8, <2>3 DEF ReadHistoryForState, TypeOK, MonitorTypeOK, DatabaseTypeOK, dbVars,
       StoreTypeOK, NotifierTypeOK, notifierVars
<1>9. CASE WriteState
  <2>1. monitor.state \in DeviceState
    BY <1>2 DEF MonitorState
  <2>2. StoreTypeOK'
    BY <1>9, <2>1, SetAsyncType DEF WriteState, TypeOK
  <2>3. monitor' \in MonitorState
    BY <1>2, <1>9 DEF WriteState, MonitorState, MonitorSteps
  <2> QED
    BY <1>1, <1>9, <2>2, <2>3 DEF WriteState, TypeOK, MonitorTypeOK, DatabaseTypeOK, dbVars,
       NotifierTypeOK, notifierVars
<1>10. CASE PublishOffline
  <2>1. NotifierTypeOK'
    BY <1>10 DEF PublishOffline, TypeOK, NotifierTypeOK, DeviceStatusChanged, DeviceStatus,
       Lost, notifierVars
  <2>2. monitor' \in MonitorState
    BY <1>2, <1>10 DEF PublishOffline, MonitorState, MonitorSteps
  <2> QED
    BY <1>1, <1>10, <2>1, <2>2 DEF PublishOffline, TypeOK, MonitorTypeOK, DatabaseTypeOK, dbVars,
       StoreTypeOK
<1>11. CASE PublishOfflineState
  <2>1. monitor.state \in DeviceState
    BY <1>2 DEF MonitorState
  <2>2. NotifierTypeOK'
    BY <1>11, <2>1 DEF PublishOfflineState, TypeOK, NotifierTypeOK, DeviceStateUpdated,
       Lost, notifierVars
  <2>3. monitor' \in MonitorState
    BY <1>2, <1>11, NoStateType DEF PublishOfflineState, MonitorState, MonitorSteps
  <2> QED
    BY <1>1, <1>11, <2>2, <2>3 DEF PublishOfflineState, TypeOK, MonitorTypeOK, DatabaseTypeOK,
       dbVars, StoreTypeOK
<1>12. CASE AbortPass
  BY <1>1, <1>12, WaitingType DEF AbortPass, TypeOK, MonitorTypeOK, DatabaseTypeOK, dbVars,
     StoreTypeOK, NotifierTypeOK, notifierVars
<1> QED
  BY <1>3, <1>4, <1>5, <1>6, <1>7, <1>8, <1>9, <1>10, <1>11, <1>12 DEF MonitorPass

-----------------------------------------------------------------------------
(* Steps of the management endpoints.                                      *)

LEMMA IdleType == Idle \in AdminState
<1>1. NewDevice \in DeviceRow
  BY DEF NewDevice, DeviceRow, Existence, DeviceStatus, OptionalTime, NoTime
<1>2. RulesAtStart \in [Rules -> RuleRow]
  BY DatabaseAssumption
<1> QED
  BY <1>1, <1>2 DEF Idle, AdminState, DeviceSteps, RuleSteps

LEMMA DoneType ==
  ASSUME AdminTypeOK, NEW a \in Admins, Done(a)
  PROVE  AdminTypeOK'
BY IdleType DEF AdminTypeOK, Done

LEMMA AdminUpdateType ==
  ASSUME AdminTypeOK, NEW a \in Admins, NEW i \in AdminState,
         admin' = [admin EXCEPT ![a] = i]
  PROVE  AdminTypeOK'
BY DEF AdminTypeOK

LEMMA StartRuleType ==
  ASSUME TypeOK, NEW a \in Admins, NEW q \in Rules, NEW form \in RuleForms,
         StartRule(a, q, form)
  PROVE  AdminTypeOK'
<1>1. form \in RuleRow
  BY AdminAssumption
<1>2. [alertRules EXCEPT ![q] = form] \in [Rules -> RuleRow] /\ alertRules \in [Rules -> RuleRow]
  BY <1>1 DEF TypeOK, DatabaseTypeOK
<1> DEFINE i == [admin[a] EXCEPT
                   !.pc = IF form.device = NoDevice THEN "saveRule" ELSE "checkDevice",
                   !.rule = q, !.loadedRules = alertRules,
                   !.editedRules = [alertRules EXCEPT ![q] = form]]
<1>3. i \in AdminState
  <2> DEFINE rules == [alertRules EXCEPT ![q] = form]
             pc == IF form.device = NoDevice THEN "saveRule" ELSE "checkDevice"
  <2>1. admin[a] \in AdminState
    BY DEF TypeOK, AdminTypeOK
  <2>2. pc \in RuleSteps /\ pc \notin DeviceSteps
    BY DEF RuleSteps, DeviceSteps
  <2> HIDE DEF rules, pc
  <2>3. [admin[a] EXCEPT !.pc = pc, !.rule = q, !.loadedRules = alertRules,
                         !.editedRules = rules] \in AdminState
    BY <1>2, <2>1, <2>2 DEF AdminState, rules
  <2> QED
    BY <2>3 DEF rules, pc
<1>4. admin' = [admin EXCEPT ![a] = i]
  BY DEF StartRule
<1> QED
  BY <1>3, <1>4, AdminUpdateType DEF TypeOK

LEMMA SavedRuleType ==
  ASSUME TypeOK, NEW a \in Admins, SaveEditedRule(a)
  PROVE  alertRules' \in [Rules -> RuleRow]
<1> DEFINE q == admin[a].rule
           loaded == admin[a].loadedRules[q]
           edited == admin[a].editedRules[q]
           row == IF loaded.existence = "unused" THEN edited
                  ELSE SaveRule(alertRules[q], loaded, edited)
<1>1. q \in Rules
  BY DEF SaveEditedRule, TypeOK, AdminTypeOK, AdminState, DeviceSteps, RuleSteps
<1>2. loaded \in RuleRow /\ edited \in RuleRow /\ alertRules[q] \in RuleRow
  BY <1>1 DEF TypeOK, AdminTypeOK, AdminState, DatabaseTypeOK
<1>3. row \in RuleRow
  BY <1>2, SaveRuleType
<1>4. alertRules' = [alertRules EXCEPT ![q] = row] \/ alertRules' = alertRules
  BY DEF SaveEditedRule
<1> HIDE DEF row, q
<1> QED
  BY <1>1, <1>3, <1>4 DEF TypeOK, DatabaseTypeOK

LEMMA AdminStepType ==
  ASSUME TypeOK, NEW a \in Admins, Administer(a) \/ AbortAdmin(a),
         UNCHANGED <<notifierVars, serviceVars, monitorVars>>
  PROVE  TypeOK'
<1>1. NotifierTypeOK' /\ ServiceTypeOK' /\ MonitorTypeOK'
  BY DEF TypeOK, NotifierTypeOK, notifierVars, ServiceTypeOK, serviceVars,
     MonitorTypeOK, monitorVars
<1>2. admin[a] \in AdminState /\ devices \in [Devices -> DeviceRow]
  BY DEF TypeOK, AdminTypeOK, DatabaseTypeOK
<1>3. ASSUME NEW d \in Devices, RegisterDevice(a, d) \/ DeleteDevice(a, d)
      PROVE  TypeOK'
  <2>1. ASSUME NEW pc \in {"insertDevice", "checkHistory"}
        PROVE  [admin[a] EXCEPT !.pc = pc, !.device = d] \in AdminState
    <3>1. pc \in DeviceSteps /\ pc \notin RuleSteps
      BY DEF DeviceSteps, RuleSteps
    <3> QED
      BY <1>2, <3>1 DEF AdminState
  <2>2. \E i \in AdminState : admin' = [admin EXCEPT ![a] = i]
    <3>1. CASE RegisterDevice(a, d)
      <4>1. admin' = [admin EXCEPT ![a] =
                        [admin[a] EXCEPT !.pc = "insertDevice", !.device = d]]
        BY <3>1 DEF RegisterDevice
      <4> QED
        BY <2>1, <4>1
    <3>2. CASE DeleteDevice(a, d)
      <4>1. admin' = [admin EXCEPT ![a] =
                        [admin[a] EXCEPT !.pc = "checkHistory", !.device = d]]
        BY <3>2 DEF DeleteDevice
      <4> QED
        BY <2>1, <4>1
    <3> QED
      BY <1>3, <3>1, <3>2
  <2>3. AdminTypeOK'
    BY <2>2, AdminUpdateType DEF TypeOK
  <2> QED
    BY <1>1, <1>3, <2>3 DEF RegisterDevice, DeleteDevice, TypeOK, DatabaseTypeOK, dbVars, StoreTypeOK
<1>4. ASSUME NEW d \in Devices, NEW isEnabled \in BOOLEAN, EditDevice(a, d, isEnabled)
      PROVE  TypeOK'
  <2>1. UpdateDetails(devices[d], isEnabled) \in DeviceRow
    BY <1>2 DEF UpdateDetails, DeviceRow
  <2> DEFINE i == [admin[a] EXCEPT !.pc = "saveDevice", !.device = d, !.loaded = devices[d],
                                   !.edited = UpdateDetails(devices[d], isEnabled)]
  <2>2. i \in AdminState
    BY <1>2, <2>1 DEF AdminState, DeviceSteps, RuleSteps
  <2>3. AdminTypeOK'
    <3>1. admin' = [admin EXCEPT ![a] = i]
      BY <1>4 DEF EditDevice
    <3> HIDE DEF i
    <3> QED
      BY <2>2, <3>1, AdminUpdateType DEF TypeOK
  <2> QED
    BY <1>1, <1>4, <2>3 DEF EditDevice, TypeOK, DatabaseTypeOK, dbVars, StoreTypeOK
<1>5. CASE InsertDevice(a)
  <2>1. NewDevice \in DeviceRow
    BY DEF NewDevice, DeviceRow, Existence, DeviceStatus, OptionalTime, NoTime
  <2>2. AdminTypeOK'
    BY <1>5, DoneType DEF InsertDevice, TypeOK
  <2> QED
    BY <1>1, <1>5, <2>1, <2>2 DEF InsertDevice, TypeOK, DatabaseTypeOK, StoreTypeOK
<1>6. CASE SaveEditedDevice(a)
  <2>1. admin[a].loaded \in DeviceRow /\ admin[a].edited \in DeviceRow
    BY <1>2 DEF AdminState
  <2>2. devices' \in [Devices -> DeviceRow]
    BY <1>2, <1>6, <2>1, SaveDeviceType DEF SaveEditedDevice
  <2>3. AdminTypeOK'
    BY <1>6, DoneType DEF SaveEditedDevice, TypeOK
  <2> QED
    BY <1>1, <1>6, <2>2, <2>3 DEF SaveEditedDevice, TypeOK, DatabaseTypeOK, StoreTypeOK
<1>7. CASE CheckHistory(a)
  <2>1. [admin[a] EXCEPT !.pc = "deleteDevice"] \in AdminState
    BY <1>2, <1>7 DEF CheckHistory, AdminState, DeviceSteps, RuleSteps
  <2>2. AdminTypeOK'
    BY <1>7, <2>1, DoneType, AdminUpdateType DEF CheckHistory, TypeOK
  <2> QED
    BY <1>1, <1>7, <2>2 DEF CheckHistory, TypeOK, DatabaseTypeOK, dbVars, StoreTypeOK
<1>8. CASE DeleteLoadedDevice(a)
  <2>1. [admin[a] EXCEPT !.pc = "removeKey"] \in AdminState
    BY <1>2, <1>8 DEF DeleteLoadedDevice, AdminState, DeviceSteps, RuleSteps
  <2>2. AdminTypeOK'
    BY <1>8, <2>1, DoneType, AdminUpdateType DEF DeleteLoadedDevice, TypeOK
  <2>3. devices' \in [Devices -> DeviceRow]
    BY <1>2, <1>8 DEF DeleteLoadedDevice, DeleteDeviceRow, DeviceRow, Existence
  <2>4. alertRules' \in [Rules -> RuleRow]
    BY <1>8 DEF DeleteLoadedDevice, DeleteDeviceRow, TypeOK, DatabaseTypeOK, RuleRow
  <2> QED
    BY <1>1, <1>8, <2>2, <2>3, <2>4 DEF DeleteLoadedDevice, TypeOK, DatabaseTypeOK, StoreTypeOK
<1>9. CASE RemoveKey(a)
  <2>1. AdminTypeOK'
    BY <1>9, DoneType DEF RemoveKey, TypeOK
  <2>2. StoreTypeOK'
    BY <1>9, NoStateType DEF RemoveKey, RemoveAsync, TypeOK, StoreTypeOK
  <2> QED
    BY <1>1, <1>9, <2>1, <2>2 DEF RemoveKey, TypeOK, DatabaseTypeOK, dbVars
<1>10. ASSUME NEW q \in Rules, NEW form \in RuleForms,
              CreateRule(a, q, form) \/ EditRule(a, q, form)
       PROVE  TypeOK'
  <2>1. AdminTypeOK'
    BY <1>10, StartRuleType DEF CreateRule, EditRule
  <2> QED
    BY <1>1, <1>10, <2>1 DEF CreateRule, EditRule, TypeOK, DatabaseTypeOK, dbVars, StoreTypeOK
<1>11. CASE CheckDevice(a)
  <2>1. [admin[a] EXCEPT !.pc = "saveRule"] \in AdminState
    BY <1>2, <1>11 DEF CheckDevice, AdminState, DeviceSteps, RuleSteps
  <2>2. AdminTypeOK'
    BY <1>11, <2>1, DoneType, AdminUpdateType DEF CheckDevice, TypeOK
  <2> QED
    BY <1>1, <1>11, <2>2 DEF CheckDevice, TypeOK, DatabaseTypeOK, dbVars, StoreTypeOK
<1>12. CASE SaveEditedRule(a)
  <2>1. AdminTypeOK'
    BY <1>12, DoneType DEF SaveEditedRule, TypeOK
  <2> QED
    BY <1>1, <1>12, <2>1, SavedRuleType DEF SaveEditedRule, TypeOK, DatabaseTypeOK, StoreTypeOK
<1>13. ASSUME NEW q \in Rules, DeleteRule(a, q)
       PROVE  TypeOK'
  <2>1. [admin[a] EXCEPT !.pc = "deleteRule", !.rule = q] \in AdminState
    BY <1>2 DEF AdminState, DeviceSteps, RuleSteps
  <2>2. AdminTypeOK'
    BY <1>13, <2>1, AdminUpdateType DEF DeleteRule, TypeOK
  <2> QED
    BY <1>1, <1>13, <2>2 DEF DeleteRule, TypeOK, DatabaseTypeOK, dbVars, StoreTypeOK
<1>14. CASE DeleteLoadedRule(a)
  <2>1. AdminTypeOK'
    BY <1>14, DoneType DEF DeleteLoadedRule, TypeOK
  <2>2. alertRules' \in [Rules -> RuleRow]
    BY <1>14 DEF DeleteLoadedRule, DeleteRuleRow, TypeOK, DatabaseTypeOK, RuleRow, Existence
  <2>3. \A x \in alerts : [x EXCEPT !.rule = NoRule] \in Alert
    BY DEF TypeOK, DatabaseTypeOK, Alert
  <2>4. alerts' \in SUBSET Alert
    BY <1>14, <2>3 DEF DeleteLoadedRule, DeleteRuleRow, TypeOK, DatabaseTypeOK
  <2> QED
    BY <1>1, <1>14, <2>1, <2>2, <2>4 DEF DeleteLoadedRule, TypeOK, DatabaseTypeOK, StoreTypeOK
<1>15. CASE AbortAdmin(a)
  <2>1. AdminTypeOK'
    BY <1>15, DoneType DEF AbortAdmin, TypeOK
  <2> QED
    BY <1>1, <1>15, <2>1 DEF AbortAdmin, TypeOK, DatabaseTypeOK, dbVars, StoreTypeOK
<1> QED
  BY <1>3, <1>4, <1>5, <1>6, <1>7, <1>8, <1>9, <1>10, <1>11, <1>12, <1>13, <1>14, <1>15
  DEF Administer, AdvanceAdmin

-----------------------------------------------------------------------------
(* The type invariant.                                                     *)

LEMMA TypeInit == Init => TypeOK
<1> SUFFICES ASSUME Init PROVE TypeOK
  OBVIOUS
<1>1. NewDevice \in DeviceRow /\ [NewDevice EXCEPT !.existence = "unused"] \in DeviceRow
  BY DEF NewDevice, DeviceRow, Existence, DeviceStatus, OptionalTime, NoTime
<1>2. DatabaseTypeOK
  BY <1>1, DatabaseAssumption DEF Init, DatabaseInit, DatabaseTypeOK
<1>3. StoreTypeOK /\ NotifierTypeOK
  BY NoStateType DEF Init, StoreTypeOK, NotifierInit, NotifierTypeOK, DeviceStatus
<1>4. ServiceTypeOK
  BY AtPcType, IdleReaderType DEF Init, ServiceInit, ServiceTypeOK
<1>5. MonitorTypeOK
  BY WaitingType DEF Init, MonitorInit, MonitorTypeOK, Time
<1>6. AdminTypeOK
  BY IdleType DEF Init, AdminInit, AdminTypeOK
<1> QED
  BY <1>2, <1>3, <1>4, <1>5, <1>6 DEF TypeOK

LEMMA TypeNext == TypeOK /\ [Next]_vars => TypeOK'
<1> SUFFICES ASSUME TypeOK, [Next]_vars PROVE TypeOK'
  OBVIOUS
<1>1. CASE ServiceStep
  BY <1>1, IngestStepType, ReaderStepType DEF ServiceStep
<1>2. CASE MonitorStep
  BY <1>2, MonitorStepType DEF MonitorStep
<1>3. CASE AdminStep
  BY <1>3, AdminStepType DEF AdminStep
<1>4. CASE ExpiryStep
  BY <1>4, NoStateType DEF ExpiryStep, Expire, TypeOK, StoreTypeOK, DatabaseTypeOK, dbVars,
     NotifierTypeOK, notifierVars, ServiceTypeOK, serviceVars, MonitorTypeOK, monitorVars,
     AdminTypeOK
<1>5. CASE UNCHANGED vars
  BY <1>5 DEF vars, TypeOK, StoreTypeOK, DatabaseTypeOK, dbVars, NotifierTypeOK, notifierVars,
     ServiceTypeOK, serviceVars, MonitorTypeOK, monitorVars, AdminTypeOK
<1> QED
  BY <1>1, <1>2, <1>3, <1>4, <1>5 DEF Next

(* The database, the cache, the events and the local state of every        *)
(* request, query, pass and operation have their types, a device that a    *)
(* step in progress works on is a real one, and no status but Unknown,     *)
(* Online and Offline ever appears.                                        *)
THEOREM TypeCorrect == Spec => []TypeOK
BY TypeInit, TypeNext, PTL DEF Spec

=============================================================================

----------------------------- MODULE MetricsHub -----------------------------
(***************************************************************************)
(* The running system: telemetry requests, state queries, the offline      *)
(* monitor and the management endpoints over one MySQL database, one Redis *)
(* and one SignalR stream, with the failures listed in Faults.             *)
(***************************************************************************)
EXTENDS TelemetryService, DeviceMonitoring, Administration

vars == <<dbVars, redis, notifierVars, serviceVars, monitorVars, admin>>

TypeOK ==
  /\ DatabaseTypeOK
  /\ StoreTypeOK
  /\ NotifierTypeOK
  /\ ServiceTypeOK
  /\ MonitorTypeOK
  /\ AdminTypeOK

Init ==
  /\ DatabaseInit
  /\ redis = [d \in Devices |-> NoState]
  /\ NotifierInit
  /\ ServiceInit
  /\ MonitorInit
  /\ AdminInit

ServiceStep ==
  /\ \/ \E r \in Requests : Ingest(r) \/ AbortIngest(r)
     \/ \E g \in Readers : Read(g) \/ AbortReader(g)
  /\ UNCHANGED <<monitorVars, admin>>

MonitorStep ==
  /\ MonitorPass \/ AbortPass \/ Tick
  /\ UNCHANGED <<serviceVars, admin>>

AdminStep ==
  /\ \E a \in Admins : Administer(a) \/ AbortAdmin(a)
  /\ UNCHANGED <<notifierVars, serviceVars, monitorVars>>

ExpiryStep ==
  /\ \E d \in Devices : Expire(d)
  /\ UNCHANGED <<dbVars, notifierVars, serviceVars, monitorVars, admin>>

Next == ServiceStep \/ MonitorStep \/ AdminStep \/ ExpiryStep

Spec == Init /\ [][Next]_vars

-----------------------------------------------------------------------------
(* Properties of every behaviour.                                          *)

IsHistory(d, m, reading) ==
  \E p \in telemetry : /\ p.device = d
                       /\ p.metric = m
                       /\ p.value = reading.value
                       /\ p.timestamp = reading.timestamp

StateIsHistory(d, state) ==
  /\ \A m \in Metrics : state.metrics[m] = NoReading \/ IsHistory(d, m, state.metrics[m])
  /\ state.lastSeenAt = NoTime \/ \E p \in telemetry : p.device = d /\ p.timestamp = state.lastSeenAt

(* Every reading and every LastSeenAt that Redis holds or a dashboard has  *)
(* been shown is that of a telemetry point committed to MySQL for the same *)
(* device: the cache and the events never run ahead of the database.       *)
StatesComeFromHistory ==
  \A d \in Devices : StateIsHistory(d, redis[d]) /\ StateIsHistory(d, shown[d])

(* A device is Unknown exactly as long as no telemetry was accepted for    *)
(* it, whatever requests, monitor passes and edits overlap.                *)
UnknownMeansNeverSeen ==
  \A d \in Devices : Stored(d) =>
    /\ devices[d].status = "Unknown" <=> devices[d].lastSeenAt = NoTime
    /\ devices[d].status = "Unknown" <=> \A p \in telemetry : p.device # d

(* Telemetry and alerts never refer to a device that is gone, nor alerts   *)
(* and rules to a rule or device that is gone, although a deletion checks  *)
(* for history in one step and deletes in a later one.                     *)
NoDanglingHistory ==
  /\ \A p \in telemetry : Stored(p.device)
  /\ \A a \in alerts : /\ Stored(a.device)
                       /\ a.rule = NoRule \/ alertRules[a.rule].existence = "stored"
  /\ \A q \in Rules : alertRules[q].existence = "stored" =>
       alertRules[q].device = NoDevice \/ Stored(alertRules[q].device)

(* Devices that race for a key never both get it, so the lookup by key     *)
(* that every request starts with finds at most one row.                   *)
DeviceKeysAreUnique ==
  \A d, e \in Devices : Stored(d) /\ Stored(e) /\ KeyOf[d] = KeyOf[e] => d = e

(* While a key lives, neither its LastSeenAt nor the timestamp of any of   *)
(* its readings moves backward, in whatever order the writes arrive.       *)
CacheNeverMovesBackward ==
  [][\A d \in Devices : redis'[d] = NoState \/
       /\ redis'[d].lastSeenAt >= redis[d].lastSeenAt
       /\ \A m \in Metrics :
            redis'[d].metrics[m].timestamp >= redis[d].metrics[m].timestamp]_vars

(* A pass has committed d as Offline and not announced it yet.             *)
OfflineDue(d) ==
  \/ monitor.pc \in MonitorSteps \ {"commit"} /\ d \in monitor.pending
  \/ monitor.pc \in {"readState", "readHistory", "writeState", "publishStatus"} /\ d = monitor.device

(* The DeviceStatusChanged events to be published for commits that were    *)
(* made: of which request, or of a pass, and with which status.            *)
Owed(d) ==
  {<<r, Entity(r).status>> : r \in
     {s \in Requests : /\ ingest[s].pc \in {"cacheWrite", "cacheRead", "rebuild", "publishState",
                                            "publishStatus"}
                       /\ ingest[s].device = d
                       /\ ingest[s].loaded.status # Entity(s).status}}
  \cup {o \in {<<NoRequest, "Offline">>} : OfflineDue(d)}

(* DeviceStatusChanged follows the commits although requests and passes    *)
(* compute it from rows they loaded before: no commit changes the status   *)
(* of a device without owing the dashboards an event, an event that is     *)
(* owed has the status that the commit left in the row, for devices that   *)
(* wait for the answer it is a real transition, and nothing is announced   *)
(* that is not owed.                                                       *)
StatusEventsAreTransitions ==
  [][\A d \in Devices :
       /\ devices'[d].status # devices[d].status => Owed(d)' \ Owed(d) # {}
       /\ \A o \in Owed(d)' \ Owed(d) :
            /\ devices'[d].status = o[2]
            /\ ~Overlap => devices[d].status # o[2]
       /\ announced'[d] # announced[d] =>
            \E o \in Owed(d) \ Owed(d)' : announced'[d] = o[2]]_vars

-----------------------------------------------------------------------------
(* Properties of behaviours without failures (Faults = {}).                *)

(* Every committed point is in the cache, or superseded there by a newer   *)
(* one, or its request is still about to write it: no interleaving of      *)
(* requests, rebuilds and monitor passes loses an update of the cache.     *)
CommittedIsCachedOrPending ==
  \A p \in telemetry :
    \/ redis[p.device].metrics[p.metric].timestamp >= p.timestamp
    \/ \E r \in Requests : /\ ingest[r].pc = "cacheWrite"
                           /\ ingest[r].device = p.device
                           /\ Command[r].timestamp = p.timestamp
                           /\ Includes(Command[r], p.metric)

Quiet ==
  /\ \A r \in Requests : ~InFlight(r)
  /\ \A g \in Readers : reader[g].pc = "idle"
  /\ monitor.pc = "waiting"
  /\ \A a \in Admins : admin[a].pc = "idle"

(* Once nothing is in flight, each cached reading is as recent as the      *)
(* latest point of its metric, for any overlap of requests, queries and    *)
(* passes. (The readings themselves may differ: see CacheMirrorsDatabase.) *)
CacheIsAsRecent ==
  Quiet => \A d \in Devices, m \in Metrics :
    redis[d].metrics[m].timestamp = LatestReadings(d)[m].timestamp

-----------------------------------------------------------------------------
(* Properties of devices that wait for the answer before they send again   *)
(* (Overlap = FALSE).                                                      *)

(* A device has at most one unresolved alert per rule.                     *)
AtMostOneActiveAlert ==
  \A a, b \in alerts :
    /\ IsActive(a) /\ IsActive(b)
    /\ a.device = b.device /\ a.rule = b.rule /\ a.rule # NoRule
    => a = b

(* LastSeenAt in MySQL is the newest timestamp accepted for the device.    *)
LastSeenIsNewest ==
  \A p \in telemetry : p.timestamp <= devices[p.device].lastSeenAt

(* When a batch is committed, each rule it was evaluated against has an    *)
(* active alert if and only if the batch violates the rule as it was read; *)
(* a rule deleted in the meantime keeps no alert of its own.               *)
AlertsFollowVerdicts ==
  [][\A r \in Requests :
       LET d == ingest[r].device
           rules == ingest[r].rules
       IN ingest[r].pc = "commit" /\ ingest'[r].pc = "cacheWrite" =>
            \A q \in Evaluated(rules, d, Command[r]) :
              alertRules[q].existence = "stored" =>
                (q \in Violated(rules, d, Command[r]) <=>
                  \E a \in alerts' : a.device = d /\ a.rule = q /\ IsActive(a))]_vars

(* Once nothing is in flight and no event was lost, the alerts a dashboard *)
(* shows as open are the unresolved alerts of the database.                *)
DashboardAlertsAreCurrent ==
  Quiet => openAlerts = {a.id : a \in {b \in alerts : IsActive(b)}}

(* Once nothing is in flight, a cached state is the one a rebuild from     *)
(* MySQL would give. (Without the monitor and state queries, whose delayed *)
(* writes can bring back what they read: see OfflineReachesCache.)         *)
CacheMirrorsDatabase ==
  Quiet => \A d \in Devices :
    Absent(d) \/ redis[d] = StateOf(devices[d], LatestReadings(d))

-----------------------------------------------------------------------------
(* Promises of the documentation that do not hold in every behaviour.      *)

(* Once nothing is in flight, the cache does not show Online what MySQL    *)
(* has as Offline.                                                         *)
OfflineReachesCache ==
  Quiet => \A d \in Devices :
    Stored(d) /\ devices[d].status = "Offline" => redis[d].status # "Online"

(* Once nothing is in flight, a cached state has a reading at least as new *)
(* as every point of the device.                                           *)
CachedStateIsComplete ==
  Quiet => \A p \in telemetry :
    \/ Absent(p.device)
    \/ redis[p.device].metrics[p.metric].timestamp >= p.timestamp

-----------------------------------------------------------------------------
(* The abstract specifications that the system implements.                 *)

AcceptedReading(p) == [device |-> p.device, metric |-> p.metric, value |-> p.value, timestamp |-> p.timestamp]

Current == INSTANCE CurrentState WITH
  accepted <- {AcceptedReading(p) : p \in telemetry},
  current <- redis

(* Redis is a current state of the committed telemetry: whatever fails,    *)
(* expires, overlaps or is written late, each write of the cache advances  *)
(* it to readings that were accepted.                                      *)
ImplementsCurrentState == Current!Spec

UnresolvedAlerts(d, q) == {a.id : a \in {b \in alerts : IsActive(b) /\ b.device = d /\ b.rule = q}}

Lifecycle == INSTANCE AlertLifecycle WITH
  unresolved <- [p \in Devices \X Rules |-> UnresolvedAlerts(p[1], p[2])],
  resolved <- {<<a.id, a.resolvedBy>> : a \in {b \in alerts : ~IsActive(b)}},
  orphaned <- {a.id : a \in {b \in alerts : IsActive(b) /\ b.rule = NoRule}}

(* Alerts go through their lifecycle for devices that wait for the answer  *)
(* before they send again (Overlap = FALSE), although evaluation and       *)
(* commit are separate steps and rules are edited and deleted in between.  *)
ImplementsAlertLifecycle == Lifecycle!Spec

-----------------------------------------------------------------------------
(* Liveness. The hosted service ticks until shutdown and the thread pool   *)
(* runs the continuations of its passes; nothing is assumed of requests,   *)
(* which may stop anywhere, of clients, of callers or of expiry.           *)

FairPass == UNCHANGED <<serviceVars, admin>> /\ MonitorPass
FairTick == UNCHANGED <<serviceVars, admin>> /\ Tick

Fairness ==
  /\ WF_vars(FairPass)
  /\ WF_vars(FairTick)

FairSpec == Spec /\ Fairness

Silent(d) == /\ Stored(d)
             /\ devices[d].isEnabled
             /\ devices[d].status = "Online"
             /\ devices[d].lastSeenAt + OfflineAfter < MaxClock

(* An enabled Online device that falls silent does not stay that way: it   *)
(* is marked Offline unless it reports again or is disabled.               *)
SilentDeviceGoesOffline == \A d \in Devices : Silent(d) ~> ~Silent(d)

(* A device whose Offline status a pass committed is announced as Offline, *)
(* even if Redis fails on the way and other devices come first.            *)
OfflineIsAnnounced ==
  \A d \in Devices :
    monitor.pc = "nextDevice" /\ d \in monitor.pending ~> announced[d] = "Offline"
=============================================================================

------------------------------ MODULE Database ------------------------------
(***************************************************************************)
(* MySQL as the repositories use it: the tables, the queries, the foreign  *)
(* keys, and what an Entity Framework SaveChanges writes. Every SaveChanges*)
(* is one transaction, so one atomic change; queries see committed rows.   *)
(***************************************************************************)
EXTENDS Domain

CONSTANTS
  Registered,  \* the devices registered at the start
  RulesAtStart \* the alert rule table at the start

ASSUME DatabaseAssumption ==
  /\ Registered \subseteq Devices
  /\ \A d, e \in Registered : KeyOf[d] = KeyOf[e] => d = e
  /\ RulesAtStart \in [Rules -> RuleRow]
  /\ \A q \in Rules : RulesAtStart[q].device \in Registered \cup {NoDevice}

VARIABLES
  devices,     \* devices[d]: the row of device d
  telemetry,   \* the set of telemetry points
  nextId,      \* AUTO_INCREMENT of the telemetry points
  alertRules,  \* alertRules[q]: the row of rule q
  alerts       \* the set of alerts

dbVars == <<devices, telemetry, nextId, alertRules, alerts>>

Point == [id: Nat, device: Devices, metric: Metrics, value: Int, timestamp: Time]

(* An alert's Id is the request that raised it and the rule it was raised  *)
(* for; rule is its foreign key. ResolvedAt is represented by the request  *)
(* whose clock it was read from, null while the alert is active.           *)
Alert == [id: AlertId, device: Devices, rule: Rules \cup {NoRule},
          resolvedBy: Requests \cup {NoRequest}]

DatabaseTypeOK ==
  /\ devices \in [Devices -> DeviceRow]
  /\ telemetry \in SUBSET Point
  /\ nextId \in Nat
  /\ alertRules \in [Rules -> RuleRow]
  /\ alerts \in SUBSET Alert

DatabaseInit ==
  /\ devices = [d \in Devices |->
       IF d \in Registered THEN NewDevice ELSE [NewDevice EXCEPT !.existence = "unused"]]
  /\ telemetry = {}
  /\ nextId = 1
  /\ alertRules = RulesAtStart
  /\ alerts = {}

-----------------------------------------------------------------------------
(* Queries.                                                                *)

Stored(d) == devices[d].existence = "stored"

GetByKey(key) == {d \in Devices : Stored(d) /\ KeyOf[d] = key}

(* Mistaken variant: devices that are Offline already are found again.     *)
GetStaleDevices(cutoff) ==
  {d \in Devices : /\ Stored(d)
                   /\ devices[d].isEnabled
                   /\ devices[d].lastSeenAt # NoTime
                   /\ devices[d].lastSeenAt < cutoff}

GetStaleOnlineDevices(cutoff) ==
  {d \in Devices : /\ Stored(d)
                   /\ devices[d].isEnabled
                   /\ devices[d].status = "Online"
                   /\ devices[d].lastSeenAt # NoTime
                   /\ devices[d].lastSeenAt < cutoff}

HasHistoricalData(d) ==
  \/ \E p \in telemetry : p.device = d
  \/ \E a \in alerts : a.device = d

(* Per metric, the point with the greatest timestamp; of those, the one    *)
(* inserted last.                                                          *)
GetLatestByMetric(d) ==
  {p \in telemetry :
     /\ p.device = d
     /\ \A q \in telemetry :
          q.device = d /\ q.metric = p.metric =>
            q.timestamp < p.timestamp \/ (q.timestamp = p.timestamp /\ q.id <= p.id)}

LatestReadings(d) ==
  [m \in Metrics |->
     IF \E p \in GetLatestByMetric(d) : p.metric = m
     THEN LET p == CHOOSE p \in GetLatestByMetric(d) : p.metric = m
          IN [value |-> p.value, timestamp |-> p.timestamp]
     ELSE NoReading]

IsActive(a) == a.resolvedBy = NoRequest

(* Mistaken variant: resolved alerts are not filtered out.                 *)
GetAllByRuleIds(d, ruleIds) == {a \in alerts : a.device = d /\ a.rule \in ruleIds}

GetActiveByRuleIds(d, ruleIds) ==
  {a \in alerts : a.device = d /\ IsActive(a) /\ a.rule \in ruleIds}

-----------------------------------------------------------------------------
(* Writes.                                                                 *)

(* SaveChanges writes a column only if the entity differs from the row as  *)
(* it was when loaded; there are no concurrency tokens.                    *)
Column(current, loaded, entity) == IF entity = loaded THEN current ELSE entity

(* Mistaken variant: all columns are written.                              *)
SaveWholeDevice(current, loaded, entity) == entity

SaveDevice(current, loaded, entity) ==
  [current EXCEPT
     !.isEnabled  = Column(@, loaded.isEnabled, entity.isEnabled),
     !.status     = Column(@, loaded.status, entity.status),
     !.lastSeenAt = Column(@, loaded.lastSeenAt, entity.lastSeenAt)]

SaveRule(current, loaded, entity) ==
  [current EXCEPT
     !.isEnabled = Column(@, loaded.isEnabled, entity.isEnabled),
     !.device    = Column(@, loaded.device, entity.device),
     !.metric    = Column(@, loaded.metric, entity.metric),
     !.operator  = Column(@, loaded.operator, entity.operator),
     !.threshold = Column(@, loaded.threshold, entity.threshold)]

(* INSERT of a command's points.                                           *)
AddPoints(d, command) ==
  /\ telemetry' = telemetry \cup
       {[id |-> nextId + i, device |-> d, metric |-> command.metrics[i].metric,
         value |-> command.metrics[i].value, timestamp |-> command.timestamp]
        : i \in DOMAIN command.metrics}
  /\ nextId' = nextId + Len(command.metrics)

(* INSERT of the alerts request r raises for the rules in raised, UPDATE   *)
(* of the alerts it resolves.                                              *)
SaveAlerts(r, d, raised, resolved) ==
  alerts' = {IF a.id \in resolved THEN [a EXCEPT !.resolvedBy = r] ELSE a : a \in alerts}
            \cup {[id |-> <<r, q>>, device |-> d, rule |-> q, resolvedBy |-> NoRequest]
                  : q \in raised}

(* Mistaken variant: history does not restrict the deletion.               *)
DeleteDeviceRowUnrestricted(d) ==
  /\ devices' = [devices EXCEPT ![d].existence = "deleted"]
  /\ UNCHANGED alertRules

(* DELETE of a device: restricted while history references it, and setting *)
(* the device of its rules to null.                                        *)
DeleteDeviceRow(d) ==
  /\ ~HasHistoricalData(d)
  /\ devices' = [devices EXCEPT ![d].existence = "deleted"]
  /\ alertRules' = [q \in Rules |->
       IF alertRules[q].device = d
       THEN [alertRules[q] EXCEPT !.device = NoDevice] ELSE alertRules[q]]

(* DELETE of a rule sets the rule of its alerts to null.                   *)
DeleteRuleRow(q) ==
  /\ alertRules' = [alertRules EXCEPT ![q].existence = "deleted"]
  /\ alerts' = {IF a.rule = q THEN [a EXCEPT !.rule = NoRule] ELSE a : a \in alerts}
=============================================================================

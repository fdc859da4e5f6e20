------------------------------- MODULE Domain -------------------------------
(***************************************************************************)
(* The entities of src/MetricsHub.Domain and the pure functions over them: *)
(* device rows, alert rules, telemetry commands, device states, and what   *)
(* the code computes from them without touching shared state.              *)
(***************************************************************************)
EXTENDS Integers, Sequences

CONSTANTS
  Devices,    \* device Ids (Guids, never reused)
  Keys,       \* device keys
  KeyOf,      \* the key each Id is registered under
  Metrics,    \* the MetricType enum
  Rules,      \* alert rule Ids (Guids, never reused)
  Requests,   \* POST /api/telemetry requests, each sent at most once
  Command,    \* the body of each request
  NoDevice, NoRule, NoRequest    \* the nulls of DeviceId, AlertRuleId, ResolvedAt

(* Instants are naturals; a null instant is -1, as in the Redis script.    *)
Time == Nat
NoTime == -1
OptionalTime == Time \cup {NoTime}

Existence == {"unused", "stored", "deleted"}
DeviceStatus == {"Unknown", "Online", "Offline"}
Operators == {">", ">=", "<", "<=", "="}

DeviceRow == [existence: Existence, isEnabled: BOOLEAN,
              status: DeviceStatus, lastSeenAt: OptionalTime]

RuleRow == [existence: Existence, isEnabled: BOOLEAN,
            device: Devices \cup {NoDevice}, metric: Metrics,
            operator: Operators, threshold: Int]

IngestTelemetryCommand ==
  [key: Keys, timestamp: Time, metrics: Seq([metric: Metrics, value: Int])]

AlertId == Requests \X Rules

ASSUME DomainAssumption ==
  /\ KeyOf \in [Devices -> Keys]
  /\ Command \in [Requests -> IngestTelemetryCommand]
  /\ \A r \in Requests : Command[r].metrics # << >>
  /\ NoDevice \notin Devices /\ NoRule \notin Rules /\ NoRequest \notin Requests

-----------------------------------------------------------------------------
(* Devices.                                                                *)

NewDevice == [existence |-> "stored", isEnabled |-> TRUE,
              status |-> "Unknown", lastSeenAt |-> NoTime]

(* Mistaken variants of RecordTelemetry: raising a health status that the  *)
(* service never sets; bringing back only Offline devices; recording only  *)
(* the first contact.                                                      *)
RecordTelemetryWarning(device, timestamp) ==
  [device EXCEPT !.status = "Warning", !.lastSeenAt = timestamp]
RecordTelemetryIfOffline(device, timestamp) ==
  [device EXCEPT !.status = IF @ = "Offline" THEN "Online" ELSE @, !.lastSeenAt = timestamp]
RecordTelemetryOnce(device, timestamp) ==
  [device EXCEPT !.status = "Online", !.lastSeenAt = IF @ = NoTime THEN timestamp ELSE @]

RecordTelemetry(device, timestamp) ==
  [device EXCEPT
     !.status = "Online",
     !.lastSeenAt = IF @ = NoTime \/ timestamp > @ THEN timestamp ELSE @]

(* Mistaken variant: the guard inverted.                                   *)
MarkOfflineInverted(device) ==
  IF device.status # "Online" THEN [device EXCEPT !.status = "Offline"] ELSE device

MarkOffline(device) ==
  IF device.status = "Online" THEN [device EXCEPT !.status = "Offline"] ELSE device

UpdateDetails(device, isEnabled) == [device EXCEPT !.isEnabled = isEnabled]

-----------------------------------------------------------------------------
(* Device states: what Redis holds, GetState returns and dashboards show.  *)

Reading == [value: Int, timestamp: OptionalTime]
NoReading == [value |-> 0, timestamp |-> NoTime]

(* The status "None" marks the state of a key that does not exist.         *)
DeviceState == [status: DeviceStatus \cup {"None"}, lastSeenAt: OptionalTime,
                metrics: [Metrics -> Reading]]
NoState == [status |-> "None", lastSeenAt |-> NoTime,
            metrics |-> [m \in Metrics |-> NoReading]]

StateOf(device, metrics) ==
  [status |-> device.status, lastSeenAt |-> device.lastSeenAt, metrics |-> metrics]

-----------------------------------------------------------------------------
(* Batches: a command may name a metric more than once; its last entry is  *)
(* the one evaluated and cached, while every entry becomes a point.        *)

Includes(command, m) ==
  \E i \in DOMAIN command.metrics : command.metrics[i].metric = m

LastValue(command, m) ==
  LET i == CHOOSE i \in DOMAIN command.metrics :
             /\ command.metrics[i].metric = m
             /\ \A j \in DOMAIN command.metrics :
                  command.metrics[j].metric = m => j <= i
  IN command.metrics[i].value

BatchReadings(command) ==
  [m \in Metrics |->
     IF Includes(command, m)
     THEN [value |-> LastValue(command, m), timestamp |-> command.timestamp]
     ELSE NoReading]

-----------------------------------------------------------------------------
(* Alert rules.                                                            *)

IsViolated(value, operator, threshold) ==
  CASE operator = ">"  -> value > threshold
    [] operator = ">=" -> value >= threshold
    [] operator = "<"  -> value < threshold
    [] operator = "<=" -> value <= threshold
    [] operator = "="  -> value = threshold

GetApplicableRules(rules, d) ==
  {q \in Rules : /\ rules[q].existence = "stored"
                 /\ rules[q].isEnabled
                 /\ rules[q].device \in {NoDevice, d}}

(* The applicable rules on a metric of the batch, split by the verdict on  *)
(* the batch's last value of that metric.                                  *)
Evaluated(rules, d, command) ==
  {q \in GetApplicableRules(rules, d) : Includes(command, rules[q].metric)}

Violated(rules, d, command) ==
  {q \in Evaluated(rules, d, command) :
     IsViolated(LastValue(command, rules[q].metric), rules[q].operator, rules[q].threshold)}

(* Mistaken variants: raising without looking for an active alert, and     *)
(* never resolving.                                                        *)
RulesToRaiseAgain(rules, active, d, command) == Violated(rules, d, command)
AlertsToResolveNever(rules, active, d, command) == {}

(* A violated rule without an active alert raises one; the active alert of *)
(* an evaluated rule that is no longer violated is resolved.               *)
RulesToRaise(rules, active, d, command) ==
  {q \in Violated(rules, d, command) : \A a \in active : a[2] # q}

AlertsToResolve(rules, active, d, command) ==
  {a \in active : /\ a[2] \in Evaluated(rules, d, command)
                  /\ a[2] \notin Violated(rules, d, command)}
=============================================================================

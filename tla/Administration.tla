--------------------------- MODULE Administration ---------------------------
(***************************************************************************)
(* DeviceService and AlertRuleService: registration, editing and deletion  *)
(* of devices and alert rules over HTTP. Each operation reads, checks and  *)
(* saves in separate steps, and may fail between them.                     *)
(***************************************************************************)
EXTENDS Database, DeviceStateStore

CONSTANTS
  Admins,      \* concurrent callers of the management endpoints
  RuleForms    \* the rule contents the callers submit

ASSUME AdminAssumption == RuleForms \subseteq {row \in RuleRow : row.existence = "stored"}

VARIABLE admin  \* admin[a]: progress and local state of caller a

DeviceSteps == {"insertDevice", "saveDevice", "checkHistory", "deleteDevice", "removeKey"}
RuleSteps == {"checkDevice", "saveRule", "deleteRule"}

AdminState ==
  {i \in [pc: {"idle"} \cup DeviceSteps \cup RuleSteps,
          device: Devices \cup {NoDevice},
          loaded: DeviceRow,                \* the device row as read, and as edited
          edited: DeviceRow,
          rule: Rules \cup {NoRule},
          loadedRules: [Rules -> RuleRow],  \* the rules as read, and with the one edited
          editedRules: [Rules -> RuleRow]] :
     /\ i.pc \in DeviceSteps => i.device \in Devices
     /\ i.pc \in RuleSteps => i.rule \in Rules}

AdminTypeOK == admin \in [Admins -> AdminState]

Idle == [pc |-> "idle", device |-> NoDevice, loaded |-> NewDevice, edited |-> NewDevice,
         rule |-> NoRule, loadedRules |-> RulesAtStart, editedRules |-> RulesAtStart]

AdminInit == admin = [a \in Admins |-> Idle]

Done(a) == admin' = [admin EXCEPT ![a] = Idle]

-----------------------------------------------------------------------------
(* Devices.                                                                *)

(* A fresh Id whose key is not taken; otherwise the answer is 409.         *)
RegisterDevice(a, d) ==
  /\ admin[a].pc = "idle"
  /\ devices[d].existence = "unused"
  /\ \A b \in Admins : admin[b].pc = "insertDevice" => admin[b].device # d
  /\ GetByKey(KeyOf[d]) = {}
  /\ admin' = [admin EXCEPT ![a].pc = "insertDevice", ![a].device = d]
  /\ UNCHANGED <<dbVars, redis>>

(* Mistaken variant: no unique index behind the check.                     *)
InsertDeviceUnchecked(a) ==
  /\ admin[a].pc = "insertDevice"
  /\ devices' = [devices EXCEPT ![admin[a].device] = NewDevice]
  /\ Done(a)
  /\ UNCHANGED <<telemetry, nextId, alertRules, alerts, redis>>

(* The unique index on DeviceKey decides registrations that race.          *)
InsertDevice(a) ==
  LET d == admin[a].device
  IN /\ admin[a].pc = "insertDevice"
     /\ devices' = IF GetByKey(KeyOf[d]) = {}
                   THEN [devices EXCEPT ![d] = NewDevice] ELSE devices
     /\ Done(a)
     /\ UNCHANGED <<telemetry, nextId, alertRules, alerts, redis>>

EditDevice(a, d, isEnabled) ==
  /\ admin[a].pc = "idle"
  /\ Stored(d)
  /\ admin' = [admin EXCEPT ![a].pc = "saveDevice", ![a].device = d,
                            ![a].loaded = devices[d],
                            ![a].edited = UpdateDetails(devices[d], isEnabled)]
  /\ UNCHANGED <<dbVars, redis>>

SaveEditedDevice(a) ==
  LET d == admin[a].device
  IN /\ admin[a].pc = "saveDevice"
     /\ devices' = IF Stored(d)
                   THEN [devices EXCEPT ![d] = SaveDevice(@, admin[a].loaded, admin[a].edited)]
                   ELSE devices
     /\ Done(a)
     /\ UNCHANGED <<telemetry, nextId, alertRules, alerts, redis>>

DeleteDevice(a, d) ==
  /\ admin[a].pc = "idle"
  /\ Stored(d)
  /\ admin' = [admin EXCEPT ![a].pc = "checkHistory", ![a].device = d]
  /\ UNCHANGED <<dbVars, redis>>

CheckHistory(a) ==
  /\ admin[a].pc = "checkHistory"
  /\ IF HasHistoricalData(admin[a].device)
     THEN Done(a) ELSE admin' = [admin EXCEPT ![a].pc = "deleteDevice"]
  /\ UNCHANGED <<dbVars, redis>>

(* The foreign keys answer for history that arrived after the check.       *)
DeleteLoadedDevice(a) ==
  LET d == admin[a].device
  IN /\ admin[a].pc = "deleteDevice"
     /\ \/ /\ Stored(d)
           /\ DeleteDeviceRow(d)
           /\ admin' = [admin EXCEPT ![a].pc = "removeKey"]
        \/ /\ ~Stored(d) \/ HasHistoricalData(d)
           /\ Done(a)
           /\ UNCHANGED <<devices, alertRules>>
     /\ UNCHANGED <<telemetry, nextId, alerts, redis>>

RemoveKey(a) ==
  /\ admin[a].pc = "removeKey"
  /\ \/ RemoveAsync(admin[a].device)
     \/ "redis" \in Faults /\ UNCHANGED redis
  /\ Done(a)
  /\ UNCHANGED dbVars

-----------------------------------------------------------------------------
(* Alert rules.                                                            *)

StartRule(a, q, form) ==
  admin' = [admin EXCEPT ![a].pc = IF form.device = NoDevice THEN "saveRule" ELSE "checkDevice",
                         ![a].rule = q,
                         ![a].loadedRules = alertRules,
                         ![a].editedRules = [alertRules EXCEPT ![q] = form]]

CreateRule(a, q, form) ==
  /\ admin[a].pc = "idle"
  /\ alertRules[q].existence = "unused"
  /\ \A b \in Admins : admin[b].rule # q
  /\ StartRule(a, q, form)
  /\ UNCHANGED <<dbVars, redis>>

EditRule(a, q, form) ==
  /\ admin[a].pc = "idle"
  /\ alertRules[q].existence = "stored"
  /\ StartRule(a, q, form)
  /\ UNCHANGED <<dbVars, redis>>

CheckDevice(a) ==
  /\ admin[a].pc = "checkDevice"
  /\ IF Stored(admin[a].editedRules[admin[a].rule].device)
     THEN admin' = [admin EXCEPT ![a].pc = "saveRule"] ELSE Done(a)
  /\ UNCHANGED <<dbVars, redis>>

(* INSERT of a new rule or UPDATE of an edited one; it fails when the rule *)
(* is gone, or when it would refer to a device that is.                    *)
SaveEditedRule(a) ==
  LET q == admin[a].rule
      loaded == admin[a].loadedRules[q]
      edited == admin[a].editedRules[q]
      row == IF loaded.existence = "unused" THEN edited
             ELSE SaveRule(alertRules[q], loaded, edited)
      valid == /\ alertRules[q].existence = loaded.existence
               /\ row.device = NoDevice \/ Stored(row.device)
  IN /\ admin[a].pc = "saveRule"
     /\ alertRules' = IF valid THEN [alertRules EXCEPT ![q] = row] ELSE alertRules
     /\ Done(a)
     /\ UNCHANGED <<devices, telemetry, nextId, alerts, redis>>

DeleteRule(a, q) ==
  /\ admin[a].pc = "idle"
  /\ alertRules[q].existence = "stored"
  /\ admin' = [admin EXCEPT ![a].pc = "deleteRule", ![a].rule = q]
  /\ UNCHANGED <<dbVars, redis>>

DeleteLoadedRule(a) ==
  LET q == admin[a].rule
  IN /\ admin[a].pc = "deleteRule"
     /\ \/ alertRules[q].existence = "stored" /\ DeleteRuleRow(q)
        \/ alertRules[q].existence # "stored" /\ UNCHANGED <<alertRules, alerts>>
     /\ Done(a)
     /\ UNCHANGED <<devices, telemetry, nextId, redis>>

AbortAdmin(a) ==
  /\ "abort" \in Faults
  /\ admin[a].pc # "idle"
  /\ Done(a)
  /\ UNCHANGED <<dbVars, redis>>

AdvanceAdmin(a) ==
  \/ InsertDevice(a) \/ SaveEditedDevice(a) \/ CheckHistory(a) \/ DeleteLoadedDevice(a)
  \/ RemoveKey(a) \/ CheckDevice(a) \/ SaveEditedRule(a) \/ DeleteLoadedRule(a)

Administer(a) ==
  \/ \E d \in Devices :
       \/ RegisterDevice(a, d) \/ DeleteDevice(a, d)
       \/ \E isEnabled \in BOOLEAN : EditDevice(a, d, isEnabled)
  \/ \E q \in Rules :
       \/ DeleteRule(a, q)
       \/ \E form \in RuleForms : CreateRule(a, q, form) \/ EditRule(a, q, form)
  \/ AdvanceAdmin(a)
=============================================================================

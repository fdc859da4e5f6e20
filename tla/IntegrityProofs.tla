-------------------------- MODULE IntegrityProofs ---------------------------
(***************************************************************************)
(* What the unique index and the foreign keys of the database guarantee    *)
(* against operations that check in one step and save in a later one; what *)
(* a step does to the rows, the requests and the callers; and that the     *)
(* status and LastSeenAt of a device agree with its telemetry.             *)
(***************************************************************************)
EXTENDS CacheProofs

(* The steps that write to the database.                                   *)
DatabaseStep ==
  \/ UNCHANGED dbVars
  \/ \E r \in Requests : SaveChanges(r)
  \/ CommitOffline
  \/ \E a \in Admins : \/ InsertDevice(a) \/ SaveEditedDevice(a) \/ DeleteLoadedDevice(a)
                       \/ SaveEditedRule(a) \/ DeleteLoadedRule(a)

LEMMA DatabaseSteps == [Next]_vars => DatabaseStep
<1> SUFFICES ASSUME [Next]_vars PROVE DatabaseStep
  OBVIOUS
<1>1. CASE ServiceStep
  <2>1. ASSUME NEW r \in Requests, Ingest(r) \/ AbortIngest(r) PROVE DatabaseStep
    <3>1. CASE SaveChanges(r)
      BY <3>1 DEF DatabaseStep
    <3> QED
      BY <2>1, <3>1 DEF Ingest, LoadDevice, LoadRules, LoadActiveAlerts, RequireDevice, CacheWrite,
         CacheRead, RebuildState, PublishState, PublishStatus, PublishAlerts, AbortIngest, DatabaseStep
  <2>2. ASSUME NEW g \in Readers, Read(g) \/ AbortReader(g) PROVE DatabaseStep
    BY <2>2 DEF Read, GetState, ReadCachedState, ReadHistory, WriteRebuiltState, AbortReader,
       DatabaseStep
  <2> QED
    BY <1>1, <2>1, <2>2 DEF ServiceStep
<1>2. CASE MonitorStep
  BY <1>2 DEF MonitorStep, MonitorPass, FindStaleDevices, NextDevice, ReadState, ReadHistoryForState,
     WriteState, PublishOffline, PublishOfflineState, AbortPass, Tick, DatabaseStep
<1>3. CASE AdminStep
  <2>1. ASSUME NEW a \in Admins, Administer(a) \/ AbortAdmin(a) PROVE DatabaseStep
    <3>1. CASE \/ InsertDevice(a) \/ SaveEditedDevice(a) \/ DeleteLoadedDevice(a)
               \/ SaveEditedRule(a) \/ DeleteLoadedRule(a)
      BY <3>1 DEF DatabaseStep
    <3> QED
      BY <2>1, <3>1 DEF Administer, AdvanceAdmin, RegisterDevice, DeleteDevice, EditDevice,
         CheckHistory, RemoveKey, CreateRule, EditRule, CheckDevice, DeleteRule, AbortAdmin,
         DatabaseStep
  <2> QED
    BY <1>3, <2>1 DEF AdminStep
<1>4. CASE ExpiryStep
  BY <1>4 DEF ExpiryStep, DatabaseStep
<1>5. CASE UNCHANGED vars
  BY <1>5 DEF vars, DatabaseStep
<1> QED
  BY <1>1, <1>2, <1>3, <1>4, <1>5 DEF Next

(* Updating a device row keeps the device stored, or not.                  *)
LEMMA UpdatesKeepExistence ==
  ASSUME TypeOK, \/ \E r \in Requests : SaveChanges(r)
                 \/ CommitOffline
                 \/ \E a \in Admins : SaveEditedDevice(a)
  PROVE  \A d \in Devices : devices'[d].existence = devices[d].existence
<1>1. ASSUME NEW d \in Devices, NEW loaded, NEW entity
      PROVE  SaveDevice(devices[d], loaded, entity).existence = devices[d].existence
  BY DEF SaveDevice, TypeOK, DatabaseTypeOK, DeviceRow
<1>2. CASE \E r \in Requests : SaveChanges(r)
  BY <1>1, <1>2 DEF SaveChanges, TypeOK, DatabaseTypeOK
<1>3. CASE CommitOffline
  BY <1>1, <1>3 DEF CommitOffline
<1>4. CASE \E a \in Admins : SaveEditedDevice(a)
  BY <1>1, <1>4 DEF SaveEditedDevice, TypeOK, DatabaseTypeOK
<1> QED
  BY <1>2, <1>3, <1>4

-----------------------------------------------------------------------------
(* Device keys.                                                            *)

LEMMA KeysInit == Init => DeviceKeysAreUnique
BY DatabaseAssumption DEF Init, DatabaseInit, DeviceKeysAreUnique, Stored, NewDevice

LEMMA KeysNext == TypeOK /\ DeviceKeysAreUnique /\ [Next]_vars => DeviceKeysAreUnique'
<1> SUFFICES ASSUME TypeOK, DeviceKeysAreUnique, DatabaseStep PROVE DeviceKeysAreUnique'
  BY DatabaseSteps
<1>1. devices \in [Devices -> DeviceRow]
  BY DEF TypeOK, DatabaseTypeOK
<1>2. CASE \A d \in Devices : devices'[d].existence = devices[d].existence
  BY <1>2 DEF DeviceKeysAreUnique, Stored
<1>3. ASSUME NEW a \in Admins, InsertDevice(a) PROVE DeviceKeysAreUnique'
  BY <1>1, <1>3 DEF InsertDevice, DeviceKeysAreUnique, Stored, GetByKey
<1>4. ASSUME NEW a \in Admins, DeleteLoadedDevice(a) PROVE DeviceKeysAreUnique'
  <2>1. \A d \in Devices : Stored(d)' => Stored(d)
    BY <1>1, <1>4 DEF DeleteLoadedDevice, DeleteDeviceRow, Stored
  <2> QED
    BY <2>1 DEF DeviceKeysAreUnique
<1>5. ASSUME NEW a \in Admins, SaveEditedRule(a) \/ DeleteLoadedRule(a)
      PROVE  DeviceKeysAreUnique'
  BY <1>5, <1>2 DEF SaveEditedRule, DeleteLoadedRule
<1> QED
  BY <1>2, <1>3, <1>4, <1>5, UpdatesKeepExistence DEF DatabaseStep, dbVars

(* However many registrations of one key race, at most one device gets it. *)
THEOREM KeysStayUnique == Spec => []DeviceKeysAreUnique
BY KeysInit, KeysNext, TypeCorrect, PTL DEF Spec

-----------------------------------------------------------------------------
(* References between rows.                                                *)

LEMMA DanglingInit == Init => NoDanglingHistory
<1> SUFFICES ASSUME Init PROVE NoDanglingHistory
  OBVIOUS
<1>1. telemetry = {} /\ alerts = {} /\ alertRules = RulesAtStart
  BY DEF Init, DatabaseInit
<1>2. \A d \in Registered : devices[d] = NewDevice
  BY DatabaseAssumption DEF Init, DatabaseInit
<1>3. \A d \in Registered : Stored(d)
  BY <1>2 DEF Stored, NewDevice
<1>4. \A q \in Rules : alertRules[q].device = NoDevice \/ Stored(alertRules[q].device)
  BY <1>1, <1>3, DatabaseAssumption
<1> QED
  BY <1>1, <1>4 DEF NoDanglingHistory

(* A commit refers to a stored device and to stored rules.                 *)
LEMMA CommitKeepsReferences ==
  ASSUME TypeOK, NoDanglingHistory, NEW r \in Requests, SaveChanges(r)
  PROVE  NoDanglingHistory'
<1> DEFINE d == ingest[r].device
<1>1. \A e \in Devices : Stored(e)' <=> Stored(e)
  BY UpdatesKeepExistence DEF Stored
<1>2. d \in Devices /\ telemetry \in SUBSET Point /\ alerts \in SUBSET Alert
  BY DEF SaveChanges, TypeOK, ServiceTypeOK, IngestState, IngestSteps, DatabaseTypeOK
<1>3. \A p \in telemetry : p.device \in Devices
  BY <1>2 DEF Point
<1>4. \A a \in alerts : a.device \in Devices
  BY <1>2 DEF Alert
<1>5. alertRules' = alertRules
  BY DEF SaveChanges
<1>6. \A q \in Rules : alertRules[q].device \in Devices \cup {NoDevice}
  BY DEF TypeOK, DatabaseTypeOK, RuleRow
<1>7. CASE UNCHANGED <<telemetry, alerts>>
  BY <1>1, <1>3, <1>4, <1>5, <1>6, <1>7 DEF NoDanglingHistory
<1>8. CASE /\ Stored(d)
           /\ \A q \in Raised(r) : alertRules[q].existence = "stored"
           /\ AddPoints(d, Command[r])
           /\ SaveAlerts(r, d, Raised(r), Resolved(r))
  <2>1. \A p \in telemetry' : p \in telemetry \/ p.device = d
    BY <1>8 DEF AddPoints
  <2>2. \A p \in telemetry' : Stored(p.device)'
    BY <1>1, <1>2, <1>3, <1>8, <2>1 DEF NoDanglingHistory
  <2>3. ASSUME NEW a \in alerts'
        PROVE  Stored(a.device)' /\ (a.rule = NoRule \/ alertRules'[a.rule].existence = "stored")
    <3>1. CASE \E b \in alerts : a.device = b.device /\ a.rule = b.rule
      BY <1>1, <1>4, <1>5, <3>1 DEF NoDanglingHistory
    <3>2. CASE a.device = d /\ a.rule \in Raised(r)
      BY <1>1, <1>2, <1>5, <1>8, <3>2
    <3>3. ASSUME NEW b \in alerts, a = [b EXCEPT !.resolvedBy = r] \/ a = b
          PROVE  a.device = b.device /\ a.rule = b.rule
      BY <1>2, <3>3 DEF Alert
    <3>4. \/ \E b \in alerts : a = [b EXCEPT !.resolvedBy = r] \/ a = b
          \/ \E q \in Raised(r) : a = [id |-> <<r, q>>, device |-> d, rule |-> q,
                                       resolvedBy |-> NoRequest]
      <4> HIDE DEF d
      <4> QED
        BY <1>8 DEF SaveAlerts
    <3>5. CASE \E q \in Raised(r) : a = [id |-> <<r, q>>, device |-> d, rule |-> q,
                                        resolvedBy |-> NoRequest]
      <4> HIDE DEF d
      <4> QED
        BY <3>2, <3>5
    <3> QED
      BY <3>1, <3>3, <3>4, <3>5
  <2> QED
    BY <1>1, <1>5, <1>6, <2>2, <2>3 DEF NoDanglingHistory
<1> QED
  BY <1>7, <1>8 DEF SaveChanges

LEMMA DanglingNext == TypeOK /\ NoDanglingHistory /\ [Next]_vars => NoDanglingHistory'
<1> SUFFICES ASSUME TypeOK, NoDanglingHistory, DatabaseStep PROVE NoDanglingHistory'
  BY DatabaseSteps
<1>1. /\ devices \in [Devices -> DeviceRow]
      /\ alertRules \in [Rules -> RuleRow]
      /\ \A p \in telemetry : p.device \in Devices
      /\ \A x \in alerts : x \in Alert
      /\ \A x \in alerts : x.device \in Devices /\ x.rule \in Rules \cup {NoRule}
      /\ \A q \in Rules : alertRules[q].device \in Devices \cup {NoDevice}
  BY DEF TypeOK, DatabaseTypeOK, Point, Alert, RuleRow
<1>2. CASE UNCHANGED dbVars
  BY <1>2 DEF dbVars, NoDanglingHistory, Stored
<1>3. ASSUME NEW r \in Requests, SaveChanges(r) PROVE NoDanglingHistory'
  BY <1>3, CommitKeepsReferences
<1>4. CASE CommitOffline \/ \E a \in Admins : SaveEditedDevice(a)
  <2>1. \A d \in Devices : Stored(d)' <=> Stored(d)
    BY <1>4, UpdatesKeepExistence DEF Stored
  <2>2. UNCHANGED <<telemetry, alertRules, alerts>>
    BY <1>4 DEF CommitOffline, SaveEditedDevice
  <2> QED
    BY <1>1, <2>1, <2>2 DEF NoDanglingHistory
<1>5. ASSUME NEW a \in Admins, InsertDevice(a) PROVE NoDanglingHistory'
  <2>1. \A d \in Devices : Stored(d) => Stored(d)'
    BY <1>1, <1>5 DEF InsertDevice, Stored, NewDevice
  <2> QED
    BY <1>1, <1>5, <2>1 DEF InsertDevice, NoDanglingHistory
<1>6. ASSUME NEW a \in Admins, DeleteLoadedDevice(a) PROVE NoDanglingHistory'
  <2> DEFINE d == admin[a].device
  <2>1. CASE UNCHANGED <<devices, alertRules>>
    BY <1>1, <1>6, <2>1 DEF DeleteLoadedDevice, NoDanglingHistory, Stored
  <2>2. CASE DeleteDeviceRow(d)
    <3>1. \A e \in Devices : Stored(e) /\ e # d => Stored(e)'
      BY <1>1, <2>2 DEF DeleteDeviceRow, Stored
    <3>2. \A p \in telemetry' : Stored(p.device)'
      BY <1>1, <1>6, <2>2, <3>1 DEF DeleteLoadedDevice, DeleteDeviceRow, HasHistoricalData, NoDanglingHistory
    <3>3. \A q \in Rules : alertRules'[q].existence = alertRules[q].existence
      <4> HIDE DEF d
      <4>1. ASSUME NEW q \in Rules
            PROVE  [alertRules[q] EXCEPT !.device = NoDevice].existence = alertRules[q].existence
        <5>1. alertRules[q] \in RuleRow
          BY <1>1
        <5> QED
          BY <5>1 DEF RuleRow
      <4> QED
        BY <2>2, <4>1 DEF DeleteDeviceRow
    <3>4. \A x \in alerts' : Stored(x.device)' /\ (x.rule = NoRule \/ alertRules'[x.rule].existence = "stored")
      BY <1>1, <1>6, <2>2, <3>1, <3>3 DEF DeleteLoadedDevice, DeleteDeviceRow, HasHistoricalData, NoDanglingHistory
    <3>5. ASSUME NEW q \in Rules, alertRules'[q].existence = "stored"
          PROVE  (alertRules[q].device = NoDevice \/ Stored(alertRules[q].device))'
      <4>1. CASE alertRules[q].device = d
        <5> HIDE DEF d
        <5>1. alertRules[q] \in RuleRow
          BY <1>1
        <5>2. [alertRules[q] EXCEPT !.device = NoDevice].device = NoDevice
          BY <5>1 DEF RuleRow
        <5> QED
          BY <2>2, <4>1, <5>2 DEF DeleteDeviceRow
      <4>2. CASE alertRules[q].device # d
        <5> HIDE DEF d
        <5>1. alertRules'[q] = alertRules[q]
          BY <2>2, <4>2 DEF DeleteDeviceRow
        <5>2. alertRules[q].device = NoDevice \/ Stored(alertRules[q].device)
          BY <3>5, <5>1 DEF NoDanglingHistory
        <5>3. alertRules[q].device \in Devices \cup {NoDevice}
          BY <1>1
        <5> QED
          BY <3>1, <4>2, <5>1, <5>2, <5>3
      <4> QED
        BY <4>1, <4>2
    <3> HIDE DEF d
    <3> QED
      BY <3>2, <3>4, <3>5 DEF NoDanglingHistory, Stored
  <2> QED
    BY <1>6, <2>1, <2>2 DEF DeleteLoadedDevice
<1>7. ASSUME NEW a \in Admins, SaveEditedRule(a) PROVE NoDanglingHistory'
  <2> DEFINE q == admin[a].rule
             loaded == admin[a].loadedRules[q]
             edited == admin[a].editedRules[q]
             row == IF loaded.existence = "unused" THEN edited
                    ELSE SaveRule(alertRules[q], loaded, edited)
  <2>1. UNCHANGED <<devices, telemetry, alerts>>
    BY <1>7 DEF SaveEditedRule
  <2>2. q \in Rules
    BY <1>7 DEF SaveEditedRule, TypeOK, AdminTypeOK, AdminState, DeviceSteps, RuleSteps
  <2>3. CASE alertRules' = alertRules
    BY <1>1, <2>1, <2>3 DEF NoDanglingHistory, Stored
  <2>4. CASE /\ alertRules' = [alertRules EXCEPT ![q] = row]
             /\ alertRules[q].existence = loaded.existence
             /\ row.device = NoDevice \/ Stored(row.device)
    <3>1. alertRules[q].existence = "stored" => row.existence = "stored"
      BY <1>1, <2>2, <2>4 DEF SaveRule, RuleRow
    <3>2. \A x \in Rules : alertRules[x].existence = "stored" => alertRules'[x].existence = "stored"
      <4> HIDE DEF row, q
      <4> QED
        BY <1>1, <2>2, <2>4, <3>1
    <3>3. \A x \in Rules : alertRules'[x] = alertRules[x] \/ alertRules'[x] = row
      <4> HIDE DEF row, q
      <4> QED
        BY <1>1, <2>2, <2>4
    <3> HIDE DEF row, q
    <3> QED
      BY <1>1, <2>1, <2>4, <3>2, <3>3 DEF NoDanglingHistory, Stored
  <2> QED
    BY <1>7, <2>3, <2>4 DEF SaveEditedRule
<1>8. ASSUME NEW a \in Admins, DeleteLoadedRule(a) PROVE NoDanglingHistory'
  <2> DEFINE q == admin[a].rule
  <2>1. UNCHANGED <<devices, telemetry>>
    BY <1>8 DEF DeleteLoadedRule
  <2>2. CASE UNCHANGED <<alertRules, alerts>>
    BY <2>1, <2>2 DEF NoDanglingHistory, Stored
  <2>3. CASE DeleteRuleRow(q)
    <3>1. \A x \in Rules \ {q} : alertRules'[x] = alertRules[x]
      BY <1>1, <2>3 DEF DeleteRuleRow
    <3>2. q \in Rules => alertRules'[q].existence = "deleted"
      BY <1>1, <2>3 DEF DeleteRuleRow, RuleRow
    <3>3. ASSUME NEW x \in alerts'
          PROVE  \E y \in alerts : x.device = y.device /\ (x.rule = NoRule \/ (x.rule = y.rule /\ y.rule # q))
      BY <1>1, <2>3 DEF DeleteRuleRow, Alert
    <3> QED
      BY <1>1, <2>1, <3>1, <3>2, <3>3 DEF NoDanglingHistory, Stored
  <2> QED
    BY <1>8, <2>2, <2>3 DEF DeleteLoadedRule
<1> QED
  BY <1>2, <1>3, <1>4, <1>5, <1>6, <1>7, <1>8 DEF DatabaseStep

(* Whatever checks and saves interleave, history never refers to a device  *)
(* or a rule that is gone.                                                 *)
THEOREM HistoryNeverDangles == Spec => []NoDanglingHistory
BY DanglingInit, DanglingNext, TypeCorrect, PTL DEF Spec

-----------------------------------------------------------------------------
(* What a step does to the rows, the requests and the callers.             *)

(* What a step does to the row of device d.                                *)
Commits(r, d) ==
  /\ SaveChanges(r)
  /\ ingest[r].device = d
  /\ Stored(d)
  /\ devices' = [devices EXCEPT ![d] = SaveDevice(@, ingest[r].loaded, Entity(r))]
  /\ AddPoints(d, Command[r])
  /\ SaveAlerts(r, d, Raised(r), Resolved(r))
  /\ Goto(r, "cacheWrite")

MarksOffline(d) ==
  /\ CommitOffline
  /\ d \in monitor.pending
  /\ monitor' = [monitor EXCEPT !.pc = "nextDevice"]
  /\ devices'[d] = SaveDevice(devices[d], monitor.loaded[d], MarkOffline(monitor.loaded[d]))

SavesEdit(a, d) ==
  /\ admin[a].pc = "saveDevice"
  /\ admin[a].device = d
  /\ devices'[d] = SaveDevice(devices[d], admin[a].loaded, admin[a].edited)

Inserts(a, d) ==
  /\ admin[a].pc = "insertDevice"
  /\ admin[a].device = d
  /\ ~Stored(d)
  /\ devices'[d] = NewDevice
  /\ admin'[a] = Idle

Deletes(d) ==
  /\ Stored(d)
  /\ devices'[d] = [devices[d] EXCEPT !.existence = "deleted"]

RowStep(d) ==
  \/ devices'[d] = devices[d]
  \/ \E r \in Requests : Commits(r, d)
  \/ UNCHANGED telemetry /\ (MarksOffline(d) \/ \E a \in Admins : SavesEdit(a, d))
  \/ UNCHANGED telemetry /\ \E a \in Admins : Inserts(a, d)
  \/ UNCHANGED telemetry /\ Deletes(d)

(* What a step does to the local state of request r.                       *)
Loads(r) ==
  /\ ingest[r].pc = "new"
  /\ Overlap \/ \A s \in Requests : Command[s].key = Command[r].key => ~InFlight(s)
  /\ \E d \in GetByKey(Command[r].key) :
       ingest' = [ingest EXCEPT ![r].pc = "loadRules", ![r].device = d, ![r].loaded = devices[d]]
  /\ UNCHANGED dbVars

Finds(r) ==
  /\ ingest[r].pc = "loadActive"
  /\ ingest'[r] = [ingest[r] EXCEPT
       !.pc = "requireDevice",
       !.active = {a.id : a \in GetActiveByRuleIds(ingest[r].device,
                                  GetApplicableRules(ingest[r].rules, ingest[r].device))}]
  /\ UNCHANGED dbVars

Early == {"loadRules", "loadActive", "requireDevice", "commit"}
Evaluating == {"requireDevice", "commit"}

Proceeds(r) ==
  /\ InFlight(r) /\ ingest'[r].pc \in IngestSteps
  /\ ingest'[r].device = ingest[r].device
  /\ ingest'[r].loaded = ingest[r].loaded
  /\ ingest'[r].pc \in Early => ingest[r].pc \in Early
  /\ ingest'[r].pc \in Evaluating =>
       /\ ingest[r].pc \in Evaluating
       /\ ingest'[r].rules = ingest[r].rules
       /\ ingest'[r].active = ingest[r].active

Ends(r) == \E outcome \in Ended : ingest'[r] = AtPc(outcome)

RequestStep(r) == ingest'[r] = ingest[r] \/ Loads(r) \/ Finds(r) \/ Proceeds(r) \/ Ends(r)

-----------------------------------------------------------------------------
(* The inductive invariants, part by part.                                 *)

Consistent(device) == device.status = "Unknown" <=> device.lastSeenAt = NoTime

RowsConsistent == \A d \in Devices : Consistent(devices[d])
PointsSeen == \A p \in telemetry : devices[p.device].lastSeenAt # NoTime
LoadsConsistent ==
  /\ \A r \in Requests : Consistent(ingest[r].loaded)
  /\ \A d \in Devices : Consistent(monitor.loaded[d])

(* The columns of its health are not an administrator's to edit.           *)
EditsKeepHealth ==
  \A a \in Admins : admin[a].pc = "saveDevice" =>
    /\ admin[a].edited.status = admin[a].loaded.status
    /\ admin[a].edited.lastSeenAt = admin[a].loaded.lastSeenAt

(* An Id is stored once, and deleted before its key is removed.            *)
InsertionsAreNew ==
  \A a, b \in Admins : admin[a].pc = "insertDevice" =>
    /\ devices[admin[a].device].existence = "unused"
    /\ admin[b].pc = "insertDevice" /\ admin[a].device = admin[b].device => a = b
RemovalsAreFinal ==
  \A a \in Admins : admin[a].pc = "removeKey" =>
    devices[admin[a].device].existence = "deleted"

CallerInv == EditsKeepHealth /\ InsertionsAreNew /\ RemovalsAreFinal

ContactInv == RowsConsistent /\ PointsSeen /\ LoadsConsistent

-----------------------------------------------------------------------------
(* Every step is one of these.                                             *)

LEMMA RowSteps == TypeOK /\ [Next]_vars => \A d \in Devices : RowStep(d)
<1> SUFFICES ASSUME TypeOK, DatabaseStep, NEW d \in Devices PROVE RowStep(d)
  BY DatabaseSteps
<1>1. devices \in [Devices -> DeviceRow]
  BY DEF TypeOK, DatabaseTypeOK
<1>2. ASSUME devices'[d] = devices[d] PROVE RowStep(d)
  BY <1>2 DEF RowStep
<1>3. ASSUME NEW r \in Requests, SaveChanges(r) PROVE RowStep(d)
  <2>1. CASE UNCHANGED devices
    BY <1>2, <2>1
  <2>2. CASE ~UNCHANGED devices
    <3> DEFINE e == ingest[r].device
    <3>1. Commits(r, e)
      BY <1>3, <2>2 DEF SaveChanges, Commits
    <3>2. CASE e = d
      BY <3>1, <3>2 DEF RowStep
    <3>3. CASE e # d
      BY <1>1, <1>2, <3>1, <3>3 DEF Commits
    <3> QED
      BY <3>2, <3>3
  <2> QED
    BY <2>1, <2>2
<1>4. CASE CommitOffline
  BY <1>2, <1>4 DEF CommitOffline, MarksOffline, RowStep
<1>5. ASSUME NEW a \in Admins, InsertDevice(a) PROVE RowStep(d)
  <2>1. CASE devices' = [devices EXCEPT ![admin[a].device] = NewDevice]
             /\ GetByKey(KeyOf[admin[a].device]) = {} /\ d = admin[a].device
    BY <1>1, <1>5, <2>1 DEF InsertDevice, Inserts, Done, GetByKey, TypeOK, AdminTypeOK, RowStep
  <2>2. CASE devices'[d] = devices[d]
    BY <1>2, <2>2
  <2> QED
    BY <1>1, <1>5, <2>1, <2>2 DEF InsertDevice
<1>6. ASSUME NEW a \in Admins, SaveEditedDevice(a) PROVE RowStep(d)
  <2>1. UNCHANGED telemetry /\ (devices'[d] = devices[d] \/ SavesEdit(a, d))
    BY <1>1, <1>6 DEF SaveEditedDevice, SavesEdit
  <2> QED
    BY <2>1 DEF RowStep
<1>7. ASSUME NEW a \in Admins, DeleteLoadedDevice(a) PROVE RowStep(d)
  <2>1. UNCHANGED telemetry /\ (devices'[d] = devices[d] \/ Deletes(d))
    BY <1>1, <1>7 DEF DeleteLoadedDevice, DeleteDeviceRow, Deletes
  <2> QED
    BY <2>1 DEF RowStep
<1>8. ASSUME NEW a \in Admins, SaveEditedRule(a) \/ DeleteLoadedRule(a) PROVE RowStep(d)
  BY <1>2, <1>8 DEF SaveEditedRule, DeleteLoadedRule
<1>9. CASE UNCHANGED dbVars
  BY <1>2, <1>9 DEF dbVars
<1> QED
  BY <1>3, <1>4, <1>5, <1>6, <1>7, <1>8, <1>9 DEF DatabaseStep

LEMMA RequestSteps == TypeOK /\ [Next]_vars => \A r \in Requests : RequestStep(r)
<1> SUFFICES ASSUME TypeOK, [Next]_vars, NEW r \in Requests PROVE RequestStep(r)
  OBVIOUS
<1>1. ingest \in [Requests -> IngestState] /\ ingest[r] \in IngestState
  BY DEF TypeOK, ServiceTypeOK
<1>2. ASSUME ingest'[r] = ingest[r] PROVE RequestStep(r)
  BY <1>2 DEF RequestStep
<1>3. ASSUME NEW outcome \in Ended, End(r, outcome) PROVE RequestStep(r)
  BY <1>1, <1>3 DEF End, Ends, RequestStep
<1>4. ASSUME NEW pc \in IngestSteps \ Early, Goto(r, pc), InFlight(r) PROVE RequestStep(r)
  <2>1. /\ ingest'[r].pc = pc
        /\ ingest'[r].device = ingest[r].device
        /\ ingest'[r].loaded = ingest[r].loaded
    BY <1>1, <1>4 DEF Goto, IngestState
  <2> QED
    BY <1>4, <2>1 DEF Early, Evaluating, Proceeds, RequestStep
<1>5. ASSUME NEW state, Notify(r, state), InFlight(r) PROVE RequestStep(r)
  <2>1. /\ ingest'[r].pc = "publishState"
        /\ ingest'[r].device = ingest[r].device
        /\ ingest'[r].loaded = ingest[r].loaded
    BY <1>1, <1>5 DEF Notify, IngestState
  <2> QED
    BY <1>5, <2>1 DEF Early, Evaluating, IngestSteps, Proceeds, RequestStep
<1>6. ASSUME Ingest(r) \/ AbortIngest(r) PROVE RequestStep(r)
  <2>1. CASE LoadDevice(r)
    <3>1. CASE End(r, "refused")
      BY <1>3, <3>1 DEF Ended
    <3>2. CASE ~End(r, "refused")
      BY <2>1, <3>2 DEF LoadDevice, Loads, RequestStep
    <3> QED
      BY <3>1, <3>2
  <2>2. CASE LoadRules(r)
    <3>1. /\ ingest'[r].pc = "loadActive"
          /\ ingest'[r].device = ingest[r].device
          /\ ingest'[r].loaded = ingest[r].loaded
      BY <1>1, <2>2 DEF LoadRules, IngestState
    <3> QED
      BY <2>2, <3>1 DEF LoadRules, InFlight, IngestSteps, Early, Evaluating, Proceeds, RequestStep
  <2>3. CASE LoadActiveAlerts(r)
    <3>1. CASE End(r, "failed")
      BY <1>3, <3>1 DEF Ended
    <3>2. CASE ~End(r, "failed")
      BY <1>1, <2>3, <3>2 DEF LoadActiveAlerts, Finds, RequestStep
    <3> QED
      BY <3>1, <3>2
  <2>4. CASE RequireDevice(r)
    <3>1. CASE Goto(r, "commit")
      <4>1. /\ ingest'[r].pc = "commit"
            /\ ingest'[r].device = ingest[r].device
            /\ ingest'[r].loaded = ingest[r].loaded
            /\ ingest'[r].rules = ingest[r].rules
            /\ ingest'[r].active = ingest[r].active
        BY <1>1, <3>1 DEF Goto, IngestState
      <4> QED
        BY <2>4, <4>1 DEF RequireDevice, InFlight, IngestSteps, Early, Evaluating, Proceeds, RequestStep
    <3> QED
      BY <1>3, <2>4, <3>1 DEF RequireDevice, Ended
  <2>5. CASE SaveChanges(r) \/ CacheWrite(r) \/ CacheRead(r) \/ PublishState(r) \/ PublishStatus(r)
    <3>1. InFlight(r)
      BY <2>5 DEF SaveChanges, CacheWrite, CacheRead, PublishState, PublishStatus, InFlight, IngestSteps
    <3> QED
      BY <1>3, <1>4, <1>5, <2>5, <3>1 DEF SaveChanges, CacheWrite, CacheRead, PublishState,
         PublishStatus, IngestSteps, Early, Ended
  <2>6. CASE RebuildState(r)
    BY <1>5, <2>6 DEF RebuildState, InFlight, IngestSteps
  <2>7. CASE PublishAlerts(r) \/ AbortIngest(r)
    BY <1>3, <2>7 DEF PublishAlerts, AbortIngest, Ended
  <2> QED
    BY <1>6, <2>1, <2>2, <2>3, <2>4, <2>5, <2>6, <2>7 DEF Ingest
<1>7. ASSUME NEW s \in Requests, s # r, Ingest(s) \/ AbortIngest(s) PROVE RequestStep(r)
  <2>1. ingest'[r] = ingest[r]
    BY <1>1, <1>7 DEF Ingest, LoadDevice, LoadRules, LoadActiveAlerts, RequireDevice, SaveChanges,
       CacheWrite, CacheRead, RebuildState, PublishState, PublishStatus, PublishAlerts,
       AbortIngest, Goto, End, Notify
  <2> QED
    BY <1>2, <2>1
<1>8. ASSUME NEW g \in Readers, Read(g) \/ AbortReader(g) PROVE RequestStep(r)
  BY <1>2, <1>8 DEF Read, GetState, ReadCachedState, ReadHistory, WriteRebuiltState, AbortReader
<1>9. ASSUME MonitorStep \/ AdminStep \/ ExpiryStep \/ UNCHANGED vars PROVE RequestStep(r)
  BY <1>2, <1>9 DEF MonitorStep, AdminStep, ExpiryStep, vars, serviceVars
<1> QED
  BY <1>6, <1>7, <1>8, <1>9 DEF Next, ServiceStep

-----------------------------------------------------------------------------
(* Callers of the management endpoints.                                    *)

LEMMA ExistenceSteps ==
  ASSUME TypeOK, NEW d \in Devices, RowStep(d)
  PROVE  \/ devices'[d].existence = devices[d].existence
         \/ \E a \in Admins : Inserts(a, d)
         \/ Deletes(d)
<1>1. devices \in [Devices -> DeviceRow] /\ devices[d] \in DeviceRow
  BY DEF TypeOK, DatabaseTypeOK
<1>2. ASSUME NEW loaded, NEW entity
      PROVE  SaveDevice(devices[d], loaded, entity).existence = devices[d].existence
  BY <1>1 DEF SaveDevice, DeviceRow
<1>3. ASSUME NEW r \in Requests, Commits(r, d)
      PROVE  devices'[d].existence = devices[d].existence
  BY <1>1, <1>2, <1>3 DEF Commits
<1> QED
  BY <1>2, <1>3 DEF RowStep, MarksOffline, SavesEdit

(* What a step does to the local state of caller a.                        *)
Registers(a) ==
  \E d \in Devices :
    /\ devices[d].existence = "unused"
    /\ \A b \in Admins : admin[b].pc = "insertDevice" => admin[b].device # d
    /\ admin' = [admin EXCEPT ![a].pc = "insertDevice", ![a].device = d]
    /\ UNCHANGED dbVars

Edits(a) ==
  /\ admin'[a].pc = "saveDevice"
  /\ admin'[a].edited.status = admin'[a].loaded.status
  /\ admin'[a].edited.lastSeenAt = admin'[a].loaded.lastSeenAt

Removes(a) ==
  /\ admin'[a].pc = "removeKey"
  /\ devices'[admin'[a].device].existence = "deleted"

CallerStep(a) ==
  \/ admin'[a] = admin[a]
  \/ admin'[a].pc \notin {"saveDevice", "insertDevice", "removeKey"}
  \/ Registers(a) \/ Edits(a) \/ Removes(a)

LEMMA CallerSteps == TypeOK /\ [Next]_vars => \A a \in Admins : CallerStep(a)
<1> SUFFICES ASSUME TypeOK, [Next]_vars, NEW a \in Admins PROVE CallerStep(a)
  OBVIOUS
<1>1. admin \in [Admins -> AdminState] /\ admin[a] \in AdminState
  BY DEF TypeOK, AdminTypeOK
<1>2. ASSUME admin'[a] = admin[a] PROVE CallerStep(a)
  BY <1>2 DEF CallerStep
<1>3. ASSUME admin'[a].pc \notin {"saveDevice", "insertDevice", "removeKey"} PROVE CallerStep(a)
  BY <1>3 DEF CallerStep
<1>4. ASSUME Done(a) PROVE CallerStep(a)
  BY <1>1, <1>3, <1>4 DEF Done, Idle
<1>5. ASSUME Administer(a) \/ AbortAdmin(a) PROVE CallerStep(a)
  <2>1. ASSUME NEW d \in Devices, NEW isEnabled \in BOOLEAN, EditDevice(a, d, isEnabled)
        PROVE  CallerStep(a)
    <3>1. /\ admin'[a].pc = "saveDevice"
          /\ admin'[a].loaded = devices[d]
          /\ admin'[a].edited = UpdateDetails(devices[d], isEnabled)
      BY <1>1, <2>1 DEF EditDevice, AdminState
    <3>2. devices[d] \in DeviceRow
      BY DEF TypeOK, DatabaseTypeOK
    <3> QED
      BY <3>1, <3>2 DEF UpdateDetails, DeviceRow, Edits, CallerStep
  <2>2. ASSUME NEW d \in Devices, RegisterDevice(a, d) PROVE CallerStep(a)
    BY <2>2 DEF RegisterDevice, Registers, CallerStep
  <2>3. ASSUME NEW d \in Devices, DeleteDevice(a, d) PROVE CallerStep(a)
    BY <1>1, <1>3, <2>3 DEF DeleteDevice, AdminState
  <2>4. ASSUME NEW q \in Rules, NEW form \in RuleForms, CreateRule(a, q, form) \/ EditRule(a, q, form)
        PROVE  CallerStep(a)
    BY <1>1, <1>3, <2>4 DEF CreateRule, EditRule, StartRule, AdminState
  <2>5. ASSUME NEW q \in Rules, DeleteRule(a, q) PROVE CallerStep(a)
    BY <1>1, <1>3, <2>5 DEF DeleteRule, AdminState
  <2>6. CASE CheckHistory(a) \/ CheckDevice(a)
    BY <1>1, <1>3, <1>4, <2>6 DEF CheckHistory, CheckDevice, AdminState
  <2>7. CASE DeleteLoadedDevice(a)
    <3> DEFINE d == admin[a].device
    <3>1. CASE DeleteDeviceRow(d) /\ admin' = [admin EXCEPT ![a].pc = "removeKey"]
      <4>1. admin'[a].pc = "removeKey" /\ admin'[a].device = d
        BY <1>1, <3>1 DEF AdminState
      <4>2. d \in Devices
        BY <1>1, <2>7 DEF DeleteLoadedDevice, AdminState, DeviceSteps, RuleSteps
      <4>3. devices'[d].existence = "deleted"
        BY <3>1, <4>2 DEF DeleteDeviceRow, TypeOK, DatabaseTypeOK, DeviceRow
      <4> HIDE DEF d
      <4> QED
        BY <4>1, <4>3 DEF Removes, CallerStep
    <3> QED
      BY <1>4, <2>7, <3>1 DEF DeleteLoadedDevice
  <2> QED
    BY <1>4, <1>5, <2>1, <2>2, <2>3, <2>4, <2>5, <2>6, <2>7 DEF Administer, AdvanceAdmin,
       InsertDevice, SaveEditedDevice, RemoveKey, SaveEditedRule, DeleteLoadedRule, AbortAdmin
<1>6. ASSUME NEW b \in Admins, Administer(b) \/ AbortAdmin(b), b # a PROVE CallerStep(a)
  <2>1. admin'[a] = admin[a]
    BY <1>1, <1>6 DEF Administer, AdvanceAdmin, RegisterDevice, DeleteDevice, EditDevice,
       InsertDevice, SaveEditedDevice, CheckHistory, DeleteLoadedDevice, RemoveKey, CreateRule,
       EditRule, StartRule, CheckDevice, SaveEditedRule, DeleteRule, DeleteLoadedRule, AbortAdmin, Done
  <2> QED
    BY <1>2, <2>1
<1>7. ASSUME ServiceStep \/ MonitorStep \/ ExpiryStep \/ UNCHANGED vars PROVE CallerStep(a)
  BY <1>2, <1>7 DEF ServiceStep, MonitorStep, ExpiryStep, vars
<1> QED
  BY <1>5, <1>6, <1>7 DEF Next, AdminStep

LEMMA CallerNext == TypeOK /\ CallerInv /\ [Next]_vars => CallerInv'
<1> SUFFICES ASSUME TypeOK, CallerInv, [Next]_vars PROVE CallerInv'
  OBVIOUS
<1>1. EditsKeepHealth'
  <2> SUFFICES ASSUME NEW a \in Admins, admin'[a].pc = "saveDevice"
               PROVE  /\ admin'[a].edited.status = admin'[a].loaded.status
                      /\ admin'[a].edited.lastSeenAt = admin'[a].loaded.lastSeenAt
    BY DEF EditsKeepHealth
  <2>1. CASE Registers(a)
    BY <2>1 DEF Registers, TypeOK, AdminTypeOK, AdminState
  <2> QED
    BY <2>1, CallerSteps DEF CallerStep, Edits, Removes, CallerInv, EditsKeepHealth
<1>2. \A a \in Admins : admin[a].pc \in DeviceSteps => admin[a].device \in Devices
  BY DEF TypeOK, AdminTypeOK, AdminState
<1>3. \A a \in Admins : admin'[a].pc = "insertDevice" => admin'[a] = admin[a] \/ Registers(a)
  BY CallerSteps DEF CallerStep, Edits, Removes
<1>4. ASSUME NEW a \in Admins, admin'[a].pc = "insertDevice", admin'[a] = admin[a]
      PROVE  devices'[admin'[a].device].existence = "unused"
  <2> DEFINE d == admin[a].device
  <2>1. d \in Devices /\ devices[d].existence = "unused"
    BY <1>2, <1>4 DEF DeviceSteps, CallerInv, InsertionsAreNew
  <2>2. ~Deletes(d)
    BY <2>1 DEF Deletes, Stored
  <2>3. ASSUME NEW b \in Admins, Inserts(b, d) PROVE FALSE
    <3>1. a = b
      BY <1>4, <2>3 DEF Inserts, CallerInv, InsertionsAreNew
    <3> QED
      BY <1>4, <2>3, <3>1 DEF Inserts, Idle
  <2>4. devices'[d].existence = devices[d].existence
    <3>1. RowStep(d)
      BY <2>1, RowSteps
    <3> HIDE DEF d
    <3> QED
      BY <2>1, <2>2, <2>3, <3>1, ExistenceSteps
  <2> QED
    BY <1>4, <2>1, <2>4
<1>5. InsertionsAreNew'
  <2> SUFFICES ASSUME NEW a \in Admins, NEW b \in Admins, admin'[a].pc = "insertDevice"
               PROVE  /\ devices'[admin'[a].device].existence = "unused"
                      /\ admin'[b].pc = "insertDevice" /\ admin'[a].device = admin'[b].device => a = b
    BY DEF InsertionsAreNew
  <2>1. ASSUME NEW x \in Admins, Registers(x)
        PROVE  /\ devices'[admin'[x].device].existence = "unused"
               /\ \A y \in Admins \ {x} : admin'[y] = admin[y]
               /\ \A y \in Admins \ {x} : admin[y].pc = "insertDevice" => admin[y].device # admin'[x].device
    <3>1. PICK d \in Devices :
            /\ devices[d].existence = "unused"
            /\ \A y \in Admins : admin[y].pc = "insertDevice" => admin[y].device # d
            /\ admin' = [admin EXCEPT ![x].pc = "insertDevice", ![x].device = d]
            /\ UNCHANGED dbVars
      BY <2>1 DEF Registers
    <3>2. admin'[x].device = d /\ \A y \in Admins \ {x} : admin'[y] = admin[y]
      BY <3>1 DEF TypeOK, AdminTypeOK, AdminState
    <3> QED
      BY <3>1, <3>2 DEF dbVars
  <2>2. CASE Registers(a)
    BY <2>1, <2>2
  <2>3. CASE Registers(b)
    BY <1>3, <1>4, <2>1, <2>3
  <2>4. CASE ~Registers(a) /\ ~Registers(b)
    BY <1>3, <1>4, <2>4 DEF CallerInv, InsertionsAreNew
  <2> QED
    BY <2>2, <2>3, <2>4
<1>6. RemovalsAreFinal'
  <2> SUFFICES ASSUME NEW a \in Admins, admin'[a].pc = "removeKey"
               PROVE  devices'[admin'[a].device].existence = "deleted"
    BY DEF RemovalsAreFinal
  <2>1. CASE admin'[a] = admin[a]
    <3> DEFINE d == admin[a].device
    <3>1. d \in Devices /\ devices[d].existence = "deleted"
      BY <1>2, <2>1 DEF DeviceSteps, CallerInv, RemovalsAreFinal
    <3>2. ~Deletes(d) /\ \A b \in Admins : ~Inserts(b, d)
      BY <3>1 DEF Deletes, Stored, Inserts, CallerInv, InsertionsAreNew
    <3>3. RowStep(d)
      BY <3>1, RowSteps
    <3>4. devices'[d].existence = devices[d].existence
      <4> HIDE DEF d
      <4> QED
        BY <3>1, <3>2, <3>3, ExistenceSteps
    <3> QED
      BY <2>1, <3>1, <3>4
  <2>2. CASE Registers(a)
    BY <2>2 DEF Registers, TypeOK, AdminTypeOK, AdminState
  <2> QED
    BY <2>1, <2>2, CallerSteps DEF CallerStep, Edits, Removes
<1> QED
  BY <1>1, <1>5, <1>6 DEF CallerInv

LEMMA CallersHold == Spec => []CallerInv
<1>1. Init => CallerInv
  BY DEF Init, AdminInit, Idle, CallerInv, EditsKeepHealth, InsertionsAreNew, RemovalsAreFinal
<1> QED
  BY <1>1, CallerNext, TypeCorrect, PTL DEF Spec

-----------------------------------------------------------------------------
(* The health columns and the history.                                     *)

LEMMA SavedColumns ==
  ASSUME NEW current \in DeviceRow, NEW loaded, NEW entity
  PROVE  /\ SaveDevice(current, loaded, entity).status =
              IF entity.status = loaded.status THEN current.status ELSE entity.status
         /\ SaveDevice(current, loaded, entity).lastSeenAt =
              IF entity.lastSeenAt = loaded.lastSeenAt THEN current.lastSeenAt ELSE entity.lastSeenAt
BY DEF SaveDevice, Column, DeviceRow

LEMMA RecordedColumns ==
  ASSUME NEW device \in DeviceRow, NEW t \in Time
  PROVE  /\ RecordTelemetry(device, t).status = "Online"
         /\ RecordTelemetry(device, t).lastSeenAt =
              IF device.lastSeenAt = NoTime \/ t > device.lastSeenAt THEN t ELSE device.lastSeenAt
         /\ RecordTelemetry(device, t).lastSeenAt # NoTime
         /\ RecordTelemetry(device, t).lastSeenAt >= t
         /\ RecordTelemetry(device, t).lastSeenAt >= device.lastSeenAt
BY DEF RecordTelemetry, DeviceRow, OptionalTime, NoTime, Time

LEMMA MarkedColumns ==
  ASSUME NEW device \in DeviceRow
  PROVE  /\ MarkOffline(device).status = IF device.status = "Online" THEN "Offline" ELSE device.status
         /\ MarkOffline(device).lastSeenAt = device.lastSeenAt
BY DEF MarkOffline, DeviceRow

(* A device that was loaded as seen has a point, so its row says so too.   *)
LEMMA SeenIsKept ==
  ASSUME TypeOK, ContactInv, NEW d \in Devices, NEW device,
         Seen(telemetry, d, device.lastSeenAt), device.lastSeenAt # NoTime
  PROVE  devices[d].lastSeenAt # NoTime /\ devices[d].status # "Unknown"
BY DEF Seen, ContactInv, PointsSeen, RowsConsistent, Consistent

LEMMA CommitIsContact ==
  ASSUME TypeOK, HistoryInv, ContactInv, NEW r \in Requests, NEW d \in Devices, Commits(r, d)
  PROVE  devices'[d].lastSeenAt # NoTime /\ devices'[d].status # "Unknown"
<1> DEFINE loaded == ingest[r].loaded
<1>1. devices[d] \in DeviceRow /\ loaded \in DeviceRow
  BY IngestFieldTypes DEF TypeOK, DatabaseTypeOK
<1>2. Command[r].timestamp \in Time
  BY DomainAssumption DEF IngestTelemetryCommand
<1>3. devices'[d] = SaveDevice(devices[d], loaded, Entity(r))
  BY DEF Commits, TypeOK, DatabaseTypeOK
<1>4. Entity(r).status = "Online" /\ Entity(r).lastSeenAt # NoTime
  BY <1>1, <1>2, RecordedColumns DEF Entity
<1>5. Consistent(loaded) /\ Seen(telemetry, d, loaded.lastSeenAt)
  BY DEF ContactInv, LoadsConsistent, HistoryInv, IngestPast, Commits
<1>6. CASE loaded.lastSeenAt = NoTime
  <2>1. loaded.status = "Unknown"
    BY <1>5, <1>6 DEF Consistent
  <2> HIDE DEF loaded
  <2> QED
    BY <1>1, <1>3, <1>4, <1>6, <2>1, SavedColumns
<1>7. CASE loaded.lastSeenAt # NoTime
  <2>1. devices[d].lastSeenAt # NoTime /\ devices[d].status # "Unknown"
    BY <1>5, <1>7, SeenIsKept
  <2> HIDE DEF loaded
  <2> QED
    BY <1>1, <1>3, <1>4, <2>1, SavedColumns
<1> QED
  BY <1>6, <1>7

LEMMA OfflineIsConsistent ==
  ASSUME TypeOK, HistoryInv, ContactInv, NEW d \in Devices, MarksOffline(d)
  PROVE  devices'[d].lastSeenAt = devices[d].lastSeenAt /\ Consistent(devices'[d])
<1> DEFINE loaded == monitor.loaded[d]
<1>1. devices[d] \in DeviceRow /\ loaded \in DeviceRow
  BY DEF TypeOK, DatabaseTypeOK, MonitorTypeOK, MonitorState
<1>2. Consistent(loaded) /\ Seen(telemetry, d, loaded.lastSeenAt) /\ Consistent(devices[d])
  BY DEF ContactInv, LoadsConsistent, RowsConsistent, HistoryInv, MonitorPast
<1>3. devices'[d] = SaveDevice(devices[d], loaded, MarkOffline(loaded))
  BY DEF MarksOffline
<1>4. devices'[d].lastSeenAt = devices[d].lastSeenAt
  <2> HIDE DEF loaded
  <2> QED
    BY <1>1, <1>3, SavedColumns, MarkedColumns
<1>5. CASE loaded.status # "Online"
  <2>1. devices'[d].status = devices[d].status
    <3> HIDE DEF loaded
    <3> QED
      BY <1>1, <1>3, <1>5, SavedColumns, MarkedColumns
  <2> QED
    BY <1>2, <1>4, <2>1 DEF Consistent
<1>6. CASE loaded.status = "Online"
  <2>1. devices[d].lastSeenAt # NoTime
    BY <1>2, <1>6, SeenIsKept DEF Consistent
  <2>2. devices'[d].status = "Offline"
    <3> HIDE DEF loaded
    <3> QED
      BY <1>1, <1>3, <1>6, SavedColumns, MarkedColumns
  <2> QED
    BY <1>4, <2>1, <2>2 DEF Consistent
<1> QED
  BY <1>4, <1>5, <1>6

LEMMA EditKeepsHealth ==
  ASSUME TypeOK, CallerInv, NEW a \in Admins, NEW d \in Devices, SavesEdit(a, d)
  PROVE  devices'[d].lastSeenAt = devices[d].lastSeenAt /\ devices'[d].status = devices[d].status
<1>1. devices[d] \in DeviceRow
  BY DEF TypeOK, DatabaseTypeOK
<1> QED
  BY <1>1, SavedColumns DEF SavesEdit, CallerInv, EditsKeepHealth

LEMMA DeletionKeepsHealth ==
  ASSUME TypeOK, NEW d \in Devices, Deletes(d)
  PROVE  devices'[d].lastSeenAt = devices[d].lastSeenAt /\ devices'[d].status = devices[d].status
<1>1. devices[d] \in DeviceRow
  BY DEF TypeOK, DatabaseTypeOK
<1> QED
  BY <1>1 DEF Deletes, DeviceRow

(* A row of a step without a commit: the columns keep their history.       *)
LEMMA QuietRows ==
  ASSUME TypeOK, HistoryInv, ContactInv, CallerInv, NEW d \in Devices, RowStep(d),
         \A r \in Requests : ~Commits(r, d)
  PROVE  /\ Consistent(devices'[d])
         /\ devices'[d].lastSeenAt = devices[d].lastSeenAt \/ \E a \in Admins : Inserts(a, d)
<1>1. Consistent(devices[d])
  BY DEF ContactInv, RowsConsistent
<1>2. CASE \E a \in Admins : Inserts(a, d)
  BY <1>2 DEF Inserts, NewDevice, Consistent
<1>3. CASE MarksOffline(d)
  BY <1>3, OfflineIsConsistent
<1>4. CASE \/ devices'[d] = devices[d]
           \/ \E a \in Admins : SavesEdit(a, d)
           \/ Deletes(d)
  BY <1>1, <1>4, EditKeepsHealth, DeletionKeepsHealth DEF Consistent
<1> QED
  BY <1>2, <1>3, <1>4 DEF RowStep

(* A point is new because its request commits.                             *)
LEMMA PointOrigins ==
  ASSUME TypeOK, [Next]_vars, NEW p \in telemetry', p \notin telemetry
  PROVE  \E r \in Requests : /\ Commits(r, p.device)
                             /\ p.timestamp = Command[r].timestamp
                             /\ Includes(Command[r], p.metric)
<1>1. PICK r \in Requests : SaveChanges(r) /\ ingest[r].device \in Devices
  BY TelemetrySteps DEF TelemetryStep
<1>2. Commits(r, ingest[r].device)
  BY <1>1 DEF SaveChanges, Commits
<1>3. PICK i \in DOMAIN Command[r].metrics :
        p = [id |-> nextId + i, device |-> ingest[r].device,
             metric |-> Command[r].metrics[i].metric,
             value |-> Command[r].metrics[i].value, timestamp |-> Command[r].timestamp]
  BY <1>2 DEF Commits, AddPoints
<1> QED
  BY <1>2, <1>3 DEF Includes

LEMMA ContactNext ==
  TypeOK /\ HistoryInv /\ NoDanglingHistory /\ CallerInv /\ ContactInv /\ [Next]_vars => ContactInv'
<1> SUFFICES ASSUME TypeOK, HistoryInv, NoDanglingHistory, CallerInv, ContactInv, [Next]_vars
             PROVE  ContactInv'
  OBVIOUS
<1>1. RowsConsistent'
  <2> SUFFICES ASSUME NEW d \in Devices PROVE Consistent(devices'[d])
    BY DEF RowsConsistent, Consistent
  <2>1. ASSUME NEW r \in Requests, Commits(r, d) PROVE Consistent(devices'[d])
    BY <2>1, CommitIsContact DEF Consistent
  <2> QED
    BY <2>1, RowSteps, QuietRows
<1>2. PointsSeen'
  <2> SUFFICES ASSUME NEW p \in telemetry' PROVE devices'[p.device].lastSeenAt # NoTime
    BY DEF PointsSeen
  <2> DEFINE d == p.device
  <2>1. d \in Devices
    BY TypeNext DEF TypeOK, DatabaseTypeOK, Point
  <2>2. CASE \E r \in Requests : Commits(r, d)
    BY <2>1, <2>2, CommitIsContact
  <2>3. CASE \A r \in Requests : ~Commits(r, d)
    <3>1. p \in telemetry
      BY <2>3, PointOrigins
    <3>2. Stored(d) /\ devices[d].lastSeenAt # NoTime
      BY <3>1 DEF NoDanglingHistory, ContactInv, PointsSeen
    <3>3. RowStep(d)
      BY <2>1, RowSteps
    <3> HIDE DEF d
    <3>4. devices'[d].lastSeenAt = devices[d].lastSeenAt
      BY <2>1, <2>3, <3>2, <3>3, QuietRows DEF Inserts
    <3> QED
      BY <3>2, <3>4 DEF d
  <2> QED
    BY <2>2, <2>3
<1>3. LoadsConsistent'
  <2>1. ASSUME NEW r \in Requests PROVE Consistent(ingest'[r].loaded)
    <3>1. CASE ingest'[r].loaded = ingest[r].loaded
      BY <3>1 DEF ContactInv, LoadsConsistent
    <3>2. CASE ingest'[r].loaded = NewDevice
      BY <3>2 DEF NewDevice, Consistent
    <3>3. CASE Loads(r)
      <4>1. \E d \in Devices : ingest'[r].loaded = devices[d]
        BY <3>3 DEF Loads, GetByKey, TypeOK, ServiceTypeOK, IngestState
      <4> QED
        BY <4>1 DEF ContactInv, RowsConsistent
    <3>4. CASE Finds(r)
      BY <3>1, <3>4, IngestFieldTypes DEF Finds, IngestState
    <3>5. CASE Proceeds(r)
      BY <3>1, <3>5 DEF Proceeds
    <3>6. CASE Ends(r)
      BY <3>2, <3>6 DEF Ends, AtPc
    <3>7. RequestStep(r)
      BY RequestSteps
    <3> QED
      BY <3>1, <3>3, <3>4, <3>5, <3>6, <3>7 DEF RequestStep
  <2>2. ASSUME NEW d \in Devices PROVE Consistent(monitor'.loaded[d])
    <3> DEFINE Goal == Consistent(monitor'.loaded[d])
    <3>1. monitor \in MonitorState
      BY DEF TypeOK, MonitorTypeOK
    <3>2. ASSUME monitor'.loaded = monitor.loaded PROVE Goal
      BY <3>2 DEF ContactInv, LoadsConsistent
    <3>3. ASSUME monitor' = Waiting PROVE Goal
      BY <3>3 DEF Waiting, NewDevice, Consistent
    <3>4. ASSUME FindStaleDevices PROVE Goal
      <4>1. monitor'.loaded = devices
        BY <3>1, <3>4 DEF FindStaleDevices, MonitorState
      <4> QED
        BY <4>1 DEF ContactInv, RowsConsistent
    <3> HIDE DEF Goal
    <3>5. ASSUME MonitorPass \/ AbortPass \/ Tick PROVE Goal
      BY <3>1, <3>2, <3>3, <3>4, <3>5 DEF MonitorPass, CommitOffline, NextDevice, ReadState,
         ReadHistoryForState, WriteState, PublishOffline, PublishOfflineState, AbortPass, Tick,
         MonitorState
    <3>6. ASSUME ServiceStep \/ AdminStep \/ ExpiryStep \/ UNCHANGED vars PROVE Goal
      BY <3>2, <3>6 DEF ServiceStep, AdminStep, ExpiryStep, vars, monitorVars
    <3> QED
      BY <3>5, <3>6 DEF Next, MonitorStep, Goal
  <2> QED
    BY <2>1, <2>2 DEF LoadsConsistent, Consistent
<1> QED
  BY <1>1, <1>2, <1>3 DEF ContactInv

LEMMA ContactInit == Init => ContactInv
<1> SUFFICES ASSUME Init PROVE ContactInv
  OBVIOUS
<1>1. \A d \in Devices : devices[d].status = "Unknown" /\ devices[d].lastSeenAt = NoTime
  BY DEF Init, DatabaseInit, NewDevice
<1> QED
  BY <1>1 DEF Init, DatabaseInit, ServiceInit, AtPc, MonitorInit, Waiting, NewDevice,
     ContactInv, RowsConsistent, PointsSeen, LoadsConsistent, Consistent

LEMMA ContactHolds == Spec => [](TypeOK /\ HistoryInv /\ NoDanglingHistory /\ CallerInv /\ ContactInv)
BY ContactInit, ContactNext, HistoryHolds, HistoryNeverDangles, CallersHold, PTL DEF Spec

(* A device is Unknown exactly as long as it has no telemetry, for any     *)
(* overlap of requests, passes and edits and any failures: a save of what  *)
(* was loaded earlier never undoes the first contact.                      *)
THEOREM UnknownUntilSeen == Spec => []UnknownMeansNeverSeen
<1>1. HistoryInv /\ ContactInv => UnknownMeansNeverSeen
  <2> SUFFICES ASSUME HistoryInv, ContactInv, NEW d \in Devices
               PROVE  /\ devices[d].status = "Unknown" <=> devices[d].lastSeenAt = NoTime
                      /\ devices[d].status = "Unknown" <=> \A p \in telemetry : p.device # d
    BY DEF UnknownMeansNeverSeen
  <2>1. Consistent(devices[d]) /\ Seen(telemetry, d, devices[d].lastSeenAt)
    BY DEF ContactInv, RowsConsistent, HistoryInv, RowsSeen
  <2> QED
    BY <2>1 DEF Consistent, Seen, ContactInv, PointsSeen
<1> QED
  BY <1>1, ContactHolds, PTL
=============================================================================

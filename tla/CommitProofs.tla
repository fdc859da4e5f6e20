---------------------------- MODULE CommitProofs ----------------------------
(***************************************************************************)
(* What overlapping commits leave in the database and in the cache:        *)
(* no committed point is lost on its way to the cache, and every committed *)
(* change of a status is announced or owed to the dashboards; and for      *)
(* devices that wait for the answer, LastSeenAt is the newest timestamp, a *)
(* rule has one active alert, and a cache that nothing stale is written to *)
(* mirrors the database.                                                   *)
(***************************************************************************)
EXTENDS IntegrityProofs

-----------------------------------------------------------------------------
(* Requests that do not overlap.                                           *)

(* One request per key; what it loaded is what the database still has.     *)
RequestsKnowTheirDevice ==
  \A r \in Requests : InFlight(r) =>
    /\ devices[ingest[r].device].existence # "unused"
    /\ KeyOf[ingest[r].device] = Command[r].key
OneRequestPerKey ==
  \A r, s \in Requests : InFlight(r) /\ InFlight(s) /\ Command[r].key = Command[s].key => r = s
LoadedIsCurrent ==
  \A r \in Requests : ingest[r].pc \in Early =>
    ingest[r].loaded.lastSeenAt = devices[ingest[r].device].lastSeenAt
ActiveIsCurrent ==
  \A r \in Requests : ingest[r].pc \in Evaluating =>
    \A b \in alerts :
      /\ IsActive(b) /\ b.device = ingest[r].device
      /\ b.rule \in GetApplicableRules(ingest[r].rules, ingest[r].device)
      => b.id \in ingest[r].active
AlertsNameTheirRule == \A b \in alerts : b.rule \in {NoRule, b.id[2]}

QueueInv == RequestsKnowTheirDevice /\ OneRequestPerKey
SerialInv == LoadedIsCurrent /\ ActiveIsCurrent /\ AlertsNameTheirRule


LEMMA CommitsInFlight ==
  ASSUME NEW r \in Requests, NEW d, Commits(r, d)
  PROVE  ingest[r].pc = "commit" /\ InFlight(r) /\ ingest[r].device = d
BY DEF Commits, SaveChanges, InFlight, IngestSteps

(* Only its own steps change a request.                                    *)
LEMMA OwnSteps ==
  ASSUME TypeOK, [Next]_vars, NEW r \in Requests
  PROVE  ingest'[r] = ingest[r] \/ Ingest(r) \/ AbortIngest(r)
<1> DEFINE Goal == ingest'[r] = ingest[r] \/ Ingest(r) \/ AbortIngest(r)
<1>1. ingest \in [Requests -> IngestState]
  BY DEF TypeOK, ServiceTypeOK
<1>2. ASSUME ingest'[r] = ingest[r] PROVE Goal
  BY <1>2
<1>3. ASSUME Ingest(r) \/ AbortIngest(r) PROVE Goal
  BY <1>3
<1> HIDE DEF Goal
<1>4. ASSUME NEW s \in Requests, s # r, Ingest(s) \/ AbortIngest(s) PROVE Goal
  <2>1. ingest'[r] = ingest[r]
    BY <1>1, <1>4 DEF Ingest, LoadDevice, LoadRules, LoadActiveAlerts, RequireDevice, SaveChanges,
       CacheWrite, CacheRead, RebuildState, PublishState, PublishStatus, PublishAlerts,
       AbortIngest, Goto, End, Notify
  <2> QED
    BY <1>2, <2>1
<1>5. ASSUME NEW g \in Readers, Read(g) \/ AbortReader(g) PROVE Goal
  BY <1>2, <1>5 DEF Read, GetState, ReadCachedState, ReadHistory, WriteRebuiltState, AbortReader
<1>6. ASSUME MonitorStep \/ AdminStep \/ ExpiryStep \/ UNCHANGED vars PROVE Goal
  BY <1>2, <1>6 DEF MonitorStep, AdminStep, ExpiryStep, vars, serviceVars
<1>7. Goal
  BY <1>3, <1>4, <1>5, <1>6 DEF Next, ServiceStep
<1> QED
  BY <1>7 DEF Goal

LEMMA MovedTo ==
  ASSUME TypeOK, NEW r \in Requests, NEW pc, Goto(r, pc) \/ End(r, pc)
  PROVE  ingest'[r].pc = pc
BY DEF Goto, End, AtPc, TypeOK, ServiceTypeOK, IngestState

LEMMA InFlightDevice ==
  ASSUME TypeOK, NEW r \in Requests, InFlight(r)
  PROVE  ingest[r].device \in Devices
BY DEF TypeOK, ServiceTypeOK, IngestState, InFlight

(* Once stored, an Id is not unused again.                                 *)
LEMMA StaysUsed ==
  ASSUME TypeOK, [Next]_vars, NEW d \in Devices, devices[d].existence # "unused"
  PROVE  devices'[d].existence # "unused"
<1>1. RowStep(d) /\ devices[d] \in DeviceRow
  BY RowSteps DEF TypeOK, DatabaseTypeOK
<1>2. ASSUME NEW a \in Admins, Inserts(a, d) PROVE devices'[d].existence # "unused"
  BY <1>2 DEF Inserts, NewDevice
<1>3. ASSUME Deletes(d) PROVE devices'[d].existence # "unused"
  BY <1>1, <1>3 DEF Deletes, DeviceRow
<1> QED
  BY <1>1, <1>2, <1>3, ExistenceSteps

LEMMA LoadsOwnDevice ==
  ASSUME TypeOK, NEW r \in Requests, Loads(r)
  PROVE  /\ \A s \in Requests \ {r} : ingest'[s] = ingest[s]
         /\ UNCHANGED dbVars
         /\ ingest'[r].pc = "loadRules"
         /\ \E d \in Devices : /\ ingest'[r].device = d
                               /\ ingest'[r].loaded = devices[d]
                               /\ Stored(d) /\ KeyOf[d] = Command[r].key
BY DEF Loads, GetByKey, TypeOK, ServiceTypeOK, IngestState

LEMMA QueueNext == ASSUME Overlap = FALSE PROVE TypeOK /\ QueueInv /\ [Next]_vars => QueueInv'
<1> SUFFICES ASSUME TypeOK, QueueInv, [Next]_vars PROVE QueueInv'
  OBVIOUS
<1>1. ASSUME NEW r \in Requests, ingest'[r].pc \in IngestSteps, ~Loads(r)
      PROVE  InFlight(r) /\ ingest'[r].device = ingest[r].device
  <2>1. CASE Finds(r)
    BY <2>1, IngestFieldTypes DEF Finds, InFlight, IngestSteps, IngestState
  <2>2. CASE Ends(r)
    BY <1>1, <2>2 DEF Ends, AtPc, Ended, IngestSteps
  <2>3. RequestStep(r)
    BY RequestSteps
  <2> QED
    BY <1>1, <2>1, <2>2, <2>3 DEF RequestStep, Proceeds, InFlight
<1>2. RequestsKnowTheirDevice'
  <2> SUFFICES ASSUME NEW r \in Requests, ingest'[r].pc \in IngestSteps
               PROVE  /\ devices'[ingest'[r].device].existence # "unused"
                      /\ KeyOf[ingest'[r].device] = Command[r].key
    BY DEF RequestsKnowTheirDevice, InFlight
  <2>1. CASE Loads(r)
    BY <2>1, LoadsOwnDevice DEF Stored, dbVars
  <2>2. CASE ~Loads(r)
    BY <1>1, <2>2, InFlightDevice, StaysUsed DEF QueueInv, RequestsKnowTheirDevice
  <2> QED
    BY <2>1, <2>2
<1>3. OneRequestPerKey'
  <2> SUFFICES ASSUME NEW r \in Requests, NEW s \in Requests, r # s,
                      ingest'[r].pc \in IngestSteps, ingest'[s].pc \in IngestSteps,
                      Command[r].key = Command[s].key
               PROVE  FALSE
    BY DEF OneRequestPerKey, InFlight
  <2>1. ASSUME NEW x \in Requests, NEW y \in Requests, x # y, Loads(x),
               ingest'[y].pc \in IngestSteps, Command[y].key = Command[x].key
        PROVE  FALSE
    <3>1. ingest'[y] = ingest[y]
      BY <2>1, LoadsOwnDevice
    <3>2. ~InFlight(y)
      BY <2>1 DEF Loads
    <3> QED
      BY <2>1, <3>1, <3>2 DEF InFlight
  <2>2. CASE ~Loads(r) /\ ~Loads(s)
    BY <1>1, <2>2 DEF QueueInv, OneRequestPerKey
  <2> QED
    BY <2>1, <2>2
<1> QED
  BY <1>2, <1>3 DEF QueueInv

LEMMA QueueHolds == ASSUME Overlap = FALSE PROVE Spec => []QueueInv
<1>1. Init => QueueInv
  BY DEF Init, ServiceInit, AtPc, QueueInv, RequestsKnowTheirDevice, OneRequestPerKey, InFlight,
     IngestSteps
<1> QED
  BY <1>1, QueueNext, TypeCorrect, PTL DEF Spec

(* Two commits for one device are of one request.                          *)
LEMMA OneCommitPerDevice ==
  ASSUME QueueInv, NEW r \in Requests, NEW s \in Requests, InFlight(r), InFlight(s),
         ingest[r].device = ingest[s].device
  PROVE  r = s
BY DEF QueueInv, RequestsKnowTheirDevice, OneRequestPerKey

(* Where an alert comes from: it is raised, or it was there and is kept,   *)
(* resolved, or separated from its rule.                                   *)
AlertOrigin(b) ==
  \/ \E c \in alerts : /\ b.id = c.id
                       /\ b.device = c.device
                       /\ b.rule \in {c.rule, NoRule}
                       /\ IsActive(b) /\ b.rule # NoRule => b = c
  \/ \E s \in Requests : \E q \in Raised(s) :
       /\ Commits(s, b.device)
       /\ b = [id |-> <<s, q>>, device |-> b.device, rule |-> q, resolvedBy |-> NoRequest]

LEMMA AlertOrigins == TypeOK /\ [Next]_vars => \A b \in alerts' : AlertOrigin(b)
<1> SUFFICES ASSUME TypeOK, DatabaseStep, NEW b \in alerts' PROVE AlertOrigin(b)
  BY DatabaseSteps
<1>1. \A c \in alerts : c \in Alert
  BY DEF TypeOK, DatabaseTypeOK
<1>2. ASSUME b \in alerts PROVE AlertOrigin(b)
  BY <1>2 DEF AlertOrigin
<1>3. ASSUME NEW s \in Requests, SaveChanges(s) PROVE AlertOrigin(b)
  <2> DEFINE d == ingest[s].device
  <2>1. CASE UNCHANGED alerts
    BY <1>2, <2>1
  <2>2. CASE ~UNCHANGED alerts
    <3>1. Commits(s, d)
      BY <1>3, <2>2 DEF SaveChanges, Commits
    <3>2. ASSUME NEW c \in alerts, b = [c EXCEPT !.resolvedBy = s] PROVE AlertOrigin(b)
      <4>1. b.id = c.id /\ b.device = c.device /\ b.rule = c.rule /\ ~IsActive(b)
        BY <1>1, <3>2, DomainAssumption DEF Alert, IsActive
      <4> QED
        BY <4>1 DEF AlertOrigin
    <3>3. ASSUME NEW q \in Raised(s),
                 b = [id |-> <<s, q>>, device |-> d, rule |-> q, resolvedBy |-> NoRequest]
          PROVE  AlertOrigin(b)
      BY <3>1, <3>3 DEF AlertOrigin
    <3>4. \/ \E c \in alerts : b = c \/ b = [c EXCEPT !.resolvedBy = s]
          \/ \E q \in Raised(s) :
               b = [id |-> <<s, q>>, device |-> d, rule |-> q, resolvedBy |-> NoRequest]
      <4> HIDE DEF d
      <4> QED
        BY <3>1 DEF Commits, SaveAlerts
    <3> QED
      BY <1>2, <3>2, <3>3, <3>4
  <2> QED
    BY <2>1, <2>2
<1>4. ASSUME NEW a \in Admins, DeleteLoadedRule(a) PROVE AlertOrigin(b)
  <2>1. CASE UNCHANGED alerts
    BY <1>2, <2>1
  <2>2. CASE DeleteRuleRow(admin[a].rule)
    <3>1. PICK c \in alerts : b = c \/ b = [c EXCEPT !.rule = NoRule]
      BY <2>2 DEF DeleteRuleRow
    <3>2. CASE b = [c EXCEPT !.rule = NoRule]
      <4>1. b.id = c.id /\ b.device = c.device /\ b.rule = NoRule
        BY <1>1, <3>2 DEF Alert
      <4> QED
        BY <4>1 DEF AlertOrigin
    <3> QED
      BY <1>2, <3>1, <3>2
  <2> QED
    BY <1>4, <2>1, <2>2 DEF DeleteLoadedRule
<1>5. ASSUME UNCHANGED alerts PROVE AlertOrigin(b)
  BY <1>2, <1>5
<1> QED
  BY <1>3, <1>4, <1>5 DEF DatabaseStep, dbVars, CommitOffline, InsertDevice, SaveEditedDevice,
     DeleteLoadedDevice, SaveEditedRule

(* The row of a request that has not committed keeps its LastSeenAt.       *)
LEMMA EarlyRowIsKept ==
  ASSUME TypeOK, HistoryInv, CallerInv, ContactInv, QueueInv, [Next]_vars,
         NEW r \in Requests, ingest[r].pc \in Early, ingest'[r].pc \in Early
  PROVE  devices'[ingest[r].device].lastSeenAt = devices[ingest[r].device].lastSeenAt
<1> DEFINE d == ingest[r].device
<1>1. InFlight(r) /\ d \in Devices
  BY InFlightDevice DEF InFlight, Early, IngestSteps
<1>2. ASSUME NEW s \in Requests, Commits(s, d) PROVE FALSE
  <2>1. s = r
    BY <1>1, <1>2, CommitsInFlight, OneCommitPerDevice
  <2>2. ingest'[r].pc = "cacheWrite"
    BY <1>2, <2>1 DEF Commits, Goto, TypeOK, ServiceTypeOK, IngestState
  <2> QED
    BY <2>2 DEF Early
<1>3. ASSUME NEW a \in Admins, Inserts(a, d) PROVE FALSE
  BY <1>1, <1>3 DEF Inserts, CallerInv, InsertionsAreNew, QueueInv, RequestsKnowTheirDevice
<1>4. RowStep(d)
  BY <1>1, RowSteps
<1> HIDE DEF d
<1>5. devices'[d].lastSeenAt = devices[d].lastSeenAt
  BY <1>1, <1>2, <1>3, <1>4, QuietRows
<1> QED
  BY <1>5 DEF d

LEMMA LoadedNext ==
  ASSUME TypeOK, HistoryInv, CallerInv, ContactInv, QueueInv, LoadedIsCurrent, [Next]_vars
  PROVE  LoadedIsCurrent'
<1> SUFFICES ASSUME NEW r \in Requests, ingest'[r].pc \in Early
             PROVE  ingest'[r].loaded.lastSeenAt = devices'[ingest'[r].device].lastSeenAt
  BY DEF LoadedIsCurrent
<1>1. CASE /\ ingest[r].pc \in Early
           /\ ingest'[r].device = ingest[r].device
           /\ ingest'[r].loaded = ingest[r].loaded
  BY <1>1, EarlyRowIsKept DEF LoadedIsCurrent
<1>2. CASE Loads(r)
  BY <1>2, LoadsOwnDevice DEF dbVars
<1>3. CASE Finds(r)
  <2>1. /\ ingest[r].pc \in Early
        /\ ingest'[r].device = ingest[r].device
        /\ ingest'[r].loaded = ingest[r].loaded
    BY <1>3, IngestFieldTypes DEF Finds, Early, IngestState
  <2> QED
    BY <1>1, <2>1
<1>4. CASE Ends(r)
  BY <1>4 DEF Ends, AtPc, Ended, Early
<1>5. CASE Proceeds(r)
  BY <1>1, <1>5 DEF Proceeds
<1>6. CASE ingest'[r] = ingest[r]
  BY <1>1, <1>6
<1>7. RequestStep(r)
  BY RequestSteps
<1> QED
  BY <1>2, <1>3, <1>4, <1>5, <1>6, <1>7 DEF RequestStep

(* An active alert of the device and the rules of a request that has found *)
(* its active alerts is one of those.                                      *)
LEMMA ActiveNext ==
  ASSUME TypeOK, QueueInv, ActiveIsCurrent, [Next]_vars
  PROVE  ActiveIsCurrent'
<1> SUFFICES ASSUME NEW r \in Requests, ingest'[r].pc \in Evaluating, NEW b \in alerts',
                    IsActive(b), b.device = ingest'[r].device,
                    b.rule \in GetApplicableRules(ingest'[r].rules, ingest'[r].device)
             PROVE  b.id \in ingest'[r].active
  BY DEF ActiveIsCurrent, IsActive
<1>1. b.rule # NoRule
  BY DomainAssumption DEF GetApplicableRules
<1>2. CASE /\ ingest[r].pc \in Evaluating
           /\ ingest'[r].device = ingest[r].device
           /\ ingest'[r].rules = ingest[r].rules
           /\ ingest'[r].active = ingest[r].active
  <2>1. CASE b \in alerts
    BY <1>2, <2>1 DEF ActiveIsCurrent
  <2>2. ASSUME NEW s \in Requests, Commits(s, b.device) PROVE FALSE
    <3>1. InFlight(r)
      BY <1>2 DEF Evaluating, InFlight, IngestSteps
    <3>2. s = r
      BY <1>2, <2>2, <3>1, CommitsInFlight, OneCommitPerDevice
    <3>3. ingest'[r].pc = "cacheWrite"
      BY <2>2, <3>2 DEF Commits, Goto, TypeOK, ServiceTypeOK, IngestState
    <3> QED
      BY <3>3 DEF Evaluating
  <2> QED
    BY <1>1, <2>1, <2>2, AlertOrigins DEF AlertOrigin
<1>3. CASE Finds(r)
  <2>1. /\ ingest'[r].device = ingest[r].device
        /\ ingest'[r].rules = ingest[r].rules
        /\ ingest'[r].active = {a.id : a \in GetActiveByRuleIds(ingest[r].device,
                                  GetApplicableRules(ingest[r].rules, ingest[r].device))}
        /\ UNCHANGED alerts
    BY <1>3, IngestFieldTypes DEF Finds, IngestState, dbVars
  <2>2. b \in GetActiveByRuleIds(ingest[r].device,
                                  GetApplicableRules(ingest[r].rules, ingest[r].device))
    BY <2>1 DEF GetActiveByRuleIds
  <2> QED
    BY <2>1, <2>2
<1>4. CASE Ends(r)
  BY <1>4 DEF Ends, AtPc, Ended, Evaluating
<1>5. CASE Loads(r)
  BY <1>5, LoadsOwnDevice DEF Evaluating
<1>6. CASE Proceeds(r)
  BY <1>2, <1>6 DEF Proceeds
<1>7. CASE ingest'[r] = ingest[r]
  BY <1>2, <1>7
<1>8. RequestStep(r)
  BY RequestSteps
<1> QED
  BY <1>3, <1>4, <1>5, <1>6, <1>7, <1>8 DEF RequestStep

LEMMA RaisedRules ==
  ASSUME NEW r \in Requests, NEW q \in Raised(r)
  PROVE  /\ q \in Rules
         /\ q \in GetApplicableRules(ingest[r].rules, ingest[r].device)
         /\ \A a \in ingest[r].active : a[2] # q
BY DEF Raised, RulesToRaise, Violated, Evaluated, GetApplicableRules

LEMMA NamesNext ==
  ASSUME TypeOK, AlertsNameTheirRule, [Next]_vars
  PROVE  AlertsNameTheirRule'
<1> SUFFICES ASSUME NEW b \in alerts' PROVE b.rule \in {NoRule, b.id[2]}
  BY DEF AlertsNameTheirRule
<1>1. AlertOrigin(b)
  BY AlertOrigins
<1>2. ASSUME NEW c \in alerts, b.id = c.id, b.rule \in {c.rule, NoRule}
      PROVE  b.rule \in {NoRule, b.id[2]}
  BY <1>2 DEF AlertsNameTheirRule
<1>3. ASSUME NEW s \in Requests, NEW q \in Raised(s),
             b = [id |-> <<s, q>>, device |-> b.device, rule |-> q, resolvedBy |-> NoRequest]
      PROVE  b.rule \in {NoRule, b.id[2]}
  BY <1>3
<1> QED
  BY <1>1, <1>2, <1>3 DEF AlertOrigin

LEMMA SerialHolds ==
  ASSUME Overlap = FALSE
  PROVE  Spec => [](/\ TypeOK /\ HistoryInv /\ NoDanglingHistory /\ CallerInv /\ ContactInv
                    /\ QueueInv /\ SerialInv)
<1>1. Init => SerialInv
  <2> SUFFICES ASSUME Init PROVE SerialInv
    OBVIOUS
  <2>1. alerts = {} /\ \A r \in Requests : ingest[r].pc = "new"
    BY DEF Init, DatabaseInit, ServiceInit, AtPc
  <2> QED
    BY <2>1 DEF Early, Evaluating, SerialInv, LoadedIsCurrent, ActiveIsCurrent, AlertsNameTheirRule
<1>2. /\ TypeOK /\ HistoryInv /\ NoDanglingHistory /\ CallerInv /\ ContactInv
      /\ QueueInv /\ SerialInv /\ [Next]_vars
      => SerialInv'
  BY LoadedNext, ActiveNext, NamesNext DEF SerialInv
<1> QED
  BY <1>1, <1>2, ContactHolds, QueueHolds, PTL DEF Spec

LEMMA NewestInit == Init => LastSeenIsNewest
BY DEF Init, DatabaseInit, LastSeenIsNewest

LEMMA NewestNext ==
  ASSUME TypeOK, HistoryInv, NoDanglingHistory, CallerInv, ContactInv, SerialInv,
         LastSeenIsNewest, [Next]_vars
  PROVE  LastSeenIsNewest'
<1> SUFFICES ASSUME NEW p \in telemetry' PROVE p.timestamp <= devices'[p.device].lastSeenAt
  BY DEF LastSeenIsNewest
<1> DEFINE d == p.device
<1>1. d \in Devices /\ p.timestamp \in Time
  BY TypeNext DEF TypeOK, DatabaseTypeOK, Point
<1>2. devices[d].lastSeenAt \in OptionalTime /\ devices[d] \in DeviceRow
  BY <1>1 DEF TypeOK, DatabaseTypeOK, DeviceRow
<1>3. ASSUME NEW r \in Requests, Commits(r, d)
      PROVE  /\ devices'[d].lastSeenAt \in OptionalTime
             /\ devices'[d].lastSeenAt >= devices[d].lastSeenAt
             /\ devices'[d].lastSeenAt >= Command[r].timestamp
  <2> DEFINE loaded == ingest[r].loaded
  <2>1. loaded \in DeviceRow /\ Entity(r) \in DeviceRow
    BY IngestFieldTypes
  <2>2. Command[r].timestamp \in Time
    BY DomainAssumption DEF IngestTelemetryCommand
  <2>3. loaded.lastSeenAt = devices[d].lastSeenAt
    BY <1>3, CommitsInFlight DEF Early, SerialInv, LoadedIsCurrent
  <2>4. devices'[d] = SaveDevice(devices[d], loaded, Entity(r))
    BY <1>1, <1>3 DEF Commits, TypeOK, DatabaseTypeOK
  <2>5. /\ Entity(r).lastSeenAt >= loaded.lastSeenAt
        /\ Entity(r).lastSeenAt >= Command[r].timestamp
        /\ Entity(r).lastSeenAt \in OptionalTime
    BY <2>1, <2>2, RecordedColumns DEF Entity, DeviceRow
  <2> HIDE DEF loaded, d
  <2>6. devices'[d].lastSeenAt = Entity(r).lastSeenAt
    BY <1>2, <2>3, <2>4, SavedColumns
  <2> QED
    BY <2>3, <2>5, <2>6
<1>4. CASE p \in telemetry
  <2>1. p.timestamp <= devices[d].lastSeenAt /\ Stored(d)
    BY <1>4 DEF LastSeenIsNewest, NoDanglingHistory
  <2>2. CASE \E r \in Requests : Commits(r, d)
    <3>1. devices'[d].lastSeenAt \in OptionalTime /\ devices'[d].lastSeenAt >= devices[d].lastSeenAt
      BY <1>3, <2>2
    <3> HIDE DEF d
    <3>2. p.timestamp <= devices'[d].lastSeenAt
      BY <1>1, <1>2, <2>1, <3>1 DEF OptionalTime, NoTime, Time
    <3> QED
      BY <3>2 DEF d
  <2>3. CASE \A r \in Requests : ~Commits(r, d)
    <3>1. RowStep(d)
      BY <1>1, RowSteps
    <3>2. \A a \in Admins : ~Inserts(a, d)
      BY <2>1 DEF Inserts
    <3> HIDE DEF d
    <3>3. devices'[d].lastSeenAt = devices[d].lastSeenAt
      BY <1>1, <2>3, <3>1, <3>2, QuietRows
    <3> QED
      BY <2>1, <3>3 DEF d
  <2> QED
    BY <2>2, <2>3
<1>5. CASE p \notin telemetry
  <2>1. PICK r \in Requests : Commits(r, d) /\ p.timestamp = Command[r].timestamp
    BY <1>5, PointOrigins
  <2>2. devices'[d].lastSeenAt \in OptionalTime /\ devices'[d].lastSeenAt >= p.timestamp
    BY <1>3, <2>1
  <2> HIDE DEF d
  <2>3. p.timestamp <= devices'[d].lastSeenAt
    BY <1>1, <2>2 DEF OptionalTime, NoTime, Time
  <2> QED
    BY <2>3 DEF d
<1> QED
  BY <1>4, <1>5

(* For devices that wait for the answer before they send again, LastSeenAt *)
(* is the newest timestamp accepted, whatever passes, edits, aborts and    *)
(* other devices' requests overlap and in whatever order batches arrive.   *)
THEOREM NewestIsKept == ASSUME Overlap = FALSE PROVE Spec => []LastSeenIsNewest
BY NewestInit, NewestNext, SerialHolds, PTL DEF Spec

LEMMA OneActiveNext ==
  ASSUME TypeOK, QueueInv, SerialInv, AtMostOneActiveAlert, [Next]_vars
  PROVE  AtMostOneActiveAlert'
<1> SUFFICES ASSUME NEW a \in alerts', NEW b \in alerts', IsActive(a), IsActive(b),
                    a.device = b.device, a.rule = b.rule, a.rule # NoRule
             PROVE  a = b
  BY DEF AtMostOneActiveAlert, IsActive
<1> DEFINE Raises(s, q, x) ==
      /\ s \in Requests /\ q \in Raised(s)
      /\ Commits(s, x.device)
      /\ x = [id |-> <<s, q>>, device |-> x.device, rule |-> q, resolvedBy |-> NoRequest]
<1>1. ASSUME NEW x \in alerts', IsActive(x), x.rule # NoRule
      PROVE  x \in alerts \/ \E s, q : Raises(s, q, x)
  BY <1>1, AlertOrigins DEF AlertOrigin
<1>2. ASSUME NEW x \in alerts, NEW y, NEW s, NEW q, Raises(s, q, y),
             IsActive(x), x.rule # NoRule, x.device = y.device, x.rule = y.rule
      PROVE  FALSE
  <2>1. s \in Requests /\ q \in Raised(s) /\ y.rule = q /\ Commits(s, y.device)
    BY <1>2
  <2>2. ingest[s].pc \in Evaluating /\ ingest[s].device = x.device
    BY <1>2, <2>1, CommitsInFlight DEF Evaluating
  <2>3. x.rule \in GetApplicableRules(ingest[s].rules, ingest[s].device)
    BY <1>2, <2>1, RaisedRules
  <2>4. x.id \in ingest[s].active
    BY <1>2, <2>1, <2>2, <2>3 DEF SerialInv, ActiveIsCurrent
  <2>5. x.id[2] = q
    BY <1>2, <2>1 DEF SerialInv, AlertsNameTheirRule
  <2> QED
    BY <2>1, <2>4, <2>5, RaisedRules
<1>3. ASSUME NEW s, NEW q, NEW t, NEW u, Raises(s, q, a), Raises(t, u, b) PROVE a = b
  <2>1. s = t
    BY <1>3, CommitsInFlight, OneCommitPerDevice
  <2>2. q = u
    BY <1>3
  <2> QED
    BY <1>3, <2>1, <2>2
<1>4. CASE a \in alerts /\ b \in alerts
  BY <1>4 DEF AtMostOneActiveAlert
<1> HIDE DEF Raises
<1> QED
  BY <1>1, <1>2, <1>3, <1>4

(* For devices that wait for the answer, a rule has at most one unresolved *)
(* alert per device: evaluation and commit are separate steps, but the     *)
(* alerts found at the one are still the active ones at the other.         *)
THEOREM OneActiveAlert == ASSUME Overlap = FALSE PROVE Spec => []AtMostOneActiveAlert
<1>1. Init => AtMostOneActiveAlert
  BY DEF Init, DatabaseInit, AtMostOneActiveAlert
<1> QED
  BY <1>1, OneActiveNext, SerialHolds, PTL DEF Spec

-----------------------------------------------------------------------------
(* The way of a committed point to the cache.                              *)

LEMMA ScriptTakesReading ==
  ASSUME NEW hash \in DeviceState, NEW state \in DeviceState, NEW m \in Metrics
  PROVE  UpdateScript(hash, state).metrics[m].timestamp >= state.metrics[m].timestamp
<1>1. /\ hash.metrics[m].timestamp \in OptionalTime
      /\ state.metrics[m].timestamp \in OptionalTime
  BY DEF DeviceState, Reading
<1>2. MergeReading(hash.metrics[m], state.metrics[m]).timestamp >= state.metrics[m].timestamp
  BY <1>1 DEF MergeReading, OptionalTime, NoTime, Time
<1> QED
  BY <1>2 DEF UpdateScript

(* Unless Redis fails or it is cut off, a request leaves its cache write   *)
(* only by making it.                                                      *)
LEMMA PendingSteps ==
  ASSUME Faults \subseteq {"notify"}, TypeOK, [Next]_vars, NEW r \in Requests, ingest[r].pc = "cacheWrite"
  PROVE  ingest'[r] = ingest[r] \/ SetAsync(ingest[r].device, StateToCache(r))
<1>1. ASSUME Ingest(r) PROVE SetAsync(ingest[r].device, StateToCache(r))
  BY <1>1 DEF Ingest, LoadDevice, LoadRules, LoadActiveAlerts, RequireDevice, SaveChanges,
     CacheWrite, SetAsyncFails, CacheRead, RebuildState, PublishState, PublishStatus, PublishAlerts
<1> QED
  BY <1>1, OwnSteps DEF AbortIngest

(* Unless it expires, the key of a device with history is never dropped.   *)
LEMMA CacheIsKept ==
  ASSUME Faults \subseteq {"notify"}, TypeOK, NoDanglingHistory, CallerInv, [Next]_vars,
         NEW p \in telemetry, NEW m \in Metrics
  PROVE  redis'[p.device].metrics[m].timestamp >= redis[p.device].metrics[m].timestamp
<1> DEFINE d == p.device
<1>1. d \in Devices /\ Stored(d)
  BY DEF TypeOK, DatabaseTypeOK, Point, NoDanglingHistory
<1>2. redis \in [Devices -> DeviceState] /\ redis[d] \in DeviceState
  BY <1>1 DEF TypeOK, StoreTypeOK
<1>3. redis[d].metrics[m].timestamp \in OptionalTime
  BY <1>2 DEF DeviceState, Reading
<1> HIDE DEF d
<1>4. CASE redis'[d] = redis[d]
  BY <1>3, <1>4 DEF d, OptionalTime, NoTime, Time
<1>5. ASSUME NEW e \in Devices, NEW state \in DeviceState, SetAsync(e, state)
      PROVE  redis'[d].metrics[m].timestamp >= redis[d].metrics[m].timestamp
  <2>1. CASE e = d
    BY <1>1, <1>2, <1>5, <2>1, UpdateScriptAdvances DEF SetAsync
  <2>2. CASE e # d
    <3>1. redis'[d] = redis[d]
      BY <1>1, <1>2, <1>5, <2>2 DEF SetAsync
    <3> QED
      BY <1>4, <3>1 DEF d
  <2> QED
    BY <2>1, <2>2
<1>6. ASSUME NEW e \in Devices, RemoveAsync(e),
             Expire(e) \/ \E a \in Admins : admin[a].pc = "removeKey" /\ admin[a].device = e
      PROVE  redis'[d] = redis[d]
  <2>1. devices[e].existence = "deleted"
    BY <1>6 DEF Expire, CallerInv, RemovalsAreFinal
  <2>2. e # d
    BY <1>1, <2>1 DEF Stored
  <2> QED
    BY <1>1, <1>2, <1>6, <2>2 DEF RemoveAsync
<1>7. CacheStep
  BY CacheSteps
<1> QED
  BY <1>4, <1>5, <1>6, <1>7 DEF CacheStep, d

LEMMA PendingNext ==
  ASSUME Faults \subseteq {"notify"}, TypeOK, NoDanglingHistory, CallerInv, CommittedIsCachedOrPending, [Next]_vars
  PROVE  CommittedIsCachedOrPending'
<1> DEFINE Pending(r, p) == /\ ingest[r].pc = "cacheWrite"
                            /\ ingest[r].device = p.device
                            /\ Command[r].timestamp = p.timestamp
                            /\ Includes(Command[r], p.metric)
           Cached(p) == redis[p.device].metrics[p.metric].timestamp >= p.timestamp
<1> SUFFICES ASSUME NEW p \in telemetry' PROVE Cached(p)' \/ \E r \in Requests : Pending(r, p)'
  BY DEF CommittedIsCachedOrPending
<1>1. p \in Point /\ p.device \in Devices /\ p.metric \in Metrics /\ p.timestamp \in Time
  BY TypeNext DEF TypeOK, DatabaseTypeOK, Point
<1>2. TypeOK'
  BY TypeNext
<1>3. /\ redis[p.device] \in DeviceState /\ redis'[p.device] \in DeviceState
      /\ redis \in [Devices -> DeviceState]
  BY <1>1, <1>2 DEF TypeOK, StoreTypeOK
<1>4. /\ redis[p.device].metrics[p.metric].timestamp \in OptionalTime
      /\ redis'[p.device].metrics[p.metric].timestamp \in OptionalTime
  BY <1>1, <1>3 DEF DeviceState, Reading
<1>5. CASE p \notin telemetry
  <2>1. PICK r \in Requests : /\ Commits(r, p.device)
                              /\ p.timestamp = Command[r].timestamp
                              /\ Includes(Command[r], p.metric)
    BY <1>5, PointOrigins
  <2>2. ingest'[r].pc = "cacheWrite" /\ ingest'[r].device = p.device
    BY <2>1 DEF Commits, Goto, TypeOK, ServiceTypeOK, IngestState
  <2> QED
    BY <2>1, <2>2
<1>6. CASE p \in telemetry /\ Cached(p)
  <2>1. redis'[p.device].metrics[p.metric].timestamp >= redis[p.device].metrics[p.metric].timestamp
    BY <1>1, <1>6, CacheIsKept
  <2> QED
    BY <1>1, <1>4, <1>6, <2>1 DEF OptionalTime, NoTime, Time
<1>7. ASSUME NEW r \in Requests, Pending(r, p)
      PROVE  Cached(p)' \/ \E s \in Requests : Pending(s, p)'
  <2>1. CASE ingest'[r] = ingest[r]
    BY <1>7, <2>1
  <2>2. CASE SetAsync(p.device, StateToCache(r))
    <3>1. redis'[p.device] = UpdateScript(redis[p.device], StateToCache(r))
      BY <1>1, <1>3, <2>2 DEF SetAsync
    <3>2. StateToCache(r).metrics[p.metric].timestamp = p.timestamp
      BY <1>1, <1>7 DEF StateToCache, StateOf, BatchReadings
    <3>3. redis'[p.device].metrics[p.metric].timestamp >= StateToCache(r).metrics[p.metric].timestamp
      BY <1>1, <1>3, <3>1, IngestFieldTypes, ScriptTakesReading
    <3> QED
      BY <3>2, <3>3
  <2> QED
    BY <1>7, <2>1, <2>2, PendingSteps
<1> QED
  BY <1>5, <1>6, <1>7 DEF CommittedIsCachedOrPending

(* Unless Redis fails or a request is cut off, no interleaving loses an    *)
(* update of the cache: every committed point is there, superseded by a    *)
(* newer one, or its request is still about to write it.                   *)
THEOREM NoUpdateIsLost == ASSUME Faults \subseteq {"notify"} PROVE Spec => []CommittedIsCachedOrPending
<1>1. Init => CommittedIsCachedOrPending
  BY DEF Init, DatabaseInit, CommittedIsCachedOrPending
<1> QED
  BY <1>1, PendingNext, ContactHolds, PTL DEF Spec

(* For any overlap, a cache at rest has a reading at least as new as every *)
(* point, unless Redis fails, a key expires or a request is cut off.       *)
THEOREM CacheIsComplete == ASSUME Faults \subseteq {"notify"} PROVE Spec => []CachedStateIsComplete
<1>1. CommittedIsCachedOrPending => CachedStateIsComplete
  BY DEF CommittedIsCachedOrPending, CachedStateIsComplete, Quiet, InFlight, IngestSteps
<1> QED
  BY <1>1, NoUpdateIsLost, PTL

-----------------------------------------------------------------------------
(* Changes of status and their announcement.                               *)

(* A request that has committed, and not yet published everything.         *)
Pending(r) == ingest[r].pc \in IngestSteps \ Early

(* No pass of the offline monitor finds a silent device.                   *)
NoPass == monitor.pc = "waiting"

(* Rows of devices that reported are Online.                               *)
RowsAreOnline ==
  \A r \in Requests :
    /\ ingest[r].pc \in Early /\ ingest[r].loaded.status = "Online"
         => devices[ingest[r].device].status = "Online"
    /\ Pending(r) => devices[ingest[r].device].status = "Online"

(* The rows that a pass has found are still Online when it commits them,   *)
(* and it handles each of them once.                                       *)
FoundAreOnline ==
  monitor.pc = "commit" =>
    \A d \in monitor.pending : monitor.loaded[d].status = "Online" /\ devices[d].status = "Online"
Handling == {"readState", "readHistory", "writeState", "publishStatus", "publishState"}
HandledIsNotPending == monitor.pc \in Handling => monitor.device \notin monitor.pending
PassInv == FoundAreOnline /\ HandledIsNotPending

(* What a request is about to bring Online has the status it was loaded    *)
(* with, if requests of one device do not overlap.                         *)
StatusAsLoaded ==
  \A r \in Requests :
    ingest[r].pc \in Early /\ ingest[r].loaded.status # "Online"
      => devices[ingest[r].device].status = ingest[r].loaded.status

LEMMA EntityIsOnline == ASSUME TypeOK, NEW r \in Requests PROVE Entity(r).status = "Online"
BY IngestFieldTypes, RecordedColumns, DomainAssumption DEF Entity, IngestTelemetryCommand

(* The row of an unused Id has no contact in it.                           *)
LEMMA InsertedIsUnknown ==
  ASSUME TypeOK, HistoryInv, NoDanglingHistory, ContactInv, NEW d \in Devices, ~Stored(d)
  PROVE  devices[d].status = "Unknown"
<1> SUFFICES ASSUME devices[d].lastSeenAt # NoTime PROVE FALSE
  BY DEF ContactInv, RowsConsistent, Consistent
<1>1. PICK p \in telemetry : p.device = d
  BY DEF HistoryInv, RowsSeen, Seen
<1> QED
  BY <1>1 DEF NoDanglingHistory

(* The status of a row changes by the commit of a request or of a pass.    *)
LEMMA StatusSteps ==
  ASSUME TypeOK, HistoryInv, NoDanglingHistory, CallerInv, ContactInv, FoundAreOnline, [Next]_vars,
         NEW d \in Devices, devices'[d].status # devices[d].status
  PROVE  \/ \E r \in Requests : /\ Commits(r, d)
                               /\ ingest[r].loaded.status # "Online"
                               /\ devices'[d].status = "Online"
         \/ MarksOffline(d) /\ devices'[d].status = "Offline"
<1>1. devices[d] \in DeviceRow /\ RowStep(d)
  BY RowSteps DEF TypeOK, DatabaseTypeOK
<1>2. ASSUME NEW r \in Requests, Commits(r, d)
      PROVE  ingest[r].loaded.status # "Online" /\ devices'[d].status = "Online"
  <2>1. devices'[d] = SaveDevice(devices[d], ingest[r].loaded, Entity(r))
    BY <1>2 DEF Commits, TypeOK, DatabaseTypeOK
  <2> QED
    BY <1>1, <2>1, EntityIsOnline, SavedColumns
<1>3. ASSUME MarksOffline(d) PROVE devices'[d].status = "Offline"
  <2>1. monitor.loaded[d] \in DeviceRow /\ monitor.loaded[d].status = "Online"
    BY <1>3 DEF MarksOffline, CommitOffline, FoundAreOnline, TypeOK, MonitorTypeOK, MonitorState
  <2> QED
    BY <1>1, <1>3, <2>1, SavedColumns, MarkedColumns DEF MarksOffline
<1>4. ASSUME NEW a \in Admins, SavesEdit(a, d) PROVE FALSE
  BY <1>4, EditKeepsHealth
<1>5. ASSUME NEW a \in Admins, Inserts(a, d) PROVE FALSE
  BY <1>5, InsertedIsUnknown DEF Inserts, NewDevice
<1>6. ~Deletes(d)
  BY DeletionKeepsHealth
<1> QED
  BY <1>1, <1>2, <1>3, <1>4, <1>5, <1>6 DEF RowStep

(* Only the commit of a pass takes a row out of Online.                    *)
LEMMA OnlineStays ==
  ASSUME TypeOK, HistoryInv, NoDanglingHistory, CallerInv, ContactInv, FoundAreOnline, [Next]_vars,
         ~CommitOffline, NEW d \in Devices, devices[d].status = "Online"
  PROVE  devices'[d].status = "Online"
BY StatusSteps DEF MarksOffline

(* A request passes its commit only by committing.                         *)
LEMMA PassesCommit ==
  ASSUME TypeOK, [Next]_vars, NEW r \in Requests, ~Pending(r), Pending(r)'
  PROVE  ingest[r].pc = "commit" /\ Commits(r, ingest[r].device)
<1>1. ingest \in [Requests -> IngestState]
  BY DEF TypeOK, ServiceTypeOK
<1>2. ingest'[r].pc \in IngestSteps /\ ingest'[r].pc \notin Early
  BY DEF Pending
<1>3. ingest'[r] # ingest[r]
  BY DEF Pending
<1>4. CASE LoadDevice(r)
  <2>1. ASSUME NEW d, ingest' = [ingest EXCEPT ![r].pc = "loadRules", ![r].device = d,
                                               ![r].loaded = devices[d]]
        PROVE  FALSE
    <3>1. ingest'[r].pc = "loadRules"
      BY <1>1, <2>1 DEF IngestState
    <3> QED
      BY <1>2, <3>1 DEF Early
  <2>2. ASSUME End(r, "refused") PROVE FALSE
    BY <1>2, <2>2, MovedTo DEF IngestSteps
  <2> QED
    BY <1>4, <2>1, <2>2 DEF LoadDevice
<1>5. CASE LoadRules(r) \/ LoadActiveAlerts(r) \/ RequireDevice(r)
  <2>1. ASSUME LoadRules(r) PROVE ingest'[r].pc \in {"loadActive", "failed"}
    BY <1>1, <2>1 DEF LoadRules, IngestState
  <2>2. ASSUME LoadActiveAlerts(r) PROVE ingest'[r].pc \in {"requireDevice", "failed"}
    BY <1>1, <2>2, MovedTo DEF LoadActiveAlerts, IngestState
  <2>3. ASSUME RequireDevice(r) PROVE ingest'[r].pc \in {"commit", "failed"}
    BY <2>3, MovedTo DEF RequireDevice
  <2> QED
    BY <1>2, <1>5, <2>1, <2>2, <2>3 DEF Early, IngestSteps
<1>6. CASE SaveChanges(r)
  <2>1. ~End(r, "failed")
    BY <1>2, MovedTo DEF IngestSteps
  <2> QED
    BY <1>6, <2>1 DEF SaveChanges, Commits
<1>7. ~(CacheWrite(r) \/ CacheRead(r) \/ RebuildState(r) \/ PublishState(r) \/ PublishStatus(r)
        \/ PublishAlerts(r))
  BY DEF CacheWrite, CacheRead, RebuildState, PublishState, PublishStatus, PublishAlerts,
     Pending, IngestSteps, Early
<1>8. ~AbortIngest(r)
  BY <1>2, MovedTo DEF AbortIngest, IngestSteps
<1> QED
  BY <1>3, <1>4, <1>5, <1>6, <1>7, <1>8, OwnSteps DEF Ingest

(* Requests and passes announce what they owe.                             *)
LEMMA AnnouncedSteps ==
  ASSUME TypeOK, [Next]_vars, NEW d \in Devices, announced'[d] # announced[d]
  PROVE  \/ \E r \in Requests : /\ PublishStatus(r)
                               /\ ingest[r].device = d
                               /\ ingest[r].loaded.status # Entity(r).status
                               /\ announced'[d] = Entity(r).status
         \/ PublishOffline /\ monitor.device = d /\ announced'[d] = "Offline"
<1> DEFINE Goal == \/ \E r \in Requests : /\ PublishStatus(r)
                                          /\ ingest[r].device = d
                                          /\ ingest[r].loaded.status # Entity(r).status
                                          /\ announced'[d] = Entity(r).status
                   \/ PublishOffline /\ monitor.device = d /\ announced'[d] = "Offline"
<1>1. announced \in [Devices -> DeviceStatus]
  BY DEF TypeOK, NotifierTypeOK
<1>2. ASSUME UNCHANGED announced PROVE Goal
  BY <1>2
<1>3. ASSUME NEW r \in Requests, PublishStatus(r) PROVE Goal
  <2>1. /\ ingest[r].loaded.status # Entity(r).status
        /\ announced' = [announced EXCEPT ![ingest[r].device] = Entity(r).status]
    BY <1>2, <1>3 DEF PublishStatus, DeviceStatusChanged, Lost, notifierVars
  <2>2. ingest[r].device = d /\ announced'[d] = Entity(r).status
    BY <1>1, <2>1
  <2> QED
    BY <1>3, <2>1, <2>2
<1>4. ASSUME PublishOffline PROVE Goal
  <2>1. announced' = [announced EXCEPT ![monitor.device] = "Offline"]
    BY <1>2, <1>4 DEF PublishOffline, DeviceStatusChanged, Lost, notifierVars
  <2> QED
    BY <1>1, <1>4, <2>1
<1> HIDE DEF Goal
<1>5. ASSUME NEW r \in Requests, Ingest(r) \/ AbortIngest(r) PROVE Goal
  BY <1>2, <1>3, <1>5 DEF Ingest, LoadDevice, LoadRules, LoadActiveAlerts, RequireDevice, SaveChanges,
     CacheWrite, CacheRead, RebuildState, PublishState, PublishAlerts, AbortIngest,
     DeviceStateUpdated, AlertEvents, Lost, notifierVars
<1>6. ASSUME NEW g \in Readers, Read(g) \/ AbortReader(g) PROVE Goal
  BY <1>2, <1>6 DEF Read, GetState, ReadCachedState, ReadHistory, WriteRebuiltState, AbortReader,
     notifierVars
<1>7. ASSUME MonitorStep PROVE Goal
  BY <1>2, <1>4, <1>7 DEF MonitorStep, MonitorPass, FindStaleDevices, CommitOffline, NextDevice,
     ReadState, ReadHistoryForState, WriteState, PublishOfflineState, AbortPass, Tick,
     DeviceStateUpdated, Lost, notifierVars
<1>8. ASSUME AdminStep \/ ExpiryStep \/ UNCHANGED vars PROVE Goal
  BY <1>2, <1>8 DEF AdminStep, ExpiryStep, vars, notifierVars
<1>9. Goal
  BY <1>5, <1>6, <1>7, <1>8 DEF Next, ServiceStep
<1> QED
  BY <1>9 DEF Goal

LEMMA StillInFlight ==
  ASSUME TypeOK, [Next]_vars, NEW r \in Requests, ingest'[r].pc \in IngestSteps, ~Loads(r)
  PROVE  /\ InFlight(r)
         /\ ingest'[r].device = ingest[r].device
         /\ ingest'[r].loaded = ingest[r].loaded
         /\ ingest'[r].pc \in Early => ingest[r].pc \in Early
<1>1. CASE Finds(r)
  BY <1>1, IngestFieldTypes DEF Finds, InFlight, IngestSteps, IngestState, Early
<1>2. CASE Ends(r)
  BY <1>2 DEF Ends, AtPc, Ended, IngestSteps
<1>3. CASE Proceeds(r)
  BY <1>3 DEF Proceeds
<1>4. CASE ingest'[r] = ingest[r]
  BY <1>4 DEF InFlight
<1> QED
  BY <1>1, <1>2, <1>3, <1>4, RequestSteps DEF RequestStep

LEMMA RowsOnlineNext ==
  ASSUME TypeOK, HistoryInv, NoDanglingHistory, CallerInv, ContactInv, NoPass, RowsAreOnline, [Next]_vars
  PROVE  RowsAreOnline'
<1>0. FoundAreOnline /\ ~CommitOffline
  BY DEF NoPass, FoundAreOnline, CommitOffline
<1> SUFFICES ASSUME NEW r \in Requests, ingest'[r].pc \in IngestSteps
             PROVE  /\ ingest'[r].pc \in Early /\ ingest'[r].loaded.status = "Online"
                         => devices'[ingest'[r].device].status = "Online"
                    /\ Pending(r)' => devices'[ingest'[r].device].status = "Online"
  BY DEF RowsAreOnline, Pending, IngestSteps, Early
<1>1. CASE Loads(r)
  BY <1>1, LoadsOwnDevice DEF Pending, Early, dbVars
<1>2. CASE ~Loads(r)
  <2> DEFINE d == ingest[r].device
  <2>1. /\ InFlight(r) /\ d \in Devices
        /\ ingest'[r].device = d
        /\ ingest'[r].loaded = ingest[r].loaded
        /\ ingest'[r].pc \in Early => ingest[r].pc \in Early
    BY <1>2, StillInFlight, InFlightDevice
  <2>2. ASSUME ~Pending(r), Pending(r)' PROVE devices'[d].status = "Online"
    <3>1. ingest[r].pc \in Early /\ Commits(r, d)
      BY <2>2, PassesCommit DEF Early
    <3>2. devices'[d] = SaveDevice(devices[d], ingest[r].loaded, Entity(r)) /\ devices[d] \in DeviceRow
      BY <2>1, <3>1 DEF Commits, TypeOK, DatabaseTypeOK
    <3>3. Entity(r).status = "Online"
      BY IngestFieldTypes, RecordedColumns, DomainAssumption DEF Entity, IngestTelemetryCommand
    <3>4. ingest[r].loaded.status = "Online" => devices[d].status = "Online"
      BY <3>1 DEF RowsAreOnline
    <3> QED
      BY <3>2, <3>3, <3>4, SavedColumns
  <2>3. devices[d].status = "Online" => devices'[d].status = "Online"
    BY <1>0, <2>1, OnlineStays
  <2>4. Pending(r) => devices'[d].status = "Online"
    BY <2>3 DEF RowsAreOnline
  <2>5. ingest'[r].pc \in Early /\ ingest'[r].loaded.status = "Online" => devices'[d].status = "Online"
    BY <2>1, <2>3 DEF RowsAreOnline
  <2> QED
    BY <2>1, <2>2, <2>4, <2>5
<1> QED
  BY <1>1, <1>2

LEMMA RowsOnlineInit == Init => RowsAreOnline
BY DEF Init, ServiceInit, AtPc, RowsAreOnline, Pending, IngestSteps, Early

(* Only its own steps change a pass: it starts or ends, it has committed,  *)
(* it takes the next device, or it handles the one it has taken.           *)
LEMMA PassSteps ==
  ASSUME TypeOK, [Next]_vars
  PROVE  \/ monitor' = monitor
         \/ FindStaleDevices
         \/ monitor' = Waiting
         \/ /\ CommitOffline
            /\ monitor'.pc = "nextDevice" /\ monitor'.pending = monitor.pending
         \/ /\ monitor.pc = "nextDevice" /\ monitor'.pc = "readState"
            /\ monitor'.device \in monitor.pending
            /\ monitor'.pending = monitor.pending \ {monitor'.device}
         \/ /\ monitor.pc \in Handling /\ monitor'.pc \in Handling
            /\ monitor'.device = monitor.device /\ monitor'.pending = monitor.pending
            /\ monitor'.pc \in {"readHistory", "writeState", "publishStatus"}
                 => monitor.pc \in {"readState", "readHistory", "writeState"}
            /\ monitor'.pc # "readState"
         \/ /\ monitor.pc = "publishState" /\ monitor'.pc = "nextDevice"
            /\ monitor'.pending = monitor.pending
<1> DEFINE Takes == /\ monitor.pc = "nextDevice" /\ monitor'.pc = "readState"
                    /\ monitor'.device \in monitor.pending
                    /\ monitor'.pending = monitor.pending \ {monitor'.device}
           Handles == /\ monitor.pc \in Handling /\ monitor'.pc \in Handling
                      /\ monitor'.device = monitor.device /\ monitor'.pending = monitor.pending
                      /\ monitor'.pc \in {"readHistory", "writeState", "publishStatus"}
                           => monitor.pc \in {"readState", "readHistory", "writeState"}
                      /\ monitor'.pc # "readState"
           Leaves == /\ monitor.pc = "publishState" /\ monitor'.pc = "nextDevice"
                     /\ monitor'.pending = monitor.pending
<1>1. monitor \in MonitorState
  BY DEF TypeOK, MonitorTypeOK
<1>2. monitor' = monitor \/ MonitorPass \/ AbortPass
  BY DEF Next, ServiceStep, MonitorStep, AdminStep, ExpiryStep, Tick, monitorVars, vars
<1>3. AbortPass => monitor' = Waiting
  BY DEF AbortPass
<1>4. ASSUME CommitOffline
      PROVE  \/ monitor' = Waiting
             \/ monitor'.pc = "nextDevice" /\ monitor'.pending = monitor.pending
  BY <1>1, <1>4 DEF CommitOffline, MonitorState
<1>5. ASSUME NextDevice PROVE monitor' = Waiting \/ Takes
  <2>1. ASSUME NEW d \in monitor.pending,
               monitor' = [monitor EXCEPT !.pc = "readState", !.device = d, !.pending = @ \ {d}]
        PROVE  monitor'.pc = "readState" /\ monitor'.device = d /\ monitor'.pending = monitor.pending \ {d}
    BY <1>1, <2>1 DEF MonitorState
  <2> QED
    BY <1>5, <2>1 DEF NextDevice
<1>6. ReadState => Handles
  BY <1>1 DEF ReadState, Handling, MonitorState
<1>7. ReadHistoryForState => Handles
  BY <1>1 DEF ReadHistoryForState, Handling, MonitorState
<1>8. WriteState => Handles
  BY <1>1 DEF WriteState, Handling, MonitorState
<1>9. PublishOffline => Handles
  BY <1>1 DEF PublishOffline, Handling, MonitorState
<1>10. PublishOfflineState => Leaves
  BY <1>1 DEF PublishOfflineState, MonitorState
<1> HIDE DEF Takes, Handles, Leaves
<1>11. \/ monitor' = monitor
       \/ FindStaleDevices
       \/ monitor' = Waiting
       \/ /\ CommitOffline
          /\ monitor'.pc = "nextDevice" /\ monitor'.pending = monitor.pending
       \/ Takes
       \/ Handles
       \/ Leaves
  BY <1>2, <1>3, <1>4, <1>5, <1>6, <1>7, <1>8, <1>9, <1>10 DEF MonitorPass
<1> QED
  BY <1>11 DEF Takes, Handles, Leaves

LEMMA PassNext ==
  ASSUME TypeOK, HistoryInv, NoDanglingHistory, CallerInv, ContactInv, PassInv, [Next]_vars
  PROVE  PassInv'
<1>1. monitor \in MonitorState
  BY DEF TypeOK, MonitorTypeOK
<1>2. FoundAreOnline'
  <2> SUFFICES ASSUME monitor'.pc = "commit", NEW d \in monitor'.pending
               PROVE  monitor'.loaded[d].status = "Online" /\ devices'[d].status = "Online"
    BY DEF FoundAreOnline
  <2>1. CASE FindStaleDevices
    BY <1>1, <2>1 DEF FindStaleDevices, GetStaleOnlineDevices, MonitorState, dbVars
  <2>2. CASE monitor' = monitor
    <3>1. d \in Devices /\ monitor.loaded[d].status = "Online" /\ devices[d].status = "Online"
      BY <1>1, <2>2 DEF PassInv, FoundAreOnline, MonitorState
    <3>2. ~CommitOffline
      BY <1>1, <2>2 DEF CommitOffline, MonitorState, Waiting
    <3> QED
      BY <2>2, <3>1, <3>2, OnlineStays DEF PassInv
  <2> QED
    BY <2>1, <2>2, PassSteps DEF Waiting, Handling
<1>3. HandledIsNotPending'
  <2>1. CASE FindStaleDevices
    BY <1>1, <2>1 DEF FindStaleDevices, MonitorState, HandledIsNotPending, Handling
  <2> QED
    BY <2>1, PassSteps DEF PassInv, HandledIsNotPending, Handling, Waiting
<1> QED
  BY <1>2, <1>3 DEF PassInv

LEMMA PassHolds ==
  Spec => [](TypeOK /\ HistoryInv /\ NoDanglingHistory /\ CallerInv /\ ContactInv /\ PassInv)
<1>1. Init => PassInv
  BY DEF Init, MonitorInit, Waiting, PassInv, FoundAreOnline, HandledIsNotPending, Handling
<1>2. /\ TypeOK /\ HistoryInv /\ NoDanglingHistory /\ CallerInv /\ ContactInv /\ PassInv
      /\ [Next]_vars
      => PassInv'
  BY PassNext
<1> QED
  BY <1>1, <1>2, ContactHolds, PTL DEF Spec

LEMMA StatusNext ==
  ASSUME TypeOK, HistoryInv, NoDanglingHistory, CallerInv, ContactInv, PassInv, QueueInv,
         StatusAsLoaded, [Next]_vars
  PROVE  StatusAsLoaded'
<1> SUFFICES ASSUME NEW r \in Requests, ingest'[r].pc \in Early,
                    ingest'[r].loaded.status # "Online"
             PROVE  devices'[ingest'[r].device].status = ingest'[r].loaded.status
  BY DEF StatusAsLoaded
<1>1. CASE Loads(r)
  BY <1>1, LoadsOwnDevice DEF dbVars
<1>2. CASE ~Loads(r)
  <2> DEFINE d == ingest[r].device
  <2>1. /\ InFlight(r) /\ d \in Devices
        /\ ingest'[r].device = d
        /\ ingest'[r].loaded = ingest[r].loaded
        /\ devices[d].status = ingest[r].loaded.status
    BY <1>2, StillInFlight, InFlightDevice DEF StatusAsLoaded, Early, IngestSteps
  <2>2. ASSUME NEW s \in Requests, Commits(s, d) PROVE FALSE
    <3>1. s = r
      BY <2>1, <2>2, CommitsInFlight, OneCommitPerDevice
    <3> QED
      BY <2>2, <3>1, MovedTo DEF Commits, Early
  <2>3. ~MarksOffline(d)
    BY <2>1 DEF MarksOffline, CommitOffline, PassInv, FoundAreOnline
  <2> QED
    BY <2>1, <2>2, <2>3, StatusSteps DEF PassInv
<1> QED
  BY <1>1, <1>2

LEMMA StatusHolds == ASSUME Overlap = FALSE PROVE Spec => []StatusAsLoaded
<1>1. Init => StatusAsLoaded
  BY DEF Init, ServiceInit, AtPc, StatusAsLoaded, Early
<1>2. /\ TypeOK /\ HistoryInv /\ NoDanglingHistory /\ CallerInv /\ ContactInv /\ PassInv
      /\ QueueInv /\ StatusAsLoaded /\ [Next]_vars
      => StatusAsLoaded'
  BY StatusNext
<1> QED
  BY <1>1, <1>2, PassHolds, QueueHolds, PTL DEF Spec

(* Request r has committed device d as Online and not announced it yet.    *)
OnlineDue(r, d) ==
  /\ ingest[r].pc \in {"cacheWrite", "cacheRead", "rebuild", "publishState", "publishStatus"}
  /\ ingest[r].device = d
  /\ ingest[r].loaded.status # Entity(r).status

LEMMA OwedEvents ==
  ASSUME NEW d, NEW o
  PROVE  /\ o \in Owed(d) <=>
              \/ \E r \in Requests : OnlineDue(r, d) /\ o = <<r, Entity(r).status>>
              \/ OfflineDue(d) /\ o = <<NoRequest, "Offline">>
         /\ o \in Owed(d)' <=>
              \/ \E r \in Requests : OnlineDue(r, d)' /\ o = <<r, Entity(r)'.status>>
              \/ OfflineDue(d)' /\ o = <<NoRequest, "Offline">>
BY DEF Owed, OnlineDue

(* An event of a request is owed since the request committed.              *)
LEMMA OnlineDueSteps ==
  ASSUME TypeOK, [Next]_vars, NEW r \in Requests, NEW d, OnlineDue(r, d)'
  PROVE  Entity(r)' = Entity(r) /\ (OnlineDue(r, d) \/ Commits(r, d))
<1>1. ingest'[r].pc \in IngestSteps /\ Pending(r)' /\ ~Loads(r)
  BY LoadsOwnDevice DEF OnlineDue, Pending, IngestSteps, Early
<1>2. ingest[r].device = d /\ ingest'[r].loaded = ingest[r].loaded /\ Entity(r)' = Entity(r)
  BY <1>1, StillInFlight DEF OnlineDue, Entity
<1>3. CASE ~Pending(r)
  BY <1>1, <1>2, <1>3, PassesCommit
<1>4. CASE Pending(r)
  <2>1. ASSUME ingest[r].pc = "publishAlerts" PROVE FALSE
    <3>1. ASSUME NEW outcome \in Ended, End(r, outcome) PROVE FALSE
      BY <1>1, <3>1, MovedTo DEF Ended, IngestSteps
    <3>2. ~Ingest(r) /\ ~AbortIngest(r)
      BY <2>1, <3>1 DEF Ingest, LoadDevice, LoadRules, LoadActiveAlerts, RequireDevice, SaveChanges,
         CacheWrite, CacheRead, RebuildState, PublishState, PublishStatus, PublishAlerts,
         AbortIngest, Ended
    <3>3. ingest'[r] = ingest[r]
      BY <3>2, OwnSteps
    <3> QED
      BY <2>1, <3>3 DEF OnlineDue
  <2> QED
    BY <1>2, <1>4, <2>1 DEF OnlineDue, Pending, IngestSteps, Early
<1> QED
  BY <1>2, <1>3, <1>4

(* The event of a pass is owed since the pass committed.                   *)
LEMMA OfflineDueSteps ==
  ASSUME TypeOK, [Next]_vars, NEW d \in Devices, OfflineDue(d)'
  PROVE  OfflineDue(d) \/ MarksOffline(d)
<1>1. monitor \in MonitorState /\ devices \in [Devices -> DeviceRow]
  BY DEF TypeOK, MonitorTypeOK, DatabaseTypeOK
<1>2. CASE CommitOffline
  BY <1>1, <1>2 DEF CommitOffline, MarksOffline, OfflineDue, MonitorState, MonitorSteps, Waiting
<1>3. CASE FindStaleDevices
  BY <1>1, <1>3 DEF FindStaleDevices, OfflineDue, MonitorState, MonitorSteps
<1> QED
  BY <1>2, <1>3, PassSteps DEF OfflineDue, MonitorSteps, Handling, Waiting

EventsFollow(d) ==
  /\ devices'[d].status # devices[d].status => Owed(d)' \ Owed(d) # {}
  /\ \A o \in Owed(d)' \ Owed(d) :
       /\ devices'[d].status = o[2]
       /\ ~Overlap => devices[d].status # o[2]
  /\ announced'[d] # announced[d] =>
       \E o \in Owed(d) \ Owed(d)' : announced'[d] = o[2]

LEMMA EventSteps ==
  ASSUME TypeOK, HistoryInv, NoDanglingHistory, CallerInv, ContactInv, PassInv,
         ~Overlap => StatusAsLoaded, [Next]_vars, NEW d \in Devices
  PROVE  EventsFollow(d)
<1>1. ASSUME NEW r \in Requests, Commits(r, d)
      PROVE  /\ ingest[r].pc = "commit" /\ ingest[r].device = d
             /\ ingest'[r].pc = "cacheWrite" /\ ingest'[r].device = d
             /\ ingest'[r].loaded = ingest[r].loaded
             /\ Entity(r)' = Entity(r)
  <2>1. ingest[r] \in IngestState /\ ingest \in [Requests -> IngestState]
    BY DEF TypeOK, ServiceTypeOK
  <2>2. ingest[r].pc = "commit" /\ ingest[r].device = d /\ Goto(r, "cacheWrite")
    BY <1>1, CommitsInFlight DEF Commits
  <2>3. ingest'[r] = [ingest[r] EXCEPT !.pc = "cacheWrite"]
    BY <2>1, <2>2 DEF Goto
  <2>4. /\ ingest'[r].pc = "cacheWrite"
        /\ ingest'[r].device = ingest[r].device
        /\ ingest'[r].loaded = ingest[r].loaded
    BY <2>1, <2>3 DEF IngestState
  <2>5. Entity(r)' = Entity(r)
    BY <2>4 DEF Entity
  <2> QED
    BY <2>2, <2>4, <2>5
<1>2. ASSUME MarksOffline(d)
      PROVE  OfflineDue(d)' /\ ~OfflineDue(d) /\ devices[d].status = "Online" /\ devices'[d].status = "Offline"
  <2>1. monitor \in MonitorState /\ monitor.pc = "commit" /\ d \in monitor.pending
    BY <1>2 DEF MarksOffline, CommitOffline, TypeOK, MonitorTypeOK
  <2>2. OfflineDue(d)' /\ ~OfflineDue(d)
    BY <1>2, <2>1 DEF MarksOffline, OfflineDue, MonitorSteps, MonitorState
  <2>3. monitor.loaded[d].status = "Online" /\ devices[d].status = "Online"
    BY <2>1 DEF PassInv, FoundAreOnline
  <2>4. monitor.loaded[d] \in DeviceRow /\ devices[d] \in DeviceRow
    BY <2>1 DEF MonitorState, TypeOK, DatabaseTypeOK
  <2>5. devices'[d].status = "Offline"
    BY <1>2, <2>3, <2>4, SavedColumns, MarkedColumns DEF MarksOffline
  <2> QED
    BY <2>2, <2>3, <2>5
<1>3. ASSUME devices'[d].status # devices[d].status PROVE Owed(d)' \ Owed(d) # {}
  <2>1. ASSUME NEW r \in Requests, Commits(r, d), ingest[r].loaded.status # "Online"
        PROVE  <<r, Entity(r).status>> \in Owed(d)' \ Owed(d)
    <3>1. OnlineDue(r, d)' /\ ~OnlineDue(r, d)
      BY <1>1, <2>1, EntityIsOnline DEF OnlineDue
    <3>2. r # NoRequest
      BY DomainAssumption
    <3> QED
      BY <1>1, <2>1, <3>1, <3>2, OwedEvents
  <2>2. ASSUME MarksOffline(d) PROVE <<NoRequest, "Offline">> \in Owed(d)' \ Owed(d)
    <3>1. NoRequest \notin Requests
      BY DomainAssumption
    <3> QED
      BY <1>2, <2>2, <3>1, OwedEvents
  <2> QED
    BY <1>3, <2>1, <2>2, StatusSteps DEF PassInv
<1>4. ASSUME NEW o \in Owed(d)' \ Owed(d)
      PROVE  devices'[d].status = o[2] /\ (~Overlap => devices[d].status # o[2])
  <2>1. ASSUME NEW r \in Requests, OnlineDue(r, d)', o = <<r, Entity(r)'.status>>
        PROVE  devices'[d].status = o[2] /\ (~Overlap => devices[d].status # o[2])
    <3>1. Commits(r, d) /\ Entity(r)' = Entity(r)
      BY <2>1, OnlineDueSteps, OwedEvents
    <3>2. o[2] = "Online" /\ Entity(r).status = "Online" /\ ingest[r].loaded.status # "Online"
      BY <1>1, <2>1, <3>1, EntityIsOnline DEF OnlineDue
    <3>3. devices[d] \in DeviceRow /\ devices'[d] = SaveDevice(devices[d], ingest[r].loaded, Entity(r))
      BY <3>1 DEF Commits, TypeOK, DatabaseTypeOK
    <3>4. devices'[d].status = "Online"
      BY <3>2, <3>3, SavedColumns
    <3>5. ~Overlap => devices[d].status # "Online"
      BY <1>1, <3>1, <3>2 DEF StatusAsLoaded, Early
    <3> QED
      BY <3>2, <3>4, <3>5
  <2>2. ASSUME OfflineDue(d)', o = <<NoRequest, "Offline">>
        PROVE  devices'[d].status = o[2] /\ (~Overlap => devices[d].status # o[2])
    <3>1. MarksOffline(d)
      BY <2>2, OfflineDueSteps, OwedEvents
    <3> QED
      BY <1>2, <2>2, <3>1
  <2> QED
    BY <2>1, <2>2, OwedEvents
<1>5. ASSUME announced'[d] # announced[d]
      PROVE  \E o \in Owed(d) \ Owed(d)' : announced'[d] = o[2]
  <2>1. ASSUME NEW r \in Requests, PublishStatus(r), ingest[r].device = d,
               ingest[r].loaded.status # Entity(r).status, announced'[d] = Entity(r).status
        PROVE  \E o \in Owed(d) \ Owed(d)' : announced'[d] = o[2]
    <3>1. OnlineDue(r, d) /\ ~OnlineDue(r, d)' /\ r # NoRequest
      BY <2>1, MovedTo, DomainAssumption DEF PublishStatus, OnlineDue
    <3>2. <<r, Entity(r).status>> \in Owed(d) \ Owed(d)'
      BY <3>1, OwedEvents
    <3> QED
      BY <2>1, <3>2
  <2>2. ASSUME PublishOffline, monitor.device = d, announced'[d] = "Offline"
        PROVE  \E o \in Owed(d) \ Owed(d)' : announced'[d] = o[2]
    <3>1. monitor \in MonitorState /\ monitor.pc = "publishStatus" /\ d \notin monitor.pending
      BY <2>2 DEF PublishOffline, TypeOK, MonitorTypeOK, PassInv, HandledIsNotPending, Handling
    <3>2. OfflineDue(d) /\ ~OfflineDue(d)'
      BY <2>2, <3>1 DEF PublishOffline, OfflineDue, MonitorSteps, MonitorState
    <3>3. NoRequest \notin Requests
      BY DomainAssumption
    <3>4. <<NoRequest, "Offline">> \in Owed(d) \ Owed(d)'
      BY <3>2, <3>3, OwedEvents
    <3> QED
      BY <2>2, <3>4
  <2> QED
    BY <1>5, <2>1, <2>2, AnnouncedSteps
<1> QED
  BY <1>3, <1>4, <1>5 DEF EventsFollow

(* Every commit that changes a status owes the dashboards an event of just *)
(* that change, and nothing else is announced, although requests and       *)
(* passes compute their events from rows they loaded before; that the      *)
(* status was another before needs devices that wait for the answer.       *)
THEOREM StatusEventsFollowCommits == Spec => StatusEventsAreTransitions
<1>1. Spec => [](~Overlap => StatusAsLoaded)
  <2>1. CASE Overlap
    <3>1. ~Overlap => StatusAsLoaded
      BY <2>1
    <3> QED
      BY <3>1, PTL
  <2>2. CASE Overlap = FALSE
    <3>1. Spec => []StatusAsLoaded
      BY <2>2, StatusHolds
    <3> QED
      BY <3>1, PTL
  <2> QED
    BY <2>1, <2>2, OverlapAssumption
<1>2. /\ TypeOK /\ HistoryInv /\ NoDanglingHistory /\ CallerInv /\ ContactInv /\ PassInv
      /\ (~Overlap => StatusAsLoaded) /\ [Next]_vars
      => \A d \in Devices : EventsFollow(d)
  BY EventSteps
<1> QED
  BY <1>1, <1>2, PassHolds, PTL DEF Spec, StatusEventsAreTransitions, EventsFollow

-----------------------------------------------------------------------------
(* The cache as a mirror of the database.                                  *)

(* No pass and no state query is in progress that could write later what   *)
(* it read before a commit.                                                *)
Undisturbed == NoPass /\ \A g \in Readers : reader[g].pc = "idle"

(* GetLatestByMetric over any set of points, and a reading that is the     *)
(* latest of a metric, or none if there is none.                           *)
Latest(points, d) ==
  {p \in points :
     /\ p.device = d
     /\ \A q \in points : q.device = d /\ q.metric = p.metric =>
          q.timestamp < p.timestamp \/ (q.timestamp = p.timestamp /\ q.id <= p.id)}

IsLatest(points, d, m, reading) ==
  \/ \E p \in Latest(points, d) :
       p.metric = m /\ reading = [value |-> p.value, timestamp |-> p.timestamp]
  \/ reading = NoReading /\ \A p \in points : ~(p.device = d /\ p.metric = m)

(* The inductive invariant: points are numbered; the cache mirrors the     *)
(* database, or will once the request that has committed has written.      *)
PointsNumbered ==
  \A p \in telemetry : /\ p.id <= nextId
                       /\ \A q \in telemetry : q.id = p.id => q = p

Mirrors(state, row, points, d) ==
  /\ state.status = row.status
  /\ state.lastSeenAt = row.lastSeenAt
  /\ \A m \in Metrics : IsLatest(points, d, m, state.metrics[m])

HasPoints(d) == \E p \in telemetry : p.device = d
Writes(r, d) == ingest[r].pc = "cacheWrite" /\ ingest[r].device = d

CacheFollows(d) ==
  /\ ~HasPoints(d) => redis[d] = NoState
  /\ HasPoints(d) =>
       /\ \A r \in Requests : Writes(r, d) =>
            Mirrors(UpdateScript(redis[d], StateToCache(r)), devices[d], telemetry, d)
       /\ (\A r \in Requests : ~Writes(r, d)) => Mirrors(redis[d], devices[d], telemetry, d)

MirrorInv == PointsNumbered /\ \A d \in Devices : CacheFollows(d)

LEMMA LatestReading ==
  ASSUME TypeOK, PointsNumbered, NEW d, NEW m \in Metrics, NEW reading,
         IsLatest(telemetry, d, m, reading)
  PROVE  LatestReadings(d)[m] = reading
<1>1. GetLatestByMetric(d) = Latest(telemetry, d)
  BY DEF GetLatestByMetric, Latest
<1>2. ASSUME NEW p \in Latest(telemetry, d), p.metric = m,
             reading = [value |-> p.value, timestamp |-> p.timestamp]
      PROVE  LatestReadings(d)[m] = reading
  <2> DEFINE c == CHOOSE c \in GetLatestByMetric(d) : c.metric = m
  <2>1. c \in Latest(telemetry, d) /\ c.metric = m
    BY <1>1, <1>2
  <2>2. LatestReadings(d)[m] = [value |-> c.value, timestamp |-> c.timestamp]
    BY <1>1, <1>2 DEF LatestReadings
  <2> HIDE DEF c
  <2>3. c \in Point /\ p \in Point /\ c \in telemetry /\ p \in telemetry
    BY <1>2, <2>1 DEF Latest, TypeOK, DatabaseTypeOK
  <2>4. c.id = p.id
    BY <1>2, <2>1, <2>3 DEF Latest, Point, Time
  <2>5. c = p
    BY <2>3, <2>4 DEF PointsNumbered
  <2> QED
    BY <1>2, <2>2, <2>5
<1>3. ASSUME reading = NoReading, \A p \in telemetry : ~(p.device = d /\ p.metric = m)
      PROVE  LatestReadings(d)[m] = reading
  <2>1. ~ \E p \in GetLatestByMetric(d) : p.metric = m
    BY <1>3 DEF GetLatestByMetric
  <2> QED
    BY <1>3, <2>1 DEF LatestReadings
<1> QED
  BY <1>2, <1>3 DEF IsLatest

LEMMA LatestStays ==
  ASSUME NEW points, NEW more, points \subseteq more, NEW d, NEW m, NEW reading,
         IsLatest(points, d, m, reading),
         \A p \in more : p.device = d /\ p.metric = m => p \in points
  PROVE  IsLatest(more, d, m, reading)
BY DEF IsLatest, Latest

(* Merging the batch as the script does gives the latest of all points:    *)
(* of points with one timestamp both take the one inserted last.           *)
LEMMA LatestAfterBatch ==
  ASSUME TypeOK, PointsNumbered, NEW r \in Requests, NEW d \in Devices, NEW m \in Metrics,
         NEW reading, IsLatest(telemetry, d, m, reading), AddPoints(d, Command[r])
  PROVE  IsLatest(telemetry', d, m, MergeReading(reading, BatchReadings(Command[r])[m]))
<1> DEFINE s == Command[r].metrics
           t == Command[r].timestamp
           Added(i) == [id |-> nextId + i, device |-> d, metric |-> s[i].metric,
                        value |-> s[i].value, timestamp |-> t]
           incoming == BatchReadings(Command[r])[m]
<1>1. /\ telemetry' = telemetry \cup {Added(i) : i \in DOMAIN s}
      /\ t \in Time /\ nextId \in Nat
      /\ DOMAIN s \subseteq Nat \ {0}
  BY DomainAssumption DEF AddPoints, IngestTelemetryCommand, TypeOK, DatabaseTypeOK
<1>2. \A p \in telemetry : p \in Point /\ p.id \in Nat /\ p.timestamp \in Nat /\ p.id <= nextId
  BY DEF TypeOK, DatabaseTypeOK, Point, Time, PointsNumbered
<1>3. \A i \in DOMAIN s : /\ Added(i).id = nextId + i /\ Added(i).device = d
                          /\ Added(i).metric = s[i].metric /\ Added(i).value = s[i].value
                          /\ Added(i).timestamp = t
  OBVIOUS
<1>4. CASE ~Includes(Command[r], m)
  <2>1. incoming = NoReading
    BY <1>4 DEF BatchReadings
  <2>2. MergeReading(reading, incoming) = reading
    BY <2>1 DEF MergeReading, NoReading
  <2>3. \A p \in telemetry' : p.device = d /\ p.metric = m => p \in telemetry
    BY <1>1, <1>3, <1>4 DEF Includes
  <2>4. telemetry \subseteq telemetry'
    BY <1>1
  <2> QED
    BY <2>2, <2>3, <2>4, LatestStays
<1>5. CASE Includes(Command[r], m)
  <2>1. PICK i \in DOMAIN s : /\ s[i].metric = m
                             /\ LastValue(Command[r], m) = s[i].value
                             /\ \A j \in DOMAIN s : s[j].metric = m => j <= i
    BY <1>5, LastValueIsSent
  <2>2. incoming = [value |-> Added(i).value, timestamp |-> Added(i).timestamp]
    BY <1>5, <2>1 DEF BatchReadings
  <2>3. Added(i) \in telemetry' /\ Added(i).metric = m /\ Added(i).device = d
    BY <1>1, <2>1
  <2>4. incoming.timestamp = t
    BY <2>2
  <2> SUFFICES IsLatest(telemetry', d, m, MergeReading(reading, incoming))
    OBVIOUS
  <2> HIDE DEF Added, incoming, s, t
  <2>5. ASSUME \A q \in telemetry : q.device = d /\ q.metric = m => q.timestamp <= t
        PROVE  Added(i) \in Latest(telemetry', d)
    <3> SUFFICES ASSUME NEW q \in telemetry', q.device = d, q.metric = m
                 PROVE  \/ q.timestamp < t
                        \/ q.timestamp = t /\ q.id <= Added(i).id
      BY <1>3, <2>3 DEF Latest
    <3>1. CASE q \in telemetry
      <4>1. i \in Nat /\ nextId \in Nat /\ Added(i).id = nextId + i
        BY <1>1, <1>3
      <4> QED
        BY <1>1, <1>2, <2>5, <3>1, <4>1 DEF Time
    <3>2. ASSUME NEW j \in DOMAIN s, q = Added(j)
          PROVE  q.timestamp = t /\ q.id <= Added(i).id
      <4>1. j <= i /\ i \in Nat /\ j \in Nat
        BY <1>1, <1>3, <2>1, <3>2
      <4> QED
        BY <1>1, <1>3, <3>2, <4>1
    <3> QED
      BY <1>1, <3>1, <3>2
  <2>6. ASSUME Added(i) \in Latest(telemetry', d), MergeReading(reading, incoming) = incoming
        PROVE  IsLatest(telemetry', d, m, MergeReading(reading, incoming))
    BY <2>2, <2>3, <2>6 DEF IsLatest
  <2>7. CASE reading = NoReading /\ \A p \in telemetry : ~(p.device = d /\ p.metric = m)
    <3>1. MergeReading(reading, incoming) = incoming
      BY <1>1, <2>4, <2>7 DEF MergeReading, NoReading, NoTime, Time
    <3> QED
      BY <2>5, <2>6, <2>7, <3>1
  <2>8. ASSUME NEW p \in Latest(telemetry, d), p.metric = m,
               reading = [value |-> p.value, timestamp |-> p.timestamp]
        PROVE  IsLatest(telemetry', d, m, MergeReading(reading, incoming))
    <3>1. p \in telemetry /\ p.device = d /\ p.timestamp \in Nat /\ reading.timestamp = p.timestamp
      BY <1>2, <2>8 DEF Latest
    <3>2. CASE p.timestamp <= t
      <4>1. MergeReading(reading, incoming) = incoming
        BY <1>1, <2>4, <3>1, <3>2 DEF MergeReading, NoTime, Time
      <4>2. \A q \in telemetry : q.device = d /\ q.metric = m => q.timestamp <= t
        BY <1>1, <1>2, <2>8, <3>1, <3>2 DEF Latest, Time
      <4> QED
        BY <2>5, <2>6, <4>1, <4>2
    <3>3. CASE ~(p.timestamp <= t)
      <4>1. MergeReading(reading, incoming) = reading
        BY <1>1, <2>4, <3>1, <3>3 DEF MergeReading, NoTime, Time
      <4>2. ASSUME NEW j \in DOMAIN s PROVE Added(j).timestamp < p.timestamp
        BY <1>1, <1>3, <3>1, <3>3 DEF Time
      <4>3. p \in Latest(telemetry', d)
        BY <1>1, <2>8, <3>1, <4>2 DEF Latest
      <4> QED
        BY <2>8, <4>1, <4>3 DEF IsLatest
    <3> QED
      BY <3>2, <3>3
  <2> QED
    BY <2>7, <2>8 DEF IsLatest
<1> QED
  BY <1>4, <1>5

LEMMA NumberedNext == TypeOK /\ PointsNumbered /\ [Next]_vars => PointsNumbered'
<1> SUFFICES ASSUME TypeOK, PointsNumbered, DatabaseStep PROVE PointsNumbered'
  BY DatabaseSteps
<1>1. CASE UNCHANGED <<telemetry, nextId>>
  BY <1>1 DEF PointsNumbered
<1>2. ASSUME NEW r \in Requests, NEW d, AddPoints(d, Command[r]) PROVE PointsNumbered'
  <2> DEFINE s == Command[r].metrics
             Added(i) == [id |-> nextId + i, device |-> d, metric |-> s[i].metric,
                          value |-> s[i].value, timestamp |-> Command[r].timestamp]
  <2>1. /\ telemetry' = telemetry \cup {Added(i) : i \in DOMAIN s}
        /\ nextId' = nextId + Len(s)
    BY <1>2 DEF AddPoints
  <2>2. nextId \in Nat /\ Len(s) \in Nat /\ DOMAIN s = 1..Len(s)
    BY DomainAssumption DEF IngestTelemetryCommand, TypeOK, DatabaseTypeOK
  <2>3. \A p \in telemetry : p.id \in Nat /\ p.id <= nextId
    BY DEF TypeOK, DatabaseTypeOK, Point, PointsNumbered
  <2>4. \A i \in DOMAIN s : Added(i).id = nextId + i
    OBVIOUS
  <2> HIDE DEF Added, s
  <2> SUFFICES ASSUME NEW p \in telemetry'
               PROVE  p.id <= nextId' /\ \A q \in telemetry' : q.id = p.id => q = p
    BY DEF PointsNumbered
  <2>5. CASE p \in telemetry
    <3>1. \A i \in DOMAIN s : Added(i).id # p.id
      BY <2>2, <2>3, <2>4, <2>5
    <3>2. p.id <= nextId'
      BY <2>1, <2>2, <2>3, <2>5
    <3> QED
      BY <2>1, <2>5, <3>1, <3>2 DEF PointsNumbered
  <2>6. ASSUME NEW i \in DOMAIN s, p = Added(i)
        PROVE  p.id <= nextId' /\ \A q \in telemetry' : q.id = p.id => q = p
    <3>1. p.id = nextId + i /\ p.id <= nextId'
      BY <2>1, <2>2, <2>4, <2>6
    <3>2. \A q \in telemetry : q.id # p.id
      BY <2>2, <2>3, <3>1
    <3>3. \A j \in DOMAIN s : Added(j).id = p.id => j = i
      BY <2>2, <2>4, <3>1
    <3> QED
      BY <2>1, <2>6, <3>1, <3>2, <3>3
  <2> QED
    BY <2>1, <2>5, <2>6
<1> QED
  BY <1>1, <1>2 DEF DatabaseStep, dbVars, SaveChanges, CommitOffline, InsertDevice, SaveEditedDevice,
     DeleteLoadedDevice, SaveEditedRule, DeleteLoadedRule

(* What the cache may do of its own: nothing but the write of a request    *)
(* that has committed, and the removal of a device without history.        *)
LEMMA RedisSteps ==
  ASSUME Faults \subseteq {"notify"}, TypeOK, CallerInv, Undisturbed, [Next]_vars, NEW d \in Devices
  PROVE  \/ redis'[d] = redis[d]
         \/ redis'[d] = NoState /\ ~Stored(d)
         \/ \E r \in Requests : Writes(r, d) /\ CacheWrite(r)
<1> DEFINE Goal == \/ redis'[d] = redis[d]
                   \/ redis'[d] = NoState /\ ~Stored(d)
                   \/ \E r \in Requests : Writes(r, d) /\ CacheWrite(r)
<1>1. redis \in [Devices -> DeviceState]
  BY DEF TypeOK, StoreTypeOK
<1>2. ASSUME UNCHANGED redis PROVE Goal
  BY <1>2
<1>3. ASSUME NEW r \in Requests, CacheWrite(r) PROVE Goal
  <2>1. CASE ingest[r].device = d
    BY <1>3, <2>1 DEF Writes, CacheWrite
  <2>2. CASE ingest[r].device # d
    BY <1>1, <1>3, <2>2 DEF CacheWrite, SetAsyncFails, SetAsync
  <2> QED
    BY <2>1, <2>2
<1>4. ASSUME NEW a \in Admins, RemoveKey(a) PROVE Goal
  <2>1. CASE admin[a].device = d
    <3>1. ~Stored(d)
      BY <1>4, <2>1 DEF RemoveKey, CallerInv, RemovalsAreFinal, Stored
    <3> QED
      BY <1>1, <1>4, <2>1, <3>1 DEF RemoveKey, RemoveAsync
  <2>2. CASE admin[a].device # d
    BY <1>1, <1>4, <2>2 DEF RemoveKey, RemoveAsync
  <2> QED
    BY <2>1, <2>2
<1> HIDE DEF Goal
<1>5. ASSUME NEW r \in Requests, Ingest(r) \/ AbortIngest(r) PROVE Goal
  BY <1>2, <1>3, <1>5 DEF Ingest, LoadDevice, LoadRules, LoadActiveAlerts, RequireDevice, SaveChanges,
     CacheRead, RebuildState, PublishState, PublishStatus, PublishAlerts, AbortIngest
<1>6. ASSUME NEW g \in Readers, Read(g) \/ AbortReader(g) PROVE Goal
  BY <1>2, <1>6 DEF Read, GetState, ReadCachedState, ReadHistory, WriteRebuiltState, AbortReader,
     Undisturbed
<1>7. ASSUME MonitorStep PROVE Goal
  BY <1>2, <1>7 DEF MonitorStep, MonitorPass, FindStaleDevices, CommitOffline, NextDevice, ReadState,
     ReadHistoryForState, WriteState, PublishOffline, PublishOfflineState, AbortPass, Tick,
     Undisturbed, NoPass
<1>8. ASSUME NEW a \in Admins, Administer(a) \/ AbortAdmin(a) PROVE Goal
  BY <1>2, <1>4, <1>8 DEF Administer, AdvanceAdmin, RegisterDevice, DeleteDevice, EditDevice,
     InsertDevice, SaveEditedDevice, CheckHistory, DeleteLoadedDevice, CreateRule, EditRule,
     CheckDevice, SaveEditedRule, DeleteRule, DeleteLoadedRule, AbortAdmin
<1>9. ASSUME ExpiryStep \/ UNCHANGED vars PROVE Goal
  BY <1>2, <1>9 DEF ExpiryStep, Expire, vars
<1>10. Goal
  BY <1>5, <1>6, <1>7, <1>8, <1>9 DEF Next, ServiceStep, AdminStep
<1> QED
  BY <1>10 DEF Goal

LEMMA WriteSteps ==
  ASSUME Faults \subseteq {"notify"}, TypeOK, [Next]_vars, NEW r \in Requests, NEW d \in Devices
  PROVE  /\ Writes(r, d) => ingest'[r] = ingest[r] \/ CacheWrite(r)
         /\ Writes(r, d)' => ingest'[r] = ingest[r] \/ Commits(r, d)
<1>1. ASSUME Writes(r, d) PROVE ingest'[r] = ingest[r] \/ CacheWrite(r)
  <2>1. ASSUME Ingest(r) PROVE CacheWrite(r)
    BY <1>1, <2>1 DEF Writes, Ingest, LoadDevice, LoadRules, LoadActiveAlerts, RequireDevice,
       SaveChanges, CacheRead, RebuildState, PublishState, PublishStatus, PublishAlerts
  <2> QED
    BY <2>1, OwnSteps DEF AbortIngest
<1>2. ASSUME Writes(r, d)', ingest'[r] # ingest[r] PROVE Commits(r, d)
  <2>1. ingest'[r].pc = "cacheWrite" /\ ingest'[r].device = d
    BY <1>2 DEF Writes
  <2>2. ASSUME Pending(r) PROVE FALSE
    <3>1. ~(LoadDevice(r) \/ LoadRules(r) \/ LoadActiveAlerts(r) \/ RequireDevice(r) \/ SaveChanges(r))
      BY <2>2 DEF LoadDevice, LoadRules, LoadActiveAlerts, RequireDevice, SaveChanges, Pending,
         IngestSteps, Early
    <3>2. ~CacheWrite(r) /\ ~PublishState(r) /\ ~PublishStatus(r) /\ ~PublishAlerts(r) /\ ~AbortIngest(r)
      BY <2>1, MovedTo DEF CacheWrite, PublishState, PublishStatus, PublishAlerts, AbortIngest
    <3>3. \A state : ~Notify(r, state)
      BY <2>1 DEF Notify, TypeOK, ServiceTypeOK, IngestState
    <3>4. ~CacheRead(r) /\ ~RebuildState(r)
      BY <2>1, <3>3, MovedTo DEF CacheRead, RebuildState
    <3> QED
      BY <1>2, <3>1, <3>2, <3>4, OwnSteps DEF Ingest
  <2>3. Pending(r)'
    BY <2>1 DEF Pending, IngestSteps, Early
  <2>4. Commits(r, ingest[r].device)
    BY <2>2, <2>3, PassesCommit
  <2>5. ingest[r].device = d
    BY <2>1, <2>4 DEF Commits, Goto, TypeOK, ServiceTypeOK, IngestState
  <2> QED
    BY <2>4, <2>5
<1> QED
  BY <1>1, <1>2

LEMMA WritersHavePoints ==
  ASSUME TypeOK, HistoryInv, NEW r \in Requests, NEW d, Writes(r, d)
  PROVE  HasPoints(d)
<1>1. Seen(telemetry, d, Entity(r).lastSeenAt)
  BY DEF Writes, HistoryInv, IngestPast, Committed, Past, StateToCache, StateOf
<1>2. Entity(r).lastSeenAt # NoTime
  BY IngestFieldTypes, RecordedColumns, DomainAssumption DEF Entity, IngestTelemetryCommand
<1> QED
  BY <1>1, <1>2 DEF Seen, HasPoints

(* A commit: the script will make of the cached state what the commit made *)
(* of the database.                                                        *)
LEMMA CommitFollows ==
  ASSUME Faults \subseteq {"notify"}, TypeOK, HistoryInv, QueueInv, SerialInv, RowsAreOnline,
         PointsNumbered, [Next]_vars,
         NEW d \in Devices, CacheFollows(d), NEW r \in Requests, Commits(r, d)
  PROVE  CacheFollows(d)'
<1> DEFINE hash == redis[d]
           state == StateToCache(r)
           loaded == ingest[r].loaded
<1>1. ingest[r].pc = "commit" /\ InFlight(r) /\ ingest[r].device = d
  BY CommitsInFlight
<1>2. /\ ingest'[r].pc = "cacheWrite" /\ ingest'[r].device = d /\ ingest'[r].loaded = loaded
      /\ UNCHANGED redis
  BY <1>1 DEF Commits, SaveChanges, Goto, TypeOK, ServiceTypeOK, IngestState
<1>3. StateToCache(r)' = state
  BY <1>2 DEF StateToCache, Entity
<1>4. \A s \in Requests : ~Writes(s, d)
  BY <1>1, OneCommitPerDevice DEF Writes, InFlight, IngestSteps
<1>5. \A s \in Requests : Writes(s, d)' => s = r
  <2> SUFFICES ASSUME NEW s \in Requests, Writes(s, d)' PROVE s = r
    OBVIOUS
  <2>1. CASE Commits(s, d)
    BY <1>1, <2>1, CommitsInFlight, OneCommitPerDevice
  <2>2. CASE ingest'[s] = ingest[s]
    BY <1>4, <2>2 DEF Writes
  <2> QED
    BY <2>1, <2>2, WriteSteps
<1>6. hash = NoState \/ Mirrors(hash, devices[d], telemetry, d)
  BY <1>4 DEF CacheFollows
<1>7. /\ hash \in DeviceState /\ devices[d] \in DeviceRow /\ loaded \in DeviceRow /\ state \in DeviceState
      /\ devices'[d] = SaveDevice(devices[d], loaded, Entity(r))
      /\ Command[r].timestamp \in Time
      /\ AddPoints(d, Command[r])
  BY IngestFieldTypes, DomainAssumption DEF Commits, TypeOK, StoreTypeOK, DatabaseTypeOK,
     IngestTelemetryCommand
<1>8. /\ loaded.lastSeenAt = devices[d].lastSeenAt
      /\ loaded.status = "Online" => devices[d].status = "Online"
  BY <1>1 DEF SerialInv, LoadedIsCurrent, RowsAreOnline, Early
<1>9. /\ Entity(r).status = "Online" /\ Entity(r).lastSeenAt >= loaded.lastSeenAt
      /\ state.status = Entity(r).status /\ state.lastSeenAt = Entity(r).lastSeenAt
      /\ state.metrics = BatchReadings(Command[r])
  BY <1>7, RecordedColumns DEF Entity, StateToCache, StateOf
<1>10. devices'[d].status = state.status /\ devices'[d].lastSeenAt = state.lastSeenAt
  BY <1>7, <1>8, <1>9, SavedColumns
<1>11. hash.lastSeenAt = NoTime \/ hash.lastSeenAt = loaded.lastSeenAt
  BY <1>6, <1>8 DEF Mirrors, NoState
<1>12. \A m \in Metrics : IsLatest(telemetry, d, m, hash.metrics[m])
  <2>1. CASE Mirrors(hash, devices[d], telemetry, d)
    BY <2>1 DEF Mirrors
  <2>2. CASE HasPoints(d)
    BY <1>4, <2>1, <2>2 DEF CacheFollows
  <2>3. CASE ~HasPoints(d)
    <3>1. hash = NoState
      BY <2>3 DEF CacheFollows
    <3> QED
      BY <2>3, <3>1 DEF HasPoints, IsLatest, NoState
  <2> QED
    BY <2>2, <2>3
<1>13. HasPoints(d)'
  <2>1. 1 \in DOMAIN Command[r].metrics
    BY DomainAssumption DEF IngestTelemetryCommand
  <2> QED
    BY <1>7, <2>1, PointsAdded DEF HasPoints
<1> HIDE DEF hash, state, loaded
<1>14. hash.lastSeenAt < 0 \/ state.lastSeenAt >= hash.lastSeenAt
  BY <1>9, <1>11 DEF NoTime
<1>15. /\ UpdateScript(hash, state).status = state.status
       /\ UpdateScript(hash, state).lastSeenAt = state.lastSeenAt
  BY <1>14 DEF UpdateScript
<1>16. ASSUME NEW m \in Metrics
       PROVE  IsLatest(telemetry', d, m, UpdateScript(hash, state).metrics[m])
  <2>1. UpdateScript(hash, state).metrics[m] =
          MergeReading(hash.metrics[m], BatchReadings(Command[r])[m])
    BY <1>9 DEF UpdateScript
  <2> QED
    BY <1>7, <1>12, <2>1, LatestAfterBatch
<1>17. Mirrors(UpdateScript(hash, state), devices'[d], telemetry', d)
  BY <1>10, <1>15, <1>16 DEF Mirrors
<1> QED
  BY <1>2, <1>3, <1>5, <1>13, <1>17 DEF CacheFollows, Writes, hash

LEMMA WriteFollows ==
  ASSUME Faults \subseteq {"notify"}, TypeOK, HistoryInv, QueueInv, [Next]_vars,
         NEW d \in Devices, CacheFollows(d), NEW r \in Requests, Writes(r, d), CacheWrite(r)
  PROVE  CacheFollows(d)'
<1>1. /\ redis'[d] = UpdateScript(redis[d], StateToCache(r))
      /\ UNCHANGED dbVars
      /\ ingest'[r].pc = "cacheRead"
  BY MovedTo DEF Writes, CacheWrite, SetAsyncFails, SetAsync, TypeOK, StoreTypeOK
<1>2. HasPoints(d)
  BY WritersHavePoints
<1>3. Mirrors(redis'[d], devices[d], telemetry, d)
  BY <1>1, <1>2 DEF CacheFollows
<1>4. ASSUME NEW s \in Requests, Writes(s, d)' PROVE FALSE
  <2>1. s # r
    BY <1>1, <1>4 DEF Writes
  <2>2. CASE Commits(s, d)
    BY <2>1, <2>2, CommitsInFlight, OneCommitPerDevice DEF Writes, InFlight, IngestSteps
  <2>3. CASE ingest'[s] = ingest[s]
    BY <1>4, <2>1, <2>3, OneCommitPerDevice DEF Writes, InFlight, IngestSteps
  <2> QED
    BY <1>4, <2>2, <2>3, WriteSteps
<1> QED
  BY <1>1, <1>2, <1>3, <1>4 DEF CacheFollows, HasPoints, dbVars

LEMMA OthersFollow ==
  ASSUME Faults \subseteq {"notify"}, TypeOK, HistoryInv, NoDanglingHistory, CallerInv, ContactInv,
         Undisturbed, [Next]_vars, NEW d \in Devices, CacheFollows(d),
         \A r \in Requests : ~Commits(r, d) /\ ~(Writes(r, d) /\ CacheWrite(r))
  PROVE  CacheFollows(d)'
<1>1. telemetry \subseteq telemetry' /\ \A p \in telemetry' : p.device = d => p \in telemetry
  BY TelemetryGrows, PointOrigins
<1>2. HasPoints(d)' <=> HasPoints(d)
  BY <1>1 DEF HasPoints
<1>3. redis'[d] = redis[d] \/ (redis'[d] = NoState /\ ~Stored(d))
  BY RedisSteps
<1>4. CASE ~HasPoints(d)
  BY <1>2, <1>3, <1>4 DEF CacheFollows
<1>5. CASE HasPoints(d)
  <2>1. Stored(d) /\ redis'[d] = redis[d]
    BY <1>3, <1>5 DEF HasPoints, NoDanglingHistory
  <2>2. devices'[d].lastSeenAt = devices[d].lastSeenAt /\ devices'[d].status = devices[d].status
    <3>1. ~MarksOffline(d) /\ \A a \in Admins : ~Inserts(a, d)
      BY <2>1 DEF MarksOffline, CommitOffline, Inserts, Undisturbed, NoPass
    <3>2. RowStep(d)
      BY RowSteps
    <3> QED
      BY <3>1, <3>2, EditKeepsHealth, DeletionKeepsHealth DEF RowStep
  <2>3. ASSUME NEW state, Mirrors(state, devices[d], telemetry, d)
        PROVE  Mirrors(state, devices'[d], telemetry', d)
    BY <1>1, <2>2, <2>3, LatestStays DEF Mirrors
  <2>4. ASSUME NEW r \in Requests, Writes(r, d)'
        PROVE  Writes(r, d) /\ StateToCache(r)' = StateToCache(r)
    <3>1. ingest'[r] = ingest[r]
      BY <2>4, WriteSteps
    <3> QED
      BY <2>4, <3>1 DEF Writes, StateToCache, Entity
  <2>5. ASSUME NEW r \in Requests, Writes(r, d) PROVE Writes(r, d)'
    <3>1. ingest'[r] = ingest[r]
      BY <2>5, WriteSteps
    <3> QED
      BY <2>5, <3>1 DEF Writes
  <2>6. ASSUME NEW r \in Requests, Writes(r, d)'
        PROVE  Mirrors(UpdateScript(redis'[d], StateToCache(r)'), devices'[d], telemetry', d)
    <3>1. Mirrors(UpdateScript(redis[d], StateToCache(r)), devices[d], telemetry, d)
      BY <1>5, <2>4, <2>6 DEF CacheFollows
    <3> QED
      BY <2>1, <2>3, <2>4, <2>6, <3>1
  <2>7. ASSUME \A r \in Requests : ~Writes(r, d)'
        PROVE  Mirrors(redis'[d], devices'[d], telemetry', d)
    <3>1. Mirrors(redis[d], devices[d], telemetry, d)
      BY <1>5, <2>5, <2>7 DEF CacheFollows
    <3> QED
      BY <2>1, <2>3, <3>1
  <2> QED
    BY <1>2, <1>5, <2>6, <2>7 DEF CacheFollows
<1> QED
  BY <1>4, <1>5

(* For devices that wait for the answer, the cached state of a device is   *)
(* what a rebuild would give once nothing is in flight, unless Redis fails,*)
(* a request is cut off, or a pass or a state query writes what it read    *)
(* before a commit. Ties included: Redis takes the reading that arrives    *)
(* last and MySQL the one with the greater Id.                             *)
THEOREM CacheIsMirror ==
  ASSUME Overlap = FALSE, Faults \subseteq {"notify"}
  PROVE  Spec /\ []Undisturbed => []CacheMirrorsDatabase
<1>1. Init => MirrorInv /\ RowsAreOnline
  <2> SUFFICES ASSUME Init PROVE MirrorInv /\ RowsAreOnline
    OBVIOUS
  <2>1. telemetry = {} /\ \A d \in Devices : redis[d] = NoState
    BY DEF Init, DatabaseInit
  <2>2. MirrorInv
    BY <2>1 DEF MirrorInv, PointsNumbered, CacheFollows, HasPoints
  <2> QED
    BY <2>2, RowsOnlineInit
<1>2. /\ TypeOK /\ HistoryInv /\ NoDanglingHistory /\ CallerInv /\ ContactInv /\ QueueInv /\ SerialInv
      /\ RowsAreOnline /\ MirrorInv /\ Undisturbed /\ [Next]_vars
      => MirrorInv' /\ RowsAreOnline'
  <2> SUFFICES ASSUME TypeOK, HistoryInv, NoDanglingHistory, CallerInv, ContactInv, QueueInv, SerialInv,
                      RowsAreOnline, MirrorInv, Undisturbed, [Next]_vars
               PROVE  MirrorInv' /\ RowsAreOnline'
    OBVIOUS
  <2>1. RowsAreOnline'
    BY RowsOnlineNext DEF Undisturbed
  <2>2. ASSUME NEW d \in Devices PROVE CacheFollows(d)'
    BY CommitFollows, WriteFollows, OthersFollow DEF MirrorInv
  <2> QED
    BY <2>1, <2>2, NumberedNext DEF MirrorInv
<1>3. TypeOK /\ MirrorInv => CacheMirrorsDatabase
  <2> SUFFICES ASSUME TypeOK, MirrorInv, Quiet, NEW d \in Devices, ~Absent(d)
               PROVE  redis[d] = StateOf(devices[d], LatestReadings(d))
    BY DEF CacheMirrorsDatabase
  <2>1. \A r \in Requests : ~Writes(r, d)
    BY DEF Quiet, InFlight, IngestSteps, Writes
  <2>2. Mirrors(redis[d], devices[d], telemetry, d)
    BY <2>1 DEF MirrorInv, CacheFollows, Absent
  <2>3. redis[d] \in DeviceState /\ LatestReadings(d) \in [Metrics -> Reading]
    BY LatestReadingsType DEF TypeOK, StoreTypeOK
  <2>4. \A m \in Metrics : LatestReadings(d)[m] = redis[d].metrics[m]
    BY <2>2, LatestReading DEF Mirrors, MirrorInv
  <2>5. redis[d].metrics = LatestReadings(d)
    BY <2>3, <2>4 DEF DeviceState
  <2> QED
    BY <2>2, <2>3, <2>5 DEF Mirrors, StateOf, DeviceState
<1> QED
  BY <1>1, <1>2, <1>3, SerialHolds, PTL DEF Spec

-----------------------------------------------------------------------------
(* What remains of the mirror when requests, passes and queries overlap.   *)

NumberedFromOne == nextId >= 1 /\ \A p \in telemetry : p.id >= 1

LEMMA NumbersHold == Spec => [](TypeOK /\ PointsNumbered /\ NumberedFromOne)
<1>1. Init => PointsNumbered /\ NumberedFromOne
  BY DEF Init, DatabaseInit, PointsNumbered, NumberedFromOne
<1>2. ASSUME TypeOK, NumberedFromOne, DatabaseStep PROVE NumberedFromOne'
  <2>1. CASE UNCHANGED <<telemetry, nextId>>
    BY <1>2, <2>1 DEF NumberedFromOne
  <2>2. ASSUME NEW r \in Requests, NEW d, AddPoints(d, Command[r]) PROVE NumberedFromOne'
    <3>1. Len(Command[r].metrics) \in Nat /\ DOMAIN Command[r].metrics \subseteq Nat /\ nextId \in Nat
      BY <1>2, DomainAssumption DEF IngestTelemetryCommand, TypeOK, DatabaseTypeOK
    <3> QED
      BY <1>2, <2>2, <3>1 DEF AddPoints, NumberedFromOne
  <2> QED
    BY <1>2, <2>1, <2>2 DEF DatabaseStep, dbVars, SaveChanges, CommitOffline, InsertDevice,
       SaveEditedDevice, DeleteLoadedDevice, SaveEditedRule, DeleteLoadedRule
<1> QED
  BY <1>1, <1>2, NumberedNext, DatabaseSteps, TypeCorrect, PTL DEF Spec

(* A point with the greatest timestamp has a latest one beside it.         *)
LEMMA LatestExists ==
  ASSUME TypeOK, PointsNumbered, NumberedFromOne, NEW p \in telemetry,
         \A q \in telemetry : q.device = p.device /\ q.metric = p.metric => q.timestamp <= p.timestamp
  PROVE  \E l \in Latest(telemetry, p.device) : l.metric = p.metric /\ l.timestamp = p.timestamp
<1> DEFINE Tied == {q \in telemetry : /\ q.device = p.device /\ q.metric = p.metric
                                      /\ q.timestamp = p.timestamp}
           Ids == {q.id : q \in Tied}
<1>1. \A q \in telemetry : q.id \in Nat /\ q.id >= 1 /\ q.id <= nextId /\ q.timestamp \in Nat
  BY DEF TypeOK, DatabaseTypeOK, Point, Time, PointsNumbered, NumberedFromOne
<1>2. nextId \in Nat /\ Ids \subseteq 1..nextId /\ Ids # {}
  BY <1>1 DEF TypeOK, DatabaseTypeOK
<1> HIDE DEF Ids
<1>3. \E i \in Ids : \A j \in Ids : j <= i
  BY <1>2, LastPosition
<1>4. PICK l \in Tied : \A q \in Tied : q.id <= l.id
  BY <1>3 DEF Ids
<1>5. ASSUME NEW q \in telemetry, q.device = p.device, q.metric = l.metric
      PROVE  q.timestamp < l.timestamp \/ (q.timestamp = l.timestamp /\ q.id <= l.id)
  <2>1. q.timestamp <= l.timestamp /\ l \in telemetry
    BY <1>5
  <2>2. q.timestamp = l.timestamp => q \in Tied
    BY <1>5
  <2> QED
    BY <1>1, <1>4, <2>1, <2>2
<1> QED
  BY <1>5 DEF Latest

(* For any overlap of requests, passes, queries and edits, the readings of *)
(* a cache at rest have the timestamps of the latest points, unless Redis  *)
(* fails, a key expires or a request is cut off; with overlap only status, *)
(* LastSeenAt and the choice between equal timestamps are open.            *)
THEOREM CacheStaysRecent == ASSUME Faults \subseteq {"notify"} PROVE Spec => []CacheIsAsRecent
<1>1. ASSUME TypeOK, PointsNumbered, NumberedFromOne, HistoryInv, CommittedIsCachedOrPending, Quiet,
             NEW d \in Devices, NEW m \in Metrics
      PROVE  redis[d].metrics[m].timestamp = LatestReadings(d)[m].timestamp
  <2> DEFINE reading == redis[d].metrics[m]
  <2>1. reading.timestamp \in OptionalTime
    BY <1>1 DEF TypeOK, StoreTypeOK, DeviceState, Reading
  <2>2. \A p \in telemetry : p.device = d /\ p.metric = m =>
          p.timestamp \in Nat /\ p.timestamp <= reading.timestamp
    <3>1. \A r \in Requests : ingest[r].pc # "cacheWrite"
      BY <1>1 DEF Quiet, InFlight, IngestSteps
    <3>2. \A p \in telemetry : p.timestamp \in Nat
      BY <1>1 DEF TypeOK, DatabaseTypeOK, Point, Time
    <3> QED
      BY <1>1, <2>1, <3>1, <3>2 DEF CommittedIsCachedOrPending, OptionalTime, NoTime, Time
  <2>3. Recorded(telemetry, d, m, reading)
    BY <1>1 DEF HistoryInv, CachePast, Past
  <2>4. ASSUME NEW p \in telemetry, p.device = d, p.metric = m, p.timestamp = reading.timestamp
        PROVE  LatestReadings(d)[m].timestamp = reading.timestamp
    <3>1. PICK l \in Latest(telemetry, d) : l.metric = m /\ l.timestamp = reading.timestamp
      BY <1>1, <2>2, <2>4, LatestExists
    <3>2. IsLatest(telemetry, d, m, [value |-> l.value, timestamp |-> l.timestamp])
      BY <3>1 DEF IsLatest
    <3> QED
      BY <1>1, <3>1, <3>2, LatestReading
  <2>5. ASSUME reading = NoReading PROVE LatestReadings(d)[m] = NoReading
    <3>1. \A p \in telemetry : ~(p.device = d /\ p.metric = m)
      BY <2>2, <2>5 DEF NoReading, NoTime
    <3> QED
      BY <1>1, <2>5, <3>1, LatestReading DEF IsLatest
  <2> HIDE DEF reading
  <2>6. LatestReadings(d)[m].timestamp = reading.timestamp
    BY <2>3, <2>4, <2>5 DEF Recorded
  <2> QED
    BY <2>6 DEF reading
<1>2. TypeOK /\ PointsNumbered /\ NumberedFromOne /\ HistoryInv /\ CommittedIsCachedOrPending
      => CacheIsAsRecent
  BY <1>1 DEF CacheIsAsRecent
<1> QED
  BY <1>2, NumbersHold, HistoryHolds, NoUpdateIsLost, PTL
=============================================================================

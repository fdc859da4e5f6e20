---------------------------- MODULE AlertProofs -----------------------------
(***************************************************************************)
(* The alerts of devices that wait for the answer before they send again   *)
(* (Overlap = FALSE): a commit leaves the verdict of its batch, alerts go  *)
(* through the lifecycle of AlertLifecycle, and dashboards end up showing  *)
(* the unresolved ones.                                                    *)
(***************************************************************************)
EXTENDS CommitProofs

(* The inductive invariant, part by part. An alert's Id says which request *)
(* raised it and for which rule; what a request found active stays so      *)
(* until it commits.                                                       *)
OrphansLostTheirRule ==
  \A b \in alerts : b.rule = NoRule => alertRules[b.id[2]].existence = "deleted"
IdsAreUnique == \A a, b \in alerts : a.id = b.id => a = b
IdsAreFresh ==
  \A r \in Requests : ingest[r].pc \in {"new"} \cup Early => \A b \in alerts : b.id[1] # r
FoundAreActive ==
  \A r \in Requests : ingest[r].pc \in Evaluating =>
    \A id \in ingest[r].active :
      \E b \in alerts : b.id = id /\ b.device = ingest[r].device /\ IsActive(b)

AlertInv == OrphansLostTheirRule /\ IdsAreUnique /\ IdsAreFresh /\ FoundAreActive

-----------------------------------------------------------------------------
(* What a step does to the alerts.                                         *)

(* Alert a after the commit of r, an alert r raises, and alert a after its *)
(* rule q was deleted.                                                     *)
Settled(r, a) == IF a.id \in Resolved(r) THEN [a EXCEPT !.resolvedBy = r] ELSE a
NewAlert(r, q) == [id |-> <<r, q>>, device |-> ingest[r].device, rule |-> q, resolvedBy |-> NoRequest]
Unlinked(q, a) == IF a.rule = q THEN [a EXCEPT !.rule = NoRule] ELSE a

CommitsAlerts(r) ==
  /\ Commits(r, ingest[r].device)
  /\ alerts' = {Settled(r, a) : a \in alerts} \cup {NewAlert(r, q) : q \in Raised(r)}
  /\ \A q \in Raised(r) : alertRules[q].existence = "stored"

DeletesRule(q) ==
  /\ alertRules' = [alertRules EXCEPT ![q].existence = "deleted"]
  /\ alerts' = {Unlinked(q, a) : a \in alerts}

AlertStep ==
  \/ UNCHANGED alerts
  \/ \E r \in Requests : CommitsAlerts(r)
  \/ \E q \in Rules : DeletesRule(q)

LEMMA AlertSteps == TypeOK /\ [Next]_vars => AlertStep
<1> SUFFICES ASSUME TypeOK, DatabaseStep PROVE AlertStep
  BY DatabaseSteps
<1>1. ASSUME NEW r \in Requests, SaveChanges(r) PROVE AlertStep
  <2>1. CASE UNCHANGED alerts
    BY <2>1 DEF AlertStep
  <2>2. CASE ~UNCHANGED alerts
    <3>1. /\ Commits(r, ingest[r].device)
          /\ \A q \in Raised(r) : alertRules[q].existence = "stored"
      BY <1>1, <2>2 DEF SaveChanges, Commits
    <3>2. alerts' = {Settled(r, a) : a \in alerts} \cup {NewAlert(r, q) : q \in Raised(r)}
      BY <3>1 DEF Commits, SaveAlerts, Settled, NewAlert
    <3> QED
      BY <3>1, <3>2 DEF AlertStep, CommitsAlerts
  <2> QED
    BY <2>1, <2>2
<1>2. ASSUME NEW a \in Admins, DeleteLoadedRule(a) PROVE AlertStep
  <2>1. CASE UNCHANGED alerts
    BY <2>1 DEF AlertStep
  <2>2. CASE DeleteRuleRow(admin[a].rule)
    <3>1. admin[a].rule \in Rules
      BY <1>2 DEF DeleteLoadedRule, TypeOK, AdminTypeOK, AdminState, RuleSteps
    <3> QED
      BY <2>2, <3>1 DEF DeleteRuleRow, DeletesRule, Unlinked, AlertStep
  <2> QED
    BY <1>2, <2>1, <2>2 DEF DeleteLoadedRule
<1>3. ASSUME UNCHANGED alerts PROVE AlertStep
  BY <1>3 DEF AlertStep
<1> QED
  BY <1>1, <1>2, <1>3 DEF DatabaseStep, dbVars, CommitOffline, InsertDevice, SaveEditedDevice,
     DeleteLoadedDevice, SaveEditedRule

LEMMA AlertTypes ==
  ASSUME TypeOK
  PROVE  \A a \in alerts : a \in Alert /\ a.id \in AlertId /\ a.id[1] \in Requests /\ a.id[2] \in Rules
BY DEF TypeOK, DatabaseTypeOK, Alert, AlertId

LEMMA SettledFields ==
  ASSUME NEW r \in Requests, NEW a \in Alert
  PROVE  /\ Settled(r, a).id = a.id
         /\ Settled(r, a).device = a.device
         /\ Settled(r, a).rule = a.rule
         /\ IsActive(Settled(r, a)) <=> IsActive(a) /\ a.id \notin Resolved(r)
         /\ Settled(r, a).resolvedBy = IF a.id \in Resolved(r) THEN r ELSE a.resolvedBy
BY DomainAssumption DEF Settled, Alert, IsActive

LEMMA UnlinkedFields ==
  ASSUME NEW q \in Rules, NEW a \in Alert
  PROVE  /\ Unlinked(q, a).id = a.id
         /\ Unlinked(q, a).device = a.device
         /\ Unlinked(q, a).rule = IF a.rule = q THEN NoRule ELSE a.rule
         /\ IsActive(Unlinked(q, a)) <=> IsActive(a)
         /\ Unlinked(q, a).resolvedBy = a.resolvedBy
BY DEF Unlinked, Alert, IsActive

LEMMA NewAlertFields ==
  ASSUME NEW r, NEW q
  PROVE  /\ NewAlert(r, q).id = <<r, q>>
         /\ NewAlert(r, q).device = ingest[r].device
         /\ NewAlert(r, q).rule = q
         /\ NewAlert(r, q).resolvedBy = NoRequest
         /\ IsActive(NewAlert(r, q))
BY DEF NewAlert, IsActive

(* A committing request was evaluated, and moves on to the cache.          *)
LEMMA CommitMoves ==
  ASSUME TypeOK, NEW r \in Requests, CommitsAlerts(r)
  PROVE  /\ ingest[r].pc = "commit" /\ InFlight(r) /\ ingest[r].device \in Devices
         /\ ingest'[r] = [ingest[r] EXCEPT !.pc = "cacheWrite"]
         /\ ingest'[r].pc = "cacheWrite"
         /\ \A s \in Requests \ {r} : ingest'[s] = ingest[s]
BY CommitsInFlight, InFlightDevice DEF CommitsAlerts, Commits, Goto, TypeOK, ServiceTypeOK, IngestState

(* A rule that is deleted stays deleted.                                   *)
LEMMA DeletedRulesStay ==
  ASSUME TypeOK, [Next]_vars, NEW q \in Rules, alertRules[q].existence = "deleted"
  PROVE  alertRules'[q].existence = "deleted"
<1> DEFINE Goal == alertRules'[q].existence = "deleted"
<1>1. alertRules \in [Rules -> RuleRow]
  BY DEF TypeOK, DatabaseTypeOK
<1>2. ASSUME UNCHANGED alertRules PROVE Goal
  BY <1>2
<1>3. ASSUME NEW a \in Admins, DeleteLoadedDevice(a) PROVE Goal
  BY <1>1, <1>3 DEF DeleteLoadedDevice, DeleteDeviceRow, RuleRow
<1>4. ASSUME NEW a \in Admins, DeleteLoadedRule(a) PROVE Goal
  BY <1>1, <1>4 DEF DeleteLoadedRule, DeleteRuleRow, RuleRow
<1>5. ASSUME NEW a \in Admins, SaveEditedRule(a) PROVE Goal
  <2> DEFINE loaded == admin[a].loadedRules[q]
             edited == admin[a].editedRules[q]
  <2>1. CASE alertRules'[q] = alertRules[q]
    BY <2>1
  <2>2. CASE alertRules'[q] # alertRules[q]
    <3>1. /\ alertRules[q].existence = loaded.existence
          /\ alertRules'[q] = IF loaded.existence = "unused" THEN edited
                              ELSE SaveRule(alertRules[q], loaded, edited)
      BY <1>1, <1>5, <2>2 DEF SaveEditedRule
    <3>2. SaveRule(alertRules[q], loaded, edited).existence = alertRules[q].existence
      BY <1>1 DEF SaveRule, RuleRow
    <3> QED
      BY <3>1, <3>2
  <2> QED
    BY <2>1, <2>2
<1> HIDE DEF Goal
<1>6. DatabaseStep
  BY DatabaseSteps
<1>7. Goal
  BY <1>2, <1>3, <1>4, <1>5, <1>6 DEF DatabaseStep, dbVars, SaveChanges, CommitOffline,
     InsertDevice, SaveEditedDevice
<1> QED
  BY <1>7 DEF Goal

-----------------------------------------------------------------------------
(* Every step keeps every part of the invariant.                           *)

LEMMA OrphansNext ==
  ASSUME TypeOK, SerialInv, AlertInv, [Next]_vars
  PROVE  OrphansLostTheirRule'
<1> SUFFICES ASSUME NEW b \in alerts', b.rule = NoRule
             PROVE  alertRules'[b.id[2]].existence = "deleted"
  BY DEF OrphansLostTheirRule
<1>1. ASSUME NEW a \in alerts, a.rule = NoRule, a.id = b.id
      PROVE  alertRules'[b.id[2]].existence = "deleted"
  BY <1>1, AlertTypes, DeletedRulesStay DEF AlertInv, OrphansLostTheirRule
<1>2. CASE UNCHANGED alerts
  BY <1>1, <1>2
<1>3. ASSUME NEW r \in Requests, CommitsAlerts(r)
      PROVE  alertRules'[b.id[2]].existence = "deleted"
  <2>1. ASSUME NEW a \in alerts, b = Settled(r, a)
        PROVE  alertRules'[b.id[2]].existence = "deleted"
    BY <1>1, <2>1, AlertTypes, SettledFields
  <2>2. ASSUME NEW q \in Raised(r), b = NewAlert(r, q) PROVE FALSE
    BY <2>2, NewAlertFields, RaisedRules, DomainAssumption
  <2> QED
    BY <1>3, <2>1, <2>2 DEF CommitsAlerts
<1>4. ASSUME NEW q \in Rules, DeletesRule(q)
      PROVE  alertRules'[b.id[2]].existence = "deleted"
  <2>1. PICK a \in alerts : b = Unlinked(q, a)
    BY <1>4 DEF DeletesRule
  <2>2. CASE a.rule = q
    <3>1. a.rule # NoRule
      BY <2>2, DomainAssumption
    <3>2. a.rule \in {NoRule, a.id[2]} /\ b.id = a.id
      BY <2>1, AlertTypes, UnlinkedFields DEF SerialInv, AlertsNameTheirRule
    <3> QED
      BY <1>4, <2>2, <3>1, <3>2 DEF DeletesRule, TypeOK, DatabaseTypeOK, RuleRow
  <2>3. CASE a.rule # q
    BY <1>1, <2>1, <2>3, AlertTypes, UnlinkedFields
  <2> QED
    BY <2>2, <2>3
<1> QED
  BY <1>2, <1>3, <1>4, AlertSteps DEF AlertStep

LEMMA IdsUniqueNext ==
  ASSUME TypeOK, AlertInv, [Next]_vars
  PROVE  IdsAreUnique'
<1> SUFFICES ASSUME NEW x \in alerts', NEW y \in alerts', x.id = y.id PROVE x = y
  BY DEF IdsAreUnique
<1>1. \A a, b \in alerts : a.id = b.id => a = b
  BY DEF AlertInv, IdsAreUnique
<1>2. CASE UNCHANGED alerts
  BY <1>1, <1>2
<1>3. ASSUME NEW r \in Requests, CommitsAlerts(r) PROVE x = y
  <2>1. ASSUME NEW a \in alerts PROVE a.id[1] # r /\ Settled(r, a).id = a.id
    BY <1>3, CommitMoves, AlertTypes, SettledFields DEF AlertInv, IdsAreFresh, Early
  <2>2. ASSUME NEW a \in alerts, NEW q, Settled(r, a).id = NewAlert(r, q).id PROVE FALSE
    BY <2>1, <2>2, NewAlertFields
  <2>3. ASSUME NEW p, NEW q, NewAlert(r, p).id = NewAlert(r, q).id PROVE p = q
    BY <2>3, NewAlertFields
  <2>4. ASSUME NEW a \in alerts, NEW b \in alerts, Settled(r, a).id = Settled(r, b).id PROVE a = b
    BY <1>1, <2>1, <2>4
  <2>5. /\ (\E a \in alerts : x = Settled(r, a)) \/ \E q \in Raised(r) : x = NewAlert(r, q)
        /\ (\E a \in alerts : y = Settled(r, a)) \/ \E q \in Raised(r) : y = NewAlert(r, q)
    BY <1>3 DEF CommitsAlerts
  <2> QED
    BY <2>2, <2>3, <2>4, <2>5
<1>4. ASSUME NEW q \in Rules, DeletesRule(q) PROVE x = y
  <2>1. PICK a \in alerts, b \in alerts : x = Unlinked(q, a) /\ y = Unlinked(q, b)
    BY <1>4 DEF DeletesRule
  <2> QED
    BY <1>1, <2>1, AlertTypes, UnlinkedFields
<1> QED
  BY <1>2, <1>3, <1>4, AlertSteps DEF AlertStep

LEMMA IdsFreshNext ==
  ASSUME TypeOK, AlertInv, [Next]_vars
  PROVE  IdsAreFresh'
<1> SUFFICES ASSUME NEW r \in Requests, ingest'[r].pc \in {"new"} \cup Early, NEW b \in alerts'
             PROVE  b.id[1] # r
  BY DEF IdsAreFresh
<1>1. ingest[r].pc \in {"new"} \cup Early
  <2>1. CASE Finds(r)
    BY <2>1 DEF Finds, Early
  <2>2. CASE Ends(r)
    BY <2>2 DEF Ends, AtPc, Ended, Early
  <2>3. CASE Loads(r)
    BY <2>3 DEF Loads
  <2>4. CASE Proceeds(r)
    BY <2>4 DEF Proceeds, IngestSteps
  <2> QED
    BY <2>1, <2>2, <2>3, <2>4, RequestSteps DEF RequestStep
<1>2. \A a \in alerts : a.id[1] # r
  BY <1>1 DEF AlertInv, IdsAreFresh
<1>3. CASE UNCHANGED alerts
  BY <1>2, <1>3
<1>4. ASSUME NEW s \in Requests, CommitsAlerts(s) PROVE b.id[1] # r
  <2>1. s # r
    BY <1>4, CommitMoves DEF Early
  <2>2. \A a \in alerts : Settled(s, a).id = a.id
    BY AlertTypes, SettledFields
  <2>3. \A q : NewAlert(s, q).id[1] = s
    BY NewAlertFields
  <2> QED
    BY <1>2, <1>4, <2>1, <2>2, <2>3 DEF CommitsAlerts
<1>5. ASSUME NEW q \in Rules, DeletesRule(q) PROVE b.id[1] # r
  <2>1. \A a \in alerts : Unlinked(q, a).id = a.id
    BY AlertTypes, UnlinkedFields
  <2> QED
    BY <1>2, <1>5, <2>1 DEF DeletesRule
<1> QED
  BY <1>3, <1>4, <1>5, AlertSteps DEF AlertStep

(* What a request resolves, it found active.                               *)
LEMMA ResolvedWasFound ==
  ASSUME NEW r
  PROVE  \A id \in Resolved(r) : /\ id \in ingest[r].active
                                 /\ id[2] \in Evaluated(ingest[r].rules, ingest[r].device, Command[r])
                                 /\ id[2] \notin Violated(ingest[r].rules, ingest[r].device, Command[r])
BY DEF Resolved, AlertsToResolve

(* What a commit resolves is an active alert of its device.                *)
LEMMA CommitResolvesActive ==
  ASSUME TypeOK, AlertInv, NEW r \in Requests, CommitsAlerts(r), NEW a \in alerts, a.id \in Resolved(r)
  PROVE  a.device = ingest[r].device /\ IsActive(a)
<1>1. ingest[r].pc \in Evaluating /\ a.id \in ingest[r].active
  BY CommitMoves, ResolvedWasFound DEF Evaluating
<1>2. PICK b \in alerts : b.id = a.id /\ b.device = ingest[r].device /\ IsActive(b)
  BY <1>1 DEF AlertInv, FoundAreActive
<1> QED
  BY <1>2 DEF AlertInv, IdsAreUnique

(* An active alert stays active, unless its device's request resolves it.  *)
LEMMA ActiveStays ==
  ASSUME TypeOK, AlertInv, [Next]_vars, NEW b \in alerts, IsActive(b)
  PROVE  \/ \E c \in alerts' : c.id = b.id /\ c.device = b.device /\ IsActive(c)
         \/ \E s \in Requests : CommitsAlerts(s) /\ ingest[s].device = b.device
<1>1. ASSUME NEW s \in Requests, CommitsAlerts(s), ingest[s].device # b.device
      PROVE  \E c \in alerts' : c.id = b.id /\ c.device = b.device /\ IsActive(c)
  <2>1. b.id \notin Resolved(s)
    BY <1>1, CommitResolvesActive
  <2>2. Settled(s, b) \in alerts'
    BY <1>1 DEF CommitsAlerts
  <2> QED
    BY <2>1, <2>2, AlertTypes, SettledFields
<1>2. ASSUME NEW q \in Rules, DeletesRule(q)
      PROVE  \E c \in alerts' : c.id = b.id /\ c.device = b.device /\ IsActive(c)
  <2>1. Unlinked(q, b) \in alerts'
    BY <1>2 DEF DeletesRule
  <2> QED
    BY <2>1, AlertTypes, UnlinkedFields
<1> QED
  BY <1>1, <1>2, AlertSteps DEF AlertStep

LEMMA FoundNext ==
  ASSUME TypeOK, QueueInv, AlertInv, [Next]_vars
  PROVE  FoundAreActive'
<1> SUFFICES ASSUME NEW r \in Requests, ingest'[r].pc \in Evaluating, NEW id \in ingest'[r].active
             PROVE  \E b \in alerts' : b.id = id /\ b.device = ingest'[r].device /\ IsActive(b)
  BY DEF FoundAreActive, IsActive
<1>1. CASE /\ ingest[r].pc \in Evaluating
           /\ ingest'[r].device = ingest[r].device
           /\ ingest'[r].active = ingest[r].active
  <2>1. PICK b \in alerts : b.id = id /\ b.device = ingest[r].device /\ IsActive(b)
    BY <1>1 DEF AlertInv, FoundAreActive
  <2>2. ASSUME NEW s \in Requests, CommitsAlerts(s), ingest[s].device = ingest[r].device PROVE FALSE
    <3>1. InFlight(r)
      BY <1>1 DEF Evaluating, InFlight, IngestSteps
    <3>2. s = r
      BY <2>2, <3>1, CommitMoves, OneCommitPerDevice
    <3> QED
      BY <2>2, <3>2, CommitMoves DEF Evaluating
  <2> QED
    BY <1>1, <2>1, <2>2, ActiveStays
<1>2. CASE Finds(r)
  <2>1. /\ ingest'[r].device = ingest[r].device
        /\ ingest'[r].active = {a.id : a \in GetActiveByRuleIds(ingest[r].device,
                                  GetApplicableRules(ingest[r].rules, ingest[r].device))}
        /\ UNCHANGED alerts
    BY <1>2, IngestFieldTypes DEF Finds, IngestState, dbVars
  <2> QED
    BY <2>1 DEF GetActiveByRuleIds
<1>3. CASE Ends(r)
  BY <1>3 DEF Ends, AtPc, Ended, Evaluating
<1>4. CASE Loads(r)
  BY <1>4, LoadsOwnDevice DEF Evaluating
<1>5. CASE Proceeds(r)
  BY <1>1, <1>5 DEF Proceeds
<1>6. CASE ingest'[r] = ingest[r]
  BY <1>1, <1>6
<1> QED
  BY <1>2, <1>3, <1>4, <1>5, <1>6, RequestSteps DEF RequestStep

LEMMA AlertsHold ==
  ASSUME Overlap = FALSE
  PROVE  Spec => [](TypeOK /\ QueueInv /\ SerialInv /\ AlertInv /\ AtMostOneActiveAlert)
<1>1. Init => AlertInv
  <2> SUFFICES ASSUME Init PROVE AlertInv
    OBVIOUS
  <2>1. alerts = {} /\ \A r \in Requests : ingest[r].pc = "new"
    BY DEF Init, DatabaseInit, ServiceInit, AtPc
  <2> QED
    BY <2>1 DEF Evaluating, AlertInv, OrphansLostTheirRule, IdsAreUnique, IdsAreFresh, FoundAreActive
<1>2. TypeOK /\ QueueInv /\ SerialInv /\ AlertInv /\ [Next]_vars => AlertInv'
  BY OrphansNext, IdsUniqueNext, IdsFreshNext, FoundNext DEF AlertInv
<1> QED
  BY <1>1, <1>2, SerialHolds, OneActiveAlert, PTL DEF Spec

-----------------------------------------------------------------------------
(* Verdicts.                                                               *)

(* A request leaves its commit for the cache only by committing.           *)
LEMMA CommitSteps ==
  ASSUME TypeOK, [Next]_vars, NEW r \in Requests,
         ingest[r].pc = "commit", ingest'[r].pc = "cacheWrite"
  PROVE  CommitsAlerts(r)
<1>1. CASE Ingest(r)
  <2>1. SaveChanges(r) /\ ~\E outcome \in Ended : End(r, outcome)
    BY <1>1 DEF Ingest, LoadDevice, LoadRules, LoadActiveAlerts, RequireDevice,
       CacheWrite, CacheRead, RebuildState, PublishState, PublishStatus, PublishAlerts,
       End, AtPc, Ended, TypeOK, ServiceTypeOK
  <2>2. /\ Commits(r, ingest[r].device)
        /\ \A q \in Raised(r) : alertRules[q].existence = "stored"
    BY <2>1 DEF SaveChanges, Commits, Ended
  <2>3. alerts' = {Settled(r, a) : a \in alerts} \cup {NewAlert(r, q) : q \in Raised(r)}
    BY <2>2 DEF Commits, SaveAlerts, Settled, NewAlert
  <2> QED
    BY <2>2, <2>3 DEF CommitsAlerts
<1>2. CASE AbortIngest(r)
  BY <1>2 DEF AbortIngest, End, AtPc, TypeOK, ServiceTypeOK
<1> QED
  BY <1>1, <1>2, OwnSteps

(* The active alerts of a rule after the commit of a batch evaluated       *)
(* against it.                                                             *)
LEMMA CommitFollowsVerdict ==
  ASSUME TypeOK, SerialInv, AlertInv, NEW r \in Requests, CommitsAlerts(r),
         NEW q \in Evaluated(ingest[r].rules, ingest[r].device, Command[r]),
         alertRules[q].existence = "stored"
  PROVE  q \in Violated(ingest[r].rules, ingest[r].device, Command[r]) <=>
           \E a \in alerts' : a.device = ingest[r].device /\ a.rule = q /\ IsActive(a)
<1> DEFINE d == ingest[r].device
           violated == q \in Violated(ingest[r].rules, d, Command[r])
<1>1. ingest[r].pc \in Evaluating /\ q \in Rules /\ q \in GetApplicableRules(ingest[r].rules, d)
  BY CommitMoves DEF Evaluating, Evaluated, GetApplicableRules
<1>2. ASSUME violated PROVE \E a \in alerts' : a.device = d /\ a.rule = q /\ IsActive(a)
  <2>1. CASE q \in Raised(r)
    BY <2>1, NewAlertFields DEF CommitsAlerts
  <2>2. CASE q \notin Raised(r)
    <3>1. PICK id \in ingest[r].active : id[2] = q
      BY <1>2, <2>2 DEF Raised, RulesToRaise
    <3>2. PICK b \in alerts : b.id = id /\ b.device = d /\ IsActive(b)
      BY <1>1, <3>1 DEF AlertInv, FoundAreActive
    <3>3. b.rule = q
      BY <3>1, <3>2 DEF SerialInv, AlertsNameTheirRule, AlertInv, OrphansLostTheirRule
    <3>4. b.id \notin Resolved(r)
      BY <1>2, <3>1, <3>2, ResolvedWasFound
    <3>5. Settled(r, b) \in alerts'
      BY DEF CommitsAlerts
    <3> QED
      BY <3>2, <3>3, <3>4, <3>5, AlertTypes, SettledFields
  <2> QED
    BY <2>1, <2>2
<1>3. ASSUME NEW a \in alerts', a.device = d, a.rule = q, IsActive(a) PROVE violated
  <2>1. ASSUME NEW p \in Raised(r), a = NewAlert(r, p) PROVE violated
    BY <1>3, <2>1, NewAlertFields DEF Raised, RulesToRaise
  <2>2. ASSUME NEW b \in alerts, a = Settled(r, b) PROVE violated
    <3>1. IsActive(b) /\ b.id \notin Resolved(r) /\ b.device = d /\ b.rule = q
      BY <1>3, <2>2, AlertTypes, SettledFields
    <3>2. b.id \in ingest[r].active /\ b.id[2] = q
      BY <1>1, <3>1, DomainAssumption DEF SerialInv, ActiveIsCurrent, AlertsNameTheirRule
    <3> QED
      BY <3>1, <3>2 DEF Resolved, AlertsToResolve
  <2> QED
    BY <2>1, <2>2 DEF CommitsAlerts
<1> HIDE DEF violated
<1>4. violated <=> \E a \in alerts' : a.device = d /\ a.rule = q /\ IsActive(a)
  BY <1>2, <1>3
<1> QED
  BY <1>4 DEF violated

CommitsFollowVerdicts ==
  \A r \in Requests :
    LET d == ingest[r].device
        rules == ingest[r].rules
    IN ingest[r].pc = "commit" /\ ingest'[r].pc = "cacheWrite" =>
         \A q \in Evaluated(rules, d, Command[r]) :
           alertRules[q].existence = "stored" =>
             (q \in Violated(rules, d, Command[r]) <=>
               \E a \in alerts' : a.device = d /\ a.rule = q /\ IsActive(a))

(* For devices that wait for the answer, a commit leaves each rule that    *)
(* its batch was evaluated against with an unresolved alert exactly if the *)
(* batch violates it, whatever rule edits and deletions, passes, aborts    *)
(* and other devices' commits come between evaluation and commit.          *)
THEOREM CommitsLeaveVerdicts == ASSUME Overlap = FALSE PROVE Spec => AlertsFollowVerdicts
<1>1. TypeOK /\ SerialInv /\ AlertInv /\ [Next]_vars => [CommitsFollowVerdicts]_vars
  BY CommitSteps, CommitFollowsVerdict DEF CommitsFollowVerdicts
<1> QED
  BY <1>1, AlertsHold, PTL DEF Spec, AlertsFollowVerdicts, CommitsFollowVerdicts

-----------------------------------------------------------------------------
(* The refinement of AlertLifecycle.                                       *)

ActiveAlerts == {b \in alerts : IsActive(b)}
InactiveAlerts == {b \in alerts : ~IsActive(b)}
Orphans == {a.id : a \in {b \in alerts : IsActive(b) /\ b.rule = NoRule}}
Gone == (Orphans \ Orphans')
        \cup UNION {UnresolvedAlerts(p[1], p[2]) \ UnresolvedAlerts(p[1], p[2])' : p \in Devices \X Rules}

LEMMA CommitActive ==
  ASSUME TypeOK, NEW r \in Requests, CommitsAlerts(r)
  PROVE  ActiveAlerts' = {a \in ActiveAlerts : a.id \notin Resolved(r)}
                         \cup {NewAlert(r, q) : q \in Raised(r)}
<1>1. \A a \in alerts : a.id \notin Resolved(r) => Settled(r, a) = a
  BY DEF Settled
<1>2. \A a \in alerts : IsActive(Settled(r, a)) <=> IsActive(a) /\ a.id \notin Resolved(r)
  BY AlertTypes, SettledFields
<1>3. \A q : IsActive(NewAlert(r, q))
  BY NewAlertFields
<1>4. alerts' = {Settled(r, a) : a \in alerts} \cup {NewAlert(r, q) : q \in Raised(r)}
  BY DEF CommitsAlerts
<1>5. ActiveAlerts' = {b \in alerts' : IsActive(b)}
  BY DEF ActiveAlerts, IsActive
<1> HIDE DEF CommitsAlerts
<1>6. ASSUME NEW b \in ActiveAlerts'
      PROVE  b \in {a \in ActiveAlerts : a.id \notin Resolved(r)} \cup {NewAlert(r, q) : q \in Raised(r)}
  BY <1>1, <1>2, <1>4, <1>5 DEF ActiveAlerts
<1>7. ASSUME NEW b \in {a \in ActiveAlerts : a.id \notin Resolved(r)} \cup {NewAlert(r, q) : q \in Raised(r)}
      PROVE  b \in ActiveAlerts'
  <2>1. ASSUME NEW a \in ActiveAlerts, a.id \notin Resolved(r) PROVE a \in ActiveAlerts'
    <3>1. a \in alerts /\ IsActive(a) /\ Settled(r, a) = a
      BY <1>1, <2>1 DEF ActiveAlerts
    <3> QED
      BY <1>4, <1>5, <3>1
  <2>2. ASSUME NEW q \in Raised(r) PROVE NewAlert(r, q) \in ActiveAlerts'
    BY <1>3, <1>4, <1>5
  <2> QED
    BY <2>1, <2>2
<1> QED
  BY <1>6, <1>7

LEMMA CommitInactive ==
  ASSUME TypeOK, AlertInv, NEW r \in Requests, CommitsAlerts(r)
  PROVE  InactiveAlerts' = InactiveAlerts \cup {Settled(r, a) : a \in {b \in alerts : b.id \in Resolved(r)}}
<1>1. \A a \in alerts : a.id \notin Resolved(r) => Settled(r, a) = a
  BY DEF Settled
<1>2. \A a \in alerts : IsActive(Settled(r, a)) <=> IsActive(a) /\ a.id \notin Resolved(r)
  BY AlertTypes, SettledFields
<1>3. \A q : IsActive(NewAlert(r, q))
  BY NewAlertFields
<1>4. \A a \in alerts : a.id \in Resolved(r) => IsActive(a)
  BY CommitResolvesActive
<1>5. alerts' = {Settled(r, a) : a \in alerts} \cup {NewAlert(r, q) : q \in Raised(r)}
  BY DEF CommitsAlerts
<1>6. InactiveAlerts' = {b \in alerts' : ~IsActive(b)}
  BY DEF InactiveAlerts, IsActive
<1>7. ASSUME NEW b \in InactiveAlerts'
      PROVE  b \in InactiveAlerts \cup {Settled(r, a) : a \in {c \in alerts : c.id \in Resolved(r)}}
  BY <1>1, <1>2, <1>3, <1>5, <1>6 DEF InactiveAlerts
<1>8. ASSUME NEW b \in InactiveAlerts PROVE b \in InactiveAlerts'
  <2>1. b \in alerts /\ ~IsActive(b) /\ Settled(r, b) = b
    BY <1>1, <1>4, <1>8 DEF InactiveAlerts
  <2> QED
    BY <1>5, <1>6, <2>1
<1>9. ASSUME NEW a \in alerts, a.id \in Resolved(r) PROVE Settled(r, a) \in InactiveAlerts'
  BY <1>2, <1>5, <1>6, <1>9
<1> QED
  BY <1>7, <1>8, <1>9

(* The unresolved alerts of a device and rule after a commit.              *)
LEMMA CommitUnresolved ==
  ASSUME TypeOK, SerialInv, AlertInv, AtMostOneActiveAlert,
         NEW r \in Requests, CommitsAlerts(r), NEW d \in Devices, NEW q \in Rules
  PROVE  \/ UnresolvedAlerts(d, q)' = UnresolvedAlerts(d, q)
         \/ /\ d = ingest[r].device
            /\ \/ UnresolvedAlerts(d, q)' = {}
               \/ /\ UnresolvedAlerts(d, q) = {}
                  /\ UnresolvedAlerts(d, q)' = {<<r, q>>}
<1> DEFINE Of(A) == {a.id : a \in {b \in A : b.device = d /\ b.rule = q}}
           Kept == {a \in ActiveAlerts : a.id \notin Resolved(r)}
           New == {NewAlert(r, p) : p \in Raised(r)}
<1>1. UnresolvedAlerts(d, q) = Of(ActiveAlerts) /\ UnresolvedAlerts(d, q)' = Of(ActiveAlerts')
  BY DEF UnresolvedAlerts, ActiveAlerts, IsActive
<1>2. ActiveAlerts' = Kept \cup New
  BY CommitActive
<1>3. \A p : /\ NewAlert(r, p).id = <<r, p>> /\ NewAlert(r, p).rule = p
             /\ NewAlert(r, p).device = ingest[r].device
  BY NewAlertFields
<1>4. CASE d # ingest[r].device
  <2>1. \A a \in ActiveAlerts : a.device = d => a \in Kept
    BY <1>4, CommitResolvesActive DEF ActiveAlerts
  <2>2. \A a \in New : a.device # d
    BY <1>3, <1>4
  <2>3. Of(Kept \cup New) = Of(ActiveAlerts)
    BY <2>1, <2>2
  <2> QED
    BY <1>1, <1>2, <2>3
<1>5. CASE d = ingest[r].device /\ q \in Raised(r)
  <2>1. ASSUME NEW b \in ActiveAlerts, b.device = d, b.rule = q PROVE FALSE
    <3>1. b \in alerts /\ IsActive(b)
      BY DEF ActiveAlerts
    <3>2. ingest[r].pc \in Evaluating /\ b.rule \in GetApplicableRules(ingest[r].rules, d)
      BY <1>5, <2>1, CommitMoves, RaisedRules DEF Evaluating
    <3>3. b.id \in ingest[r].active
      BY <1>5, <2>1, <3>1, <3>2 DEF SerialInv, ActiveIsCurrent
    <3>4. b.id[2] = q
      BY <2>1, <3>1, DomainAssumption DEF SerialInv, AlertsNameTheirRule
    <3> QED
      BY <1>5, <3>3, <3>4, RaisedRules
  <2>2. Of(ActiveAlerts) = {}
    BY <2>1
  <2>3. Of(Kept \cup New) = {<<r, q>>}
    <3>1. ASSUME NEW id \in Of(Kept \cup New) PROVE id = <<r, q>>
      <4>1. PICK a \in Kept \cup New : id = a.id /\ a.device = d /\ a.rule = q
        OBVIOUS
      <4>2. a \in New
        BY <2>1, <4>1
      <4> QED
        BY <1>3, <4>1, <4>2
    <3>2. NewAlert(r, q) \in Kept \cup New
      BY <1>5
    <3>3. <<r, q>> \in Of(Kept \cup New)
      BY <1>3, <1>5, <3>2
    <3> QED
      BY <3>1, <3>3
  <2> QED
    BY <1>1, <1>2, <1>5, <2>2, <2>3
<1>6. CASE d = ingest[r].device /\ q \notin Raised(r)
  <2>1. \A a \in New : a.rule # q
    BY <1>3, <1>6
  <2>2. Of(Kept \cup New) = Of(Kept)
    BY <2>1
  <2>3. \A a, b \in ActiveAlerts : a.device = d /\ a.rule = q /\ b.device = d /\ b.rule = q => a = b
    BY DomainAssumption DEF ActiveAlerts, AtMostOneActiveAlert
  <2>4. Of(Kept) = {} \/ Of(Kept) = Of(ActiveAlerts)
    BY <2>3
  <2> QED
    BY <1>1, <1>2, <1>6, <2>2, <2>4
<1> QED
  BY <1>4, <1>5, <1>6

(* A request raises its alerts once.                                       *)
LEMMA CommitIsFirst ==
  ASSUME TypeOK, AlertInv, NEW r \in Requests, CommitsAlerts(r), NEW q
  PROVE  \A a \in alerts : a.id[1] # r /\ a.id # <<r, q>>
<1>1. \A a \in alerts : a.id[1] # r
  BY CommitMoves DEF AlertInv, IdsAreFresh, Early
<1>2. <<r, q>>[1] = r
  OBVIOUS
<1> QED
  BY <1>1, <1>2

LEMMA CommitOrphans ==
  ASSUME TypeOK, NEW r \in Requests, CommitsAlerts(r)
  PROVE  Orphans' \subseteq Orphans
<1>1. /\ Orphans = {a.id : a \in {b \in ActiveAlerts : b.rule = NoRule}}
      /\ Orphans' = {a.id : a \in {b \in ActiveAlerts' : b.rule = NoRule}}
  BY DEF Orphans, ActiveAlerts, IsActive
<1>2. \A q \in Raised(r) : NewAlert(r, q).rule # NoRule
  BY NewAlertFields, RaisedRules, DomainAssumption
<1> QED
  BY <1>1, <1>2, CommitActive

(* What a commit resolves, whether its rule still exists or not.           *)
LEMMA CommitGone ==
  ASSUME TypeOK, AlertInv, NEW r \in Requests, CommitsAlerts(r)
  PROVE  Gone = {a.id : a \in {b \in alerts : b.id \in Resolved(r)}}
<1>1. ActiveAlerts' = {a \in ActiveAlerts : a.id \notin Resolved(r)} \cup {NewAlert(r, q) : q \in Raised(r)}
  BY CommitActive
<1>2. /\ Orphans = {a.id : a \in {b \in ActiveAlerts : b.rule = NoRule}}
      /\ Orphans' = {a.id : a \in {b \in ActiveAlerts' : b.rule = NoRule}}
  BY DEF Orphans, ActiveAlerts, IsActive
<1>3. ASSUME NEW d, NEW q
      PROVE  /\ UnresolvedAlerts(d, q) = {a.id : a \in {b \in ActiveAlerts : b.device = d /\ b.rule = q}}
             /\ UnresolvedAlerts(d, q)' = {a.id : a \in {b \in ActiveAlerts' : b.device = d /\ b.rule = q}}
  BY DEF UnresolvedAlerts, ActiveAlerts, IsActive
<1>4. \A a \in ActiveAlerts : a \in alerts
  BY DEF ActiveAlerts
<1>5. ASSUME NEW id \in Gone PROVE \E a \in alerts : a.id = id /\ id \in Resolved(r)
  <2>1. CASE id \in Orphans \ Orphans'
    BY <1>1, <1>2, <1>4, <2>1
  <2>2. ASSUME NEW p \in Devices \X Rules,
               id \in UnresolvedAlerts(p[1], p[2]) \ UnresolvedAlerts(p[1], p[2])'
        PROVE  \E a \in alerts : a.id = id /\ id \in Resolved(r)
    BY <1>1, <1>3, <1>4, <2>2
  <2> QED
    BY <1>5, <2>1, <2>2 DEF Gone
<1>6. ASSUME NEW a \in alerts, a.id \in Resolved(r) PROVE a.id \in Gone
  <2>1. a \in ActiveAlerts /\ a \in Alert /\ a.id[1] # r
    BY <1>6, CommitResolvesActive, CommitMoves, AlertTypes
       DEF ActiveAlerts, AlertInv, IdsAreFresh, Early
  <2>2. ASSUME NEW b \in ActiveAlerts', b.id = a.id PROVE FALSE
    <3>1. b \notin ActiveAlerts \/ b.id \in Resolved(r)
      BY <1>6, <2>2
    <3>2. PICK q \in Raised(r) : b = NewAlert(r, q)
      BY <1>1, <1>6, <2>2, <3>1
    <3> QED
      BY <2>1, <2>2, <3>2, NewAlertFields
  <2>3. CASE a.rule = NoRule
    BY <1>2, <2>1, <2>2, <2>3 DEF Gone
  <2>4. CASE a.rule # NoRule
    <3> DEFINE p == <<a.device, a.rule>>
    <3>1. p \in Devices \X Rules /\ p[1] = a.device /\ p[2] = a.rule
      BY <2>1, <2>4 DEF Alert
    <3>2. a.id \in UnresolvedAlerts(a.device, a.rule)
      BY <1>3, <2>1
    <3>3. a.id \notin UnresolvedAlerts(a.device, a.rule)'
      BY <1>3, <2>2
    <3> HIDE DEF p
    <3>4. a.id \in UnresolvedAlerts(p[1], p[2]) \ UnresolvedAlerts(p[1], p[2])'
      BY <3>1, <3>2, <3>3
    <3> QED
      BY <3>1, <3>4 DEF Gone
  <2> QED
    BY <2>3, <2>4
<1> QED
  BY <1>5, <1>6

ResolvedAlerts == {<<a.id, a.resolvedBy>> : a \in {b \in alerts : ~IsActive(b)}}

LEMMA CommitResolves ==
  ASSUME TypeOK, AlertInv, NEW r \in Requests, CommitsAlerts(r)
  PROVE  ResolvedAlerts' = ResolvedAlerts \cup (Gone \X {r})
<1> DEFINE Settling == {b \in alerts : b.id \in Resolved(r)}
<1>1. /\ ResolvedAlerts = {<<a.id, a.resolvedBy>> : a \in InactiveAlerts}
      /\ ResolvedAlerts' = {<<a.id, a.resolvedBy>> : a \in InactiveAlerts'}
  BY DEF ResolvedAlerts, InactiveAlerts, IsActive
<1>2. \A a \in Settling : Settled(r, a).id = a.id /\ Settled(r, a).resolvedBy = r
  BY AlertTypes, SettledFields
<1>3. InactiveAlerts' = InactiveAlerts \cup {Settled(r, a) : a \in Settling}
  BY CommitInactive
<1>4. Gone = {a.id : a \in Settling}
  BY CommitGone
<1> HIDE DEF Settling
<1>5. {<<a.id, a.resolvedBy>> : a \in {Settled(r, b) : b \in Settling}} = Gone \X {r}
  BY <1>2, <1>4
<1> QED
  BY <1>1, <1>3, <1>5

(* The Id of a new alert is none that any alert has or had.                *)
LEMMA CommitRaisesFresh ==
  ASSUME TypeOK, AlertInv, NEW r \in Requests, CommitsAlerts(r), NEW q \in Raised(r)
  PROVE  <<r, q>> \in AlertId /\ <<r, q>> \notin Lifecycle!History
<1>1. \A a \in alerts : a.id # <<r, q>>
  BY CommitIsFirst
<1>2. \A x \in ResolvedAlerts : x[1] # <<r, q>>
  BY <1>1 DEF ResolvedAlerts
<1>3. <<r, q>> \notin Orphans
  BY <1>1 DEF Orphans
<1>4. \A d, p : <<r, q>> \notin UnresolvedAlerts(d, p)
  BY <1>1 DEF UnresolvedAlerts
<1>5. <<r, q>> \in AlertId
  BY RaisedRules DEF AlertId
<1> QED
  BY <1>2, <1>3, <1>4, <1>5 DEF Lifecycle!History, Lifecycle!Pairs, ResolvedAlerts, Orphans

LEMMA CommitEvaluates ==
  ASSUME TypeOK, SerialInv, AlertInv, AtMostOneActiveAlert, NEW r \in Requests, CommitsAlerts(r)
  PROVE  Lifecycle!Evaluate(ingest[r].device, r)
<1>1. ASSUME NEW p \in Devices \X Rules
      PROVE  \/ Lifecycle!Stays(p)
             \/ /\ p[1] = ingest[r].device
                /\ Lifecycle!Resolves(p) \/ \E id \in AlertId : Lifecycle!Raises(p, id)
  <2> DEFINE U == UnresolvedAlerts(p[1], p[2])
  <2>1. p[1] \in Devices /\ p[2] \in Rules
    OBVIOUS
  <2>2. CASE U' = U
    BY <2>2 DEF Lifecycle!Stays
  <2>3. CASE U' = {} /\ p[1] = ingest[r].device
    BY <2>3 DEF Lifecycle!Resolves
  <2>4. CASE U = {} /\ U' = {<<r, p[2]>>} /\ p[1] = ingest[r].device
    <3>1. <<r, p[2]>> \in AlertId /\ <<r, p[2]>> \notin Lifecycle!History
      <4>1. PICK a \in ActiveAlerts' : a.id = <<r, p[2]>>
        BY <2>4 DEF UnresolvedAlerts, ActiveAlerts, IsActive
      <4>2. \A b \in ActiveAlerts : b.id # <<r, p[2]>>
        BY CommitIsFirst DEF ActiveAlerts
      <4>3. PICK q \in Raised(r) : a = NewAlert(r, q)
        BY <4>1, <4>2, CommitActive
      <4>4. q = p[2]
        BY <4>1, <4>3, NewAlertFields
      <4> QED
        BY <4>4, CommitRaisesFresh
    <3>2. Lifecycle!Raises(p, <<r, p[2]>>)
      BY <2>4, <3>1 DEF Lifecycle!Raises
    <3> QED
      BY <2>4, <3>1, <3>2
  <2>5. U' = U \/ (p[1] = ingest[r].device /\ (U' = {} \/ (U = {} /\ U' = {<<r, p[2]>>})))
    BY <2>1, CommitUnresolved
  <2> QED
    BY <2>2, <2>3, <2>4, <2>5
<1>2. Orphans' \subseteq Orphans
  BY CommitOrphans
<1>3. ResolvedAlerts' = ResolvedAlerts \cup (Gone \X {r})
  BY CommitResolves
<1>4. UNION {[x \in Devices \X Rules |-> UnresolvedAlerts(x[1], x[2])][p]
               \ [x \in Devices \X Rules |-> UnresolvedAlerts(x[1], x[2])]'[p] : p \in Devices \X Rules}
      = UNION {UnresolvedAlerts(p[1], p[2]) \ UnresolvedAlerts(p[1], p[2])' : p \in Devices \X Rules}
  OBVIOUS
<1> QED
  BY <1>1, <1>2, <1>3, <1>4 DEF Lifecycle!Evaluate, Lifecycle!Pairs, Orphans, ResolvedAlerts, Gone

LEMMA DeletionOrphans ==
  ASSUME TypeOK, NEW q \in Rules, DeletesRule(q)
  PROVE  Lifecycle!DeleteRule(q)
<1> DEFINE Of(A, d, p) == {a.id : a \in {b \in A : b.device = d /\ b.rule = p}}
<1>1. \A a \in alerts : /\ Unlinked(q, a).id = a.id
                        /\ Unlinked(q, a).device = a.device
                        /\ Unlinked(q, a).rule = IF a.rule = q THEN NoRule ELSE a.rule
                        /\ IsActive(Unlinked(q, a)) <=> IsActive(a)
                        /\ Unlinked(q, a).resolvedBy = a.resolvedBy
  BY AlertTypes, UnlinkedFields
<1>2. alerts' = {Unlinked(q, a) : a \in alerts}
  BY DEF DeletesRule
<1>3. ActiveAlerts' = {Unlinked(q, a) : a \in ActiveAlerts}
  <2>1. ActiveAlerts' = {b \in alerts' : IsActive(b)}
    BY DEF ActiveAlerts, IsActive
  <2> QED
    BY <1>1, <1>2, <2>1 DEF ActiveAlerts
<1>4. \A a \in ActiveAlerts : a \in alerts
  BY DEF ActiveAlerts
<1>5. ASSUME NEW d, NEW p
      PROVE  /\ UnresolvedAlerts(d, p) = Of(ActiveAlerts, d, p)
             /\ UnresolvedAlerts(d, p)' = Of(ActiveAlerts', d, p)
  BY DEF UnresolvedAlerts, ActiveAlerts, IsActive
<1>6. ASSUME NEW d, NEW p \in Rules
      PROVE  UnresolvedAlerts(d, p)' = IF p = q THEN {} ELSE UnresolvedAlerts(d, p)
  <2>1. q # NoRule /\ p # NoRule
    BY DomainAssumption
  <2>2. CASE p = q
    <3>1. \A b \in ActiveAlerts' : b.rule # q
      BY <1>1, <1>3, <1>4, <2>1
    <3> QED
      BY <1>5, <2>2, <3>1
  <2>3. CASE p # q
    <3>1. ASSUME NEW a \in ActiveAlerts
          PROVE  /\ Unlinked(q, a).id = a.id
                 /\ Unlinked(q, a).device = d /\ Unlinked(q, a).rule = p
                    <=> a.device = d /\ a.rule = p
      BY <1>1, <1>4, <2>1, <2>3
    <3>2. ASSUME NEW x \in Of(ActiveAlerts', d, p) PROVE x \in Of(ActiveAlerts, d, p)
      BY <1>3, <3>1
    <3>3. ASSUME NEW a \in ActiveAlerts, a.device = d, a.rule = p
          PROVE  a.id \in Of(ActiveAlerts', d, p)
      <4>1. Unlinked(q, a) \in ActiveAlerts'
        BY <1>3
      <4> QED
        BY <3>1, <3>3, <4>1
    <3>4. Of(ActiveAlerts', d, p) = Of(ActiveAlerts, d, p)
      BY <3>2, <3>3
    <3> HIDE DEF Of
    <3>5. UnresolvedAlerts(d, p)' = UnresolvedAlerts(d, p)
      BY <1>5, <3>4
    <3> QED
      BY <2>3, <3>5
  <2> QED
    BY <2>2, <2>3
<1>7. Orphans' = Orphans \cup UNION {UnresolvedAlerts(d, q) : d \in Devices}
  <2>1. /\ Orphans = {a.id : a \in {b \in ActiveAlerts : b.rule = NoRule}}
        /\ Orphans' = {a.id : a \in {b \in ActiveAlerts' : b.rule = NoRule}}
    BY DEF Orphans, ActiveAlerts, IsActive
  <2>2. \A a \in ActiveAlerts : a.device \in Devices
    BY AlertTypes DEF ActiveAlerts, Alert
  <2>3. UNION {UnresolvedAlerts(d, q) : d \in Devices} = {a.id : a \in {b \in ActiveAlerts : b.rule = q}}
    BY <1>5, <2>2
  <2>4. Orphans' = {a.id : a \in {b \in ActiveAlerts : b.rule \in {NoRule, q}}}
    BY <1>1, <1>3, <1>4, <2>1
  <2> QED
    BY <2>1, <2>3, <2>4
<1>8. ResolvedAlerts' = ResolvedAlerts
  <2>1. InactiveAlerts' = {Unlinked(q, a) : a \in InactiveAlerts}
    <3>1. InactiveAlerts' = {b \in alerts' : ~IsActive(b)}
      BY DEF InactiveAlerts, IsActive
    <3> QED
      BY <1>1, <1>2, <3>1 DEF InactiveAlerts
  <2>2. /\ ResolvedAlerts = {<<a.id, a.resolvedBy>> : a \in InactiveAlerts}
        /\ ResolvedAlerts' = {<<a.id, a.resolvedBy>> : a \in InactiveAlerts'}
    BY DEF ResolvedAlerts, InactiveAlerts, IsActive
  <2>3. \A a \in InactiveAlerts : a \in alerts
    BY DEF InactiveAlerts
  <2> QED
    BY <1>1, <2>1, <2>2, <2>3
<1>9. [p \in Devices \X Rules |-> UnresolvedAlerts(p[1], p[2])]'
      = [p \in Devices \X Rules |->
           IF p[2] = q THEN {} ELSE [s \in Devices \X Rules |-> UnresolvedAlerts(s[1], s[2])][p]]
  BY <1>6
<1>10. UNION {[p \in Devices \X Rules |-> UnresolvedAlerts(p[1], p[2])][<<d, q>>] : d \in Devices}
       = UNION {UnresolvedAlerts(d, q) : d \in Devices}
  OBVIOUS
<1> QED
  BY <1>7, <1>8, <1>9, <1>10 DEF Lifecycle!DeleteRule, Lifecycle!Pairs, Orphans, ResolvedAlerts

LEMMA LifecycleInit == Init => Lifecycle!Init
BY DEF Init, DatabaseInit, Lifecycle!Init, Lifecycle!Pairs, UnresolvedAlerts

(* For devices that wait for the answer, the alerts implement their        *)
(* lifecycle, although evaluation and commit are separate steps and rules  *)
(* are edited and deleted in between: normal, unresolved, resolved, one    *)
(* unresolved alert at a time, and final once resolved.                    *)
THEOREM AlertsFollowLifecycle == ASSUME Overlap = FALSE PROVE Spec => ImplementsAlertLifecycle
<1>1. /\ TypeOK /\ QueueInv /\ SerialInv /\ AlertInv /\ AtMostOneActiveAlert
      /\ [Next]_vars
      => [Lifecycle!Next]_(Lifecycle!vars)
  <2> SUFFICES ASSUME TypeOK, SerialInv, AlertInv, AtMostOneActiveAlert, [Next]_vars
               PROVE  [Lifecycle!Next]_(Lifecycle!vars)
    OBVIOUS
  <2>1. CASE UNCHANGED alerts
    BY <2>1 DEF Lifecycle!vars, UnresolvedAlerts, IsActive
  <2>2. ASSUME NEW r \in Requests, CommitsAlerts(r) PROVE Lifecycle!Next
    BY <2>2, CommitEvaluates, CommitMoves DEF Lifecycle!Next
  <2>3. ASSUME NEW q \in Rules, DeletesRule(q) PROVE Lifecycle!Next
    BY <2>3, DeletionOrphans DEF Lifecycle!Next
  <2> QED
    BY <2>1, <2>2, <2>3, AlertSteps DEF AlertStep
<1> QED
  BY <1>1, LifecycleInit, AlertsHold, PTL DEF Spec, ImplementsAlertLifecycle, Lifecycle!Spec

-----------------------------------------------------------------------------
(* The alerts on a dashboard.                                              *)

(* What a request that has committed still has to publish.                 *)
OpensDue(id) == \E r \in Requests : Pending(r) /\ \E q \in Raised(r) : id = <<r, q>>
ClosesDue(id) == \E r \in Requests : Pending(r) /\ id \in Resolved(r)
Unresolved(id) == \E b \in alerts : b.id = id /\ IsActive(b)

(* The inductive invariant: the alerts of what is still to be published    *)
(* are there; a dashboard shows the unresolved alerts but for those.       *)
PublicationsDue ==
  \A r \in Requests : Pending(r) =>
    /\ \A q \in Raised(r) :
         \E b \in alerts : b.id = <<r, q>> /\ b.device = ingest[r].device /\ IsActive(b)
    /\ \A id \in Resolved(r) :
         \E b \in alerts : b.id = id /\ b.device = ingest[r].device /\ ~IsActive(b)
OpenAlertsAreKnown ==
  \A id \in AlertId :
    id \in openAlerts <=> ClosesDue(id) \/ (Unresolved(id) /\ ~OpensDue(id))

DashboardInv == PublicationsDue /\ OpenAlertsAreKnown

KeepsDue(r) ==
  /\ Pending(r)' <=> Pending(r)
  /\ Pending(r) => /\ Raised(r)' = Raised(r)
                   /\ Resolved(r)' = Resolved(r)
                   /\ ingest'[r].device = ingest[r].device

LEMMA SameDue ==
  ASSUME NEW r, ingest'[r].device = ingest[r].device, ingest'[r].rules = ingest[r].rules,
         ingest'[r].active = ingest[r].active
  PROVE  Raised(r)' = Raised(r) /\ Resolved(r)' = Resolved(r)
BY DEF Raised, Resolved

LEMMA DueSteps ==
  ASSUME Faults \subseteq {"redis", "expire"}, TypeOK, [Next]_vars, NEW r \in Requests
  PROVE  PublishAlerts(r) \/ CommitsAlerts(r) \/ KeepsDue(r)
<1>1. ingest \in [Requests -> IngestState]
  BY DEF TypeOK, ServiceTypeOK
<1>2. CASE ingest'[r] = ingest[r]
  BY <1>2, SameDue DEF KeepsDue, Pending
<1>3. ASSUME ~Pending(r), ~Pending(r)' PROVE KeepsDue(r)
  BY <1>3 DEF KeepsDue
<1>4. CASE LoadDevice(r) \/ LoadRules(r) \/ LoadActiveAlerts(r) \/ RequireDevice(r)
  <2>1. ~Pending(r)
    BY <1>4 DEF LoadDevice, LoadRules, LoadActiveAlerts, RequireDevice, Pending, IngestSteps, Early
  <2>2. ~Pending(r)'
    <3>1. CASE ingest'[r].pc \in {"loadRules", "loadActive", "requireDevice", "commit", "refused", "failed"}
      BY <3>1 DEF Pending, IngestSteps, Early
    <3>2. CASE LoadDevice(r)
      <4>1. ASSUME NEW d, ingest' = [ingest EXCEPT ![r].pc = "loadRules", ![r].device = d,
                                                   ![r].loaded = devices[d]]
            PROVE  ingest'[r].pc = "loadRules"
        BY <1>1, <4>1 DEF IngestState
      <4>2. ingest'[r].pc \in {"loadRules", "refused"}
        BY <3>2, <4>1, MovedTo DEF LoadDevice
      <4> QED
        BY <3>1, <4>2
    <3>3. CASE LoadRules(r)
      <4>1. ingest'[r].pc = "loadActive"
        BY <1>1, <3>3 DEF LoadRules, IngestState
      <4> QED
        BY <3>1, <4>1
    <3>4. CASE LoadActiveAlerts(r)
      <4>1. ingest'[r].pc \in {"requireDevice", "failed"}
        BY <1>1, <3>4, MovedTo DEF LoadActiveAlerts, IngestState
      <4> QED
        BY <3>1, <4>1
    <3>5. CASE RequireDevice(r)
      BY <3>1, <3>5, MovedTo DEF RequireDevice
    <3> QED
      BY <1>4, <3>2, <3>3, <3>4, <3>5
  <2> QED
    BY <1>3, <2>1, <2>2
<1>5. CASE SaveChanges(r)
  <2>1. ingest[r].pc = "commit" /\ ~Pending(r)
    BY <1>5 DEF SaveChanges, Pending, Early
  <2>2. CASE ingest'[r].pc = "cacheWrite"
    BY <2>1, <2>2, CommitSteps
  <2>3. CASE ingest'[r].pc # "cacheWrite"
    <3>1. ingest'[r].pc = "failed"
      BY <1>5, <2>3, MovedTo DEF SaveChanges
    <3> QED
      BY <1>3, <2>1, <3>1 DEF Pending, IngestSteps
  <2> QED
    BY <2>2, <2>3
<1>6. CASE CacheWrite(r) \/ CacheRead(r) \/ RebuildState(r) \/ PublishState(r) \/ PublishStatus(r)
  <2>1. Pending(r)
    BY <1>6 DEF CacheWrite, CacheRead, RebuildState, PublishState, PublishStatus, Pending,
       IngestSteps, Early
  <2>2. /\ Pending(r)'
        /\ ingest'[r].device = ingest[r].device
        /\ ingest'[r].rules = ingest[r].rules
        /\ ingest'[r].active = ingest[r].active
    BY <1>1, <1>6 DEF CacheWrite, CacheRead, RebuildState, PublishState, PublishStatus, Goto, Notify,
       IngestState, Pending, IngestSteps, Early
  <2> QED
    BY <2>1, <2>2, SameDue DEF KeepsDue
<1>7. ~AbortIngest(r)
  BY DEF AbortIngest
<1> QED
  BY <1>2, <1>4, <1>5, <1>6, <1>7, OwnSteps DEF Ingest

(* An alert that is resolved stays resolved.                               *)
LEMMA InactiveStays ==
  ASSUME TypeOK, AlertInv, [Next]_vars, NEW b \in alerts, ~IsActive(b)
  PROVE  \E c \in alerts' : c.id = b.id /\ c.device = b.device /\ ~IsActive(c)
<1>1. ASSUME NEW s \in Requests, CommitsAlerts(s)
      PROVE  \E c \in alerts' : c.id = b.id /\ c.device = b.device /\ ~IsActive(c)
  <2>1. Settled(s, b) \in alerts'
    BY <1>1 DEF CommitsAlerts
  <2> QED
    BY <2>1, AlertTypes, SettledFields
<1>2. ASSUME NEW q \in Rules, DeletesRule(q)
      PROVE  \E c \in alerts' : c.id = b.id /\ c.device = b.device /\ ~IsActive(c)
  <2>1. Unlinked(q, b) \in alerts'
    BY <1>2 DEF DeletesRule
  <2> QED
    BY <2>1, AlertTypes, UnlinkedFields
<1> QED
  BY <1>1, <1>2, AlertSteps DEF AlertStep

(* Nothing is published before it is committed.                            *)
LEMMA CommitIsDue ==
  ASSUME TypeOK, AlertInv, NEW r \in Requests, CommitsAlerts(r)
  PROVE  /\ ~Pending(r) /\ Pending(r)'
         /\ Raised(r)' = Raised(r) /\ Resolved(r)' = Resolved(r)
         /\ ingest'[r].device = ingest[r].device
         /\ \A q \in Raised(r) :
              \E b \in alerts' : b.id = <<r, q>> /\ b.device = ingest[r].device /\ IsActive(b)
         /\ \A id \in Resolved(r) :
              /\ \E b \in alerts : b.id = id /\ b.device = ingest[r].device /\ IsActive(b)
              /\ \E b \in alerts' : b.id = id /\ b.device = ingest[r].device /\ ~IsActive(b)
<1>1. ingest[r].pc = "commit" /\ ingest'[r] = [ingest[r] EXCEPT !.pc = "cacheWrite"]
  BY CommitMoves
<1>2. /\ ingest'[r].device = ingest[r].device
      /\ ingest'[r].rules = ingest[r].rules
      /\ ingest'[r].active = ingest[r].active
      /\ ingest'[r].pc = "cacheWrite"
  BY <1>1, IngestFieldTypes DEF IngestState
<1>3. ASSUME NEW q \in Raised(r)
      PROVE  \E b \in alerts' : b.id = <<r, q>> /\ b.device = ingest[r].device /\ IsActive(b)
  BY NewAlertFields DEF CommitsAlerts
<1>4. ASSUME NEW id \in Resolved(r)
      PROVE  /\ \E b \in alerts : b.id = id /\ b.device = ingest[r].device /\ IsActive(b)
             /\ \E b \in alerts' : b.id = id /\ b.device = ingest[r].device /\ ~IsActive(b)
  <2>1. PICK b \in alerts : b.id = id /\ b.device = ingest[r].device /\ IsActive(b)
    BY <1>1, ResolvedWasFound DEF AlertInv, FoundAreActive, Evaluating
  <2>2. Settled(r, b) \in alerts'
    BY DEF CommitsAlerts
  <2> QED
    BY <2>1, <2>2, AlertTypes, SettledFields
<1> QED
  BY <1>1, <1>2, <1>3, <1>4, SameDue DEF Pending, IngestSteps, Early

LEMMA PublicationsNext ==
  ASSUME Faults \subseteq {"redis", "expire"}, TypeOK, QueueInv, AlertInv, PublicationsDue, [Next]_vars
  PROVE  PublicationsDue'
<1> SUFFICES ASSUME NEW r \in Requests, Pending(r)'
             PROVE  /\ \A q \in Raised(r)' : \E b \in alerts' :
                         b.id = <<r, q>> /\ b.device = ingest'[r].device /\ IsActive(b)
                    /\ \A id \in Resolved(r)' : \E b \in alerts' :
                         b.id = id /\ b.device = ingest'[r].device /\ ~IsActive(b)
  BY DEF PublicationsDue, IsActive
<1>1. CASE CommitsAlerts(r)
  BY <1>1, CommitIsDue
<1>2. CASE PublishAlerts(r)
  <2>1. ingest'[r].pc = "accepted"
    BY <1>2 DEF PublishAlerts, End, AtPc, TypeOK, ServiceTypeOK
  <2> QED
    BY <2>1 DEF Pending, IngestSteps
<1>3. CASE KeepsDue(r)
  <2>1. Pending(r)
    BY <1>3 DEF KeepsDue
  <2>2. ASSUME NEW s \in Requests, CommitsAlerts(s), ingest[s].device = ingest[r].device PROVE FALSE
    <3>1. InFlight(r)
      BY <2>1 DEF Pending, InFlight
    <3>2. s = r
      BY <2>2, <3>1, CommitMoves, OneCommitPerDevice
    <3> QED
      BY <2>1, <2>2, <3>2, CommitIsDue
  <2>3. ASSUME NEW q \in Raised(r)
        PROVE  \E b \in alerts' : b.id = <<r, q>> /\ b.device = ingest[r].device /\ IsActive(b)
    <3>1. PICK b \in alerts : b.id = <<r, q>> /\ b.device = ingest[r].device /\ IsActive(b)
      BY <2>1 DEF PublicationsDue
    <3> QED
      BY <2>2, <3>1, ActiveStays
  <2>4. ASSUME NEW id \in Resolved(r)
        PROVE  \E b \in alerts' : b.id = id /\ b.device = ingest[r].device /\ ~IsActive(b)
    <3>1. PICK b \in alerts : b.id = id /\ b.device = ingest[r].device /\ ~IsActive(b)
      BY <2>1 DEF PublicationsDue
    <3> QED
      BY <3>1, InactiveStays
  <2> QED
    BY <1>3, <2>1, <2>3, <2>4 DEF KeepsDue
<1> QED
  BY <1>1, <1>2, <1>3, DueSteps

(* Only publications change what is on the dashboard.                      *)
LEMMA OpenAlertsSteps ==
  ASSUME [Next]_vars
  PROVE  UNCHANGED openAlerts \/ \E r \in Requests : PublishAlerts(r)
<1> DEFINE Goal == UNCHANGED openAlerts \/ \E r \in Requests : PublishAlerts(r)
<1>1. ASSUME UNCHANGED openAlerts PROVE Goal
  BY <1>1
<1>2. ASSUME NEW r \in Requests, PublishAlerts(r) PROVE Goal
  BY <1>2
<1> HIDE DEF Goal
<1>3. ASSUME NEW r \in Requests, Ingest(r) \/ AbortIngest(r) PROVE Goal
  BY <1>1, <1>2, <1>3 DEF Ingest, LoadDevice, LoadRules, LoadActiveAlerts, RequireDevice, SaveChanges,
     CacheWrite, CacheRead, RebuildState, PublishState, PublishStatus, AbortIngest,
     DeviceStateUpdated, DeviceStatusChanged, Lost, notifierVars
<1>4. ASSUME NEW g \in Readers, Read(g) \/ AbortReader(g) PROVE Goal
  BY <1>1, <1>4 DEF Read, GetState, ReadCachedState, ReadHistory, WriteRebuiltState, AbortReader,
     notifierVars
<1>5. ASSUME MonitorStep PROVE Goal
  BY <1>1, <1>5 DEF MonitorStep, MonitorPass, FindStaleDevices, CommitOffline, NextDevice, ReadState,
     ReadHistoryForState, WriteState, PublishOffline, PublishOfflineState, AbortPass, Tick,
     DeviceStateUpdated, DeviceStatusChanged, Lost, notifierVars
<1>6. ASSUME AdminStep \/ ExpiryStep \/ UNCHANGED vars PROVE Goal
  BY <1>1, <1>6 DEF AdminStep, ExpiryStep, vars, notifierVars
<1>7. Goal
  BY <1>3, <1>4, <1>5, <1>6 DEF Next, ServiceStep
<1> QED
  BY <1>7 DEF Goal

(* Request r publishes its alerts.                                         *)
LEMMA PublishesAlerts ==
  ASSUME Faults \subseteq {"redis", "expire"}, Overlap = FALSE, TypeOK, QueueInv, AlertInv, DashboardInv, [Next]_vars,
         NEW r \in Requests, PublishAlerts(r), NEW id \in AlertId
  PROVE  id \in openAlerts' <=> ClosesDue(id)' \/ (Unresolved(id)' /\ ~OpensDue(id)')
<1> DEFINE raised == {<<r, q>> : q \in Raised(r)}
           resolved == Resolved(r)
<1>1. /\ ingest[r].pc = "publishAlerts" /\ ingest'[r].pc = "accepted"
      /\ UNCHANGED alerts
      /\ openAlerts' = (openAlerts \cup raised) \ resolved
      /\ \A s \in Requests \ {r} : ingest'[s] = ingest[s]
  <2>1. UNCHANGED alerts /\ ingest[r].pc = "publishAlerts" /\ End(r, "accepted")
    BY DEF PublishAlerts, dbVars
  <2>2. PICK delivered \in SUBSET (raised \cup resolved) :
          /\ "notify" \in Faults \/ delivered = raised \cup resolved
          /\ openAlerts' = (openAlerts \cup (raised \cap delivered)) \ (resolved \cap delivered)
    BY DEF PublishAlerts, AlertEvents
  <2>3. openAlerts' = (openAlerts \cup raised) \ resolved
    BY <2>2
  <2>4. \A s \in Requests \ {r} : ingest'[s] = ingest[s]
    BY <2>1 DEF End, TypeOK, ServiceTypeOK
  <2> QED
    BY <2>1, <2>3, <2>4, MovedTo
<1>2. Pending(r) /\ InFlight(r) /\ ~Pending(r)'
  BY <1>1 DEF Pending, InFlight, IngestSteps, Early
<1>3. \A s \in Requests \ {r} : /\ Pending(s)' <=> Pending(s)
                                /\ Raised(s)' = Raised(s) /\ Resolved(s)' = Resolved(s)
  BY <1>1, SameDue DEF Pending
<1>4. /\ ClosesDue(id)' <=> \E s \in Requests \ {r} : Pending(s) /\ id \in Resolved(s)
      /\ OpensDue(id)' <=> \E s \in Requests \ {r} : Pending(s) /\ \E q \in Raised(s) : id = <<s, q>>
  BY <1>2, <1>3 DEF ClosesDue, OpensDue
<1>5. Unresolved(id)' <=> Unresolved(id)
  BY <1>1 DEF Unresolved, IsActive
<1>6. id \in openAlerts <=> ClosesDue(id) \/ (Unresolved(id) /\ ~OpensDue(id))
  BY DEF DashboardInv, OpenAlertsAreKnown
<1>7. CASE id \in resolved
  <2>1. PICK b \in alerts : b.id = id /\ b.device = ingest[r].device /\ ~IsActive(b)
    BY <1>2, <1>7 DEF DashboardInv, PublicationsDue
  <2>2. ~Unresolved(id)
    BY <2>1 DEF Unresolved, AlertInv, IdsAreUnique
  <2>3. ASSUME NEW s \in Requests \ {r}, Pending(s), id \in Resolved(s) PROVE FALSE
    <3>1. PICK c \in alerts : c.id = id /\ c.device = ingest[s].device
      BY <2>3 DEF DashboardInv, PublicationsDue
    <3>2. ingest[s].device = ingest[r].device /\ InFlight(s)
      BY <2>1, <2>3, <3>1 DEF AlertInv, IdsAreUnique, Pending, InFlight
    <3> QED
      BY <1>2, <3>2, OneCommitPerDevice
  <2> QED
    BY <1>1, <1>4, <1>5, <1>7, <2>2, <2>3
<1>8. CASE id \in raised /\ id \notin resolved
  <2>1. PICK q \in Raised(r) : id = <<r, q>>
    BY <1>8
  <2>2. Unresolved(id)
    BY <1>2, <2>1 DEF DashboardInv, PublicationsDue, Unresolved
  <2>3. ~OpensDue(id)'
    BY <1>4, <2>1
  <2> QED
    BY <1>1, <1>5, <1>8, <2>2, <2>3
<1>9. CASE id \notin raised /\ id \notin resolved
  <2>1. (ClosesDue(id)' <=> ClosesDue(id)) /\ (OpensDue(id)' <=> OpensDue(id))
    BY <1>4, <1>9 DEF ClosesDue, OpensDue
  <2> QED
    BY <1>1, <1>5, <1>6, <1>9, <2>1
<1> QED
  BY <1>7, <1>8, <1>9

(* Request r commits its alerts.                                           *)
LEMMA CommitsUnpublished ==
  ASSUME Faults \subseteq {"redis", "expire"}, TypeOK, QueueInv, AlertInv, DashboardInv, [Next]_vars,
         NEW r \in Requests, CommitsAlerts(r), NEW id \in AlertId
  PROVE  id \in openAlerts' <=> ClosesDue(id)' \/ (Unresolved(id)' /\ ~OpensDue(id)')
<1>1. /\ InFlight(r) /\ ~Pending(r) /\ Pending(r)'
      /\ Raised(r)' = Raised(r) /\ Resolved(r)' = Resolved(r)
      /\ \A s \in Requests \ {r} : ingest'[s] = ingest[s]
  BY CommitMoves, CommitIsDue
<1>2. \A s \in Requests \ {r} : /\ Pending(s)' <=> Pending(s)
                                /\ Raised(s)' = Raised(s) /\ Resolved(s)' = Resolved(s)
  BY <1>1, SameDue DEF Pending
<1>3. openAlerts' = openAlerts
  BY DEF CommitsAlerts, Commits, SaveChanges, notifierVars
<1>4. /\ ClosesDue(id)' <=> ClosesDue(id) \/ id \in Resolved(r)
      /\ OpensDue(id)' <=> OpensDue(id) \/ \E q \in Raised(r) : id = <<r, q>>
  BY <1>1, <1>2 DEF ClosesDue, OpensDue
<1>5. id \in openAlerts <=> ClosesDue(id) \/ (Unresolved(id) /\ ~OpensDue(id))
  BY DEF DashboardInv, OpenAlertsAreKnown
<1>6. Unresolved(id)' <=> (Unresolved(id) /\ id \notin Resolved(r)) \/ \E q \in Raised(r) : id = <<r, q>>
  <2>1. /\ Unresolved(id) <=> \E b \in ActiveAlerts : b.id = id
        /\ Unresolved(id)' <=> \E b \in ActiveAlerts' : b.id = id
    BY DEF Unresolved, ActiveAlerts, IsActive
  <2>2. \A q : NewAlert(r, q).id = <<r, q>>
    BY NewAlertFields
  <2>3. ActiveAlerts' = {a \in ActiveAlerts : a.id \notin Resolved(r)} \cup {NewAlert(r, q) : q \in Raised(r)}
    BY CommitActive
  <2> QED
    BY <2>1, <2>2, <2>3
<1>7. CASE id \in Resolved(r)
  <2>1. PICK b \in alerts : b.id = id /\ b.device = ingest[r].device /\ IsActive(b)
    BY <1>7, CommitIsDue
  <2>2. ASSUME NEW s \in Requests, Pending(s), NEW q \in Raised(s), id = <<s, q>> PROVE FALSE
    <3>1. PICK c \in alerts : c.id = id /\ c.device = ingest[s].device
      BY <2>2 DEF DashboardInv, PublicationsDue
    <3>2. ingest[s].device = ingest[r].device /\ InFlight(s)
      BY <2>1, <2>2, <3>1 DEF AlertInv, IdsAreUnique, Pending, InFlight
    <3> QED
      BY <1>1, <2>2, <3>2, OneCommitPerDevice
  <2>3. Unresolved(id) /\ ~OpensDue(id)
    BY <2>1, <2>2 DEF Unresolved, OpensDue
  <2> QED
    BY <1>3, <1>4, <1>5, <1>7, <2>3
<1>8. ASSUME NEW q \in Raised(r), id = <<r, q>>, id \notin Resolved(r)
      PROVE  id \notin openAlerts /\ ~ClosesDue(id)' /\ OpensDue(id)'
  <2>1. \A a \in alerts : a.id # id
    BY <1>8, CommitIsFirst
  <2>2. ~ClosesDue(id) /\ ~Unresolved(id)
    BY <2>1 DEF ClosesDue, Unresolved, DashboardInv, PublicationsDue
  <2> QED
    BY <1>4, <1>5, <1>8, <2>2
<1>9. CASE id \notin Resolved(r) /\ \A q \in Raised(r) : id # <<r, q>>
  BY <1>3, <1>4, <1>5, <1>6, <1>9
<1> QED
  BY <1>3, <1>7, <1>8, <1>9

(* Any other step changes nothing that counts.                             *)
LEMMA KeepsOpenAlerts ==
  ASSUME Faults \subseteq {"redis", "expire"}, TypeOK, DashboardInv, [Next]_vars,
         \A r \in Requests : ~PublishAlerts(r) /\ ~CommitsAlerts(r), NEW id \in AlertId
  PROVE  id \in openAlerts' <=> ClosesDue(id)' \/ (Unresolved(id)' /\ ~OpensDue(id)')
<1>1. \A r \in Requests : KeepsDue(r)
  BY DueSteps
<1>2. (ClosesDue(id)' <=> ClosesDue(id)) /\ (OpensDue(id)' <=> OpensDue(id))
  BY <1>1 DEF KeepsDue, ClosesDue, OpensDue
<1>3. Unresolved(id)' <=> Unresolved(id)
  <2>1. ASSUME NEW q \in Rules, DeletesRule(q) PROVE Unresolved(id)' <=> Unresolved(id)
    <3>1. \A a \in alerts : Unlinked(q, a).id = a.id /\ (IsActive(Unlinked(q, a)) <=> IsActive(a))
      BY AlertTypes, UnlinkedFields
    <3>2. Unresolved(id)' <=> \E b \in alerts' : b.id = id /\ IsActive(b)
      BY DEF Unresolved, IsActive
    <3> QED
      BY <2>1, <3>1, <3>2 DEF Unresolved, DeletesRule
  <2>2. CASE UNCHANGED alerts
    BY <2>2 DEF Unresolved, IsActive
  <2> QED
    BY <2>1, <2>2, AlertSteps DEF AlertStep
<1> QED
  BY <1>2, <1>3, OpenAlertsSteps DEF DashboardInv, OpenAlertsAreKnown

(* For devices that wait for the answer, dashboards end up with the        *)
(* unresolved alerts, although Redis calls fail, keys expire, and rules and*)
(* devices are edited and deleted between the commit of an alert and its   *)
(* publication, as long as no event is lost and no request is cut off.     *)
THEOREM DashboardFollowsAlerts ==
  ASSUME Overlap = FALSE, Faults \subseteq {"redis", "expire"} PROVE Spec => []DashboardAlertsAreCurrent
<1>1. Init => DashboardInv
  <2> SUFFICES ASSUME Init PROVE DashboardInv
    OBVIOUS
  <2>1. openAlerts = {} /\ alerts = {} /\ \A r \in Requests : ~Pending(r)
    BY DEF Init, DatabaseInit, NotifierInit, ServiceInit, AtPc, Pending, IngestSteps
  <2> QED
    BY <2>1 DEF DashboardInv, PublicationsDue, OpenAlertsAreKnown, ClosesDue, Unresolved
<1>2. TypeOK /\ QueueInv /\ AlertInv /\ DashboardInv /\ [Next]_vars => DashboardInv'
  <2> SUFFICES ASSUME TypeOK, QueueInv, AlertInv, DashboardInv, [Next]_vars PROVE DashboardInv'
    OBVIOUS
  <2>1. ASSUME NEW id \in AlertId
        PROVE  id \in openAlerts' <=> ClosesDue(id)' \/ (Unresolved(id)' /\ ~OpensDue(id)')
    BY PublishesAlerts, CommitsUnpublished, KeepsOpenAlerts
  <2>2. OpenAlertsAreKnown'
    BY <2>1 DEF OpenAlertsAreKnown
  <2> QED
    BY <2>2, PublicationsNext DEF DashboardInv
<1>3. TypeOK /\ DashboardInv => DashboardAlertsAreCurrent
  <2> SUFFICES ASSUME TypeOK, DashboardInv, Quiet
               PROVE  openAlerts = {a.id : a \in {b \in alerts : IsActive(b)}}
    BY DEF DashboardAlertsAreCurrent
  <2>1. \A id : ~ClosesDue(id) /\ ~OpensDue(id)
    BY DEF Quiet, InFlight, ClosesDue, OpensDue, Pending
  <2>2. \A id \in AlertId : id \in openAlerts <=> Unresolved(id)
    BY <2>1 DEF DashboardInv, OpenAlertsAreKnown
  <2>3. openAlerts \subseteq AlertId
    BY DEF TypeOK, NotifierTypeOK
  <2> QED
    BY <2>2, <2>3, AlertTypes DEF Unresolved
<1> QED
  BY <1>1, <1>2, <1>3, AlertsHold, PTL DEF Spec
=============================================================================

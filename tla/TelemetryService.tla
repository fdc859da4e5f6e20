-------------------------- MODULE TelemetryService --------------------------
(***************************************************************************)
(* TelemetryService.IngestAsync with the alert evaluation it calls, and    *)
(* GetStateAsync. One action per stretch of code between two awaits: the   *)
(* requests run concurrently and what one read may be stale when used.     *)
(***************************************************************************)
EXTENDS Database, RealtimeNotifier

CONSTANTS
  Readers,    \* callers of GET /api/devices/{id}/state
  Overlap     \* TRUE: requests of one device may be in flight together.
              \* FALSE: a device sends its next request when the last one has
              \* ended, as SimulationRunner does

ASSUME OverlapAssumption == Overlap \in BOOLEAN

VARIABLES
  ingest,     \* ingest[r]: progress and local state of request r
  reader      \* reader[g]: progress and local state of reader g

serviceVars == <<ingest, reader>>

IngestSteps == {"loadRules", "loadActive", "requireDevice", "commit", "cacheWrite",
                "cacheRead", "rebuild", "publishState", "publishStatus", "publishAlerts"}
Ended == {"accepted", "refused", "failed"}    \* 204; 404 or 409; 500 or no answer

IngestState ==
  {i \in [pc: {"new"} \cup IngestSteps \cup Ended,
          device: Devices \cup {NoDevice},
          loaded: DeviceRow,            \* the row as GetByKeyAsync read it
          rules: [Rules -> RuleRow],    \* the rules as they were read
          active: SUBSET AlertId,       \* the active alerts as they were read
          notification: DeviceState] :
     i.pc \in IngestSteps => i.device \in Devices}

ReaderState ==
  {g \in [pc: {"idle", "cacheRead", "rebuild", "cacheWrite"},
          device: Devices \cup {NoDevice},
          loaded: DeviceRow,
          redisAvailable: BOOLEAN,
          state: DeviceState] :
     g.pc # "idle" => g.device \in Devices}

ServiceTypeOK ==
  /\ ingest \in [Requests -> IngestState]
  /\ reader \in [Readers -> ReaderState]

AtPc(pc) == [pc |-> pc, device |-> NoDevice, loaded |-> NewDevice,
             rules |-> RulesAtStart, active |-> {}, notification |-> NoState]

IdleReader == [pc |-> "idle", device |-> NoDevice, loaded |-> NewDevice,
               redisAvailable |-> TRUE, state |-> NoState]

ServiceInit ==
  /\ ingest = [r \in Requests |-> AtPc("new")]
  /\ reader = [g \in Readers |-> IdleReader]

-----------------------------------------------------------------------------
(* What a request computes from its local state.                           *)

InFlight(r) == ingest[r].pc \in IngestSteps
Entity(r) == RecordTelemetry(ingest[r].loaded, Command[r].timestamp)
Raised(r) ==
  RulesToRaise(ingest[r].rules, ingest[r].active, ingest[r].device, Command[r])
Resolved(r) ==
  AlertsToResolve(ingest[r].rules, ingest[r].active, ingest[r].device, Command[r])
StateToCache(r) == StateOf(Entity(r), BatchReadings(Command[r]))

Goto(r, pc) == ingest' = [ingest EXCEPT ![r].pc = pc]
End(r, outcome) == ingest' = [ingest EXCEPT ![r] = AtPc(outcome)]
Notify(r, state) ==
  ingest' = [ingest EXCEPT ![r].pc = "publishState", ![r].notification = state]

-----------------------------------------------------------------------------
(* IngestAsync.                                                            *)

(* The validated request arrives and its device is loaded, tracked.        *)
LoadDevice(r) ==
  /\ ingest[r].pc = "new"
  /\ Overlap \/ \A s \in Requests : Command[s].key = Command[r].key => ~InFlight(s)
  /\ \/ \E d \in GetByKey(Command[r].key) :
          /\ devices[d].isEnabled
          /\ ingest' = [ingest EXCEPT ![r].pc = "loadRules", ![r].device = d,
                                      ![r].loaded = devices[d]]
     \/ /\ \A d \in GetByKey(Command[r].key) : ~devices[d].isEnabled
        /\ End(r, "refused")
  /\ UNCHANGED <<dbVars, redis, notifierVars, reader>>

LoadRules(r) ==
  /\ ingest[r].pc = "loadRules"
  /\ ingest' = [ingest EXCEPT ![r].pc = "loadActive", ![r].rules = alertRules]
  /\ UNCHANGED <<dbVars, redis, notifierVars, reader>>

(* ToDictionaryAsync throws when a rule has two active alerts.             *)
LoadActiveAlerts(r) ==
  LET d == ingest[r].device
      found == GetActiveByRuleIds(d, GetApplicableRules(ingest[r].rules, d))
  IN /\ ingest[r].pc = "loadActive"
     /\ IF \E a, b \in found : a # b /\ a.rule = b.rule
        THEN End(r, "failed")
        ELSE ingest' = [ingest EXCEPT ![r].pc = "requireDevice",
                                      ![r].active = {a.id : a \in found}]
     /\ UNCHANGED <<dbVars, redis, notifierVars, reader>>

(* Mistaken variant: the cache is written before the commit.               *)
RequireDeviceThenCache(r) ==
  /\ ingest[r].pc = "requireDevice"
  /\ SetAsync(ingest[r].device, StateToCache(r))
  /\ Goto(r, "commit")
  /\ UNCHANGED <<dbVars, notifierVars, reader>>

(* The device must still exist; the tracked entity is not refreshed.       *)
RequireDevice(r) ==
  /\ ingest[r].pc = "requireDevice"
  /\ IF Stored(ingest[r].device) THEN Goto(r, "commit") ELSE End(r, "failed")
  /\ UNCHANGED <<dbVars, redis, notifierVars, reader>>

(* One transaction: points, device columns, raised and resolved alerts. It *)
(* fails as a whole when the device, or a rule an alert refers to, is gone.*)
SaveChanges(r) ==
  LET d == ingest[r].device
  IN /\ ingest[r].pc = "commit"
     /\ \/ /\ Stored(d)
           /\ \A q \in Raised(r) : alertRules[q].existence = "stored"
           /\ devices' = [devices EXCEPT ![d] = SaveDevice(@, ingest[r].loaded, Entity(r))]
           /\ AddPoints(d, Command[r])
           /\ SaveAlerts(r, d, Raised(r), Resolved(r))
           /\ Goto(r, "cacheWrite")
        \/ /\ ~ (Stored(d) /\ \A q \in Raised(r) : alertRules[q].existence = "stored")
           /\ End(r, "failed")
           /\ UNCHANGED <<devices, telemetry, nextId, alerts>>
     /\ UNCHANGED <<alertRules, redis, notifierVars, reader>>

CacheWrite(r) ==
  /\ ingest[r].pc = "cacheWrite"
  /\ \/ SetAsync(ingest[r].device, StateToCache(r)) /\ Goto(r, "cacheRead")
     \/ SetAsyncFails(ingest[r].device, StateToCache(r)) /\ Goto(r, "rebuild")
  /\ UNCHANGED <<dbVars, notifierVars, reader>>

CacheRead(r) ==
  LET d == ingest[r].device
  IN /\ ingest[r].pc = "cacheRead"
     /\ \/ Notify(r, IF Absent(d) THEN StateToCache(r) ELSE redis[d])
        \/ "redis" \in Faults /\ Goto(r, "rebuild")
     /\ UNCHANGED <<dbVars, redis, notifierVars, reader>>

RebuildState(r) ==
  /\ ingest[r].pc = "rebuild"
  /\ Notify(r, StateOf(Entity(r), LatestReadings(ingest[r].device)))
  /\ UNCHANGED <<dbVars, redis, notifierVars, reader>>

PublishState(r) ==
  /\ ingest[r].pc = "publishState"
  /\ DeviceStateUpdated(ingest[r].device, ingest[r].notification)
  /\ Goto(r, "publishStatus")
  /\ UNCHANGED <<dbVars, redis, reader>>

PublishStatus(r) ==
  /\ ingest[r].pc = "publishStatus"
  /\ IF ingest[r].loaded.status # Entity(r).status
     THEN DeviceStatusChanged(ingest[r].device, Entity(r).status)
     ELSE UNCHANGED notifierVars
  /\ Goto(r, "publishAlerts")
  /\ UNCHANGED <<dbVars, redis, reader>>

(* Mistaken variant: resolutions are not published.                        *)
PublishRaisedOnly(r) ==
  /\ ingest[r].pc = "publishAlerts"
  /\ AlertEvents({<<r, q>> : q \in Raised(r)}, {})
  /\ End(r, "accepted")
  /\ UNCHANGED <<dbVars, redis, reader>>

PublishAlerts(r) ==
  /\ ingest[r].pc = "publishAlerts"
  /\ AlertEvents({<<r, q>> : q \in Raised(r)}, Resolved(r))
  /\ End(r, "accepted")
  /\ UNCHANGED <<dbVars, redis, reader>>

(* The request ends at an await with nothing more done.                    *)
AbortIngest(r) ==
  /\ "abort" \in Faults
  /\ InFlight(r)
  /\ End(r, "failed")
  /\ UNCHANGED <<dbVars, redis, notifierVars, reader>>

Ingest(r) ==
  \/ LoadDevice(r) \/ LoadRules(r) \/ LoadActiveAlerts(r) \/ RequireDevice(r)
  \/ SaveChanges(r) \/ CacheWrite(r) \/ CacheRead(r) \/ RebuildState(r)
  \/ PublishState(r) \/ PublishStatus(r) \/ PublishAlerts(r)

-----------------------------------------------------------------------------
(* GetStateAsync. The caller may ask again, and may go away at any await;  *)
(* the answer itself changes no state.                                     *)

GetState(g, d) ==
  /\ reader[g].pc = "idle"
  /\ Stored(d)
  /\ reader' = [reader EXCEPT ![g].pc = "cacheRead", ![g].device = d, ![g].loaded = devices[d]]
  /\ UNCHANGED <<dbVars, redis, notifierVars, ingest>>

ReadCachedState(g) ==
  /\ reader[g].pc = "cacheRead"
  /\ \/ /\ ~Absent(reader[g].device)
        /\ reader' = [reader EXCEPT ![g] = IdleReader]
     \/ /\ Absent(reader[g].device)
        /\ reader' = [reader EXCEPT ![g].pc = "rebuild"]
     \/ /\ "redis" \in Faults
        /\ reader' = [reader EXCEPT ![g].pc = "rebuild", ![g].redisAvailable = FALSE]
  /\ UNCHANGED <<dbVars, redis, notifierVars, ingest>>

ReadHistory(g) ==
  LET rebuilt == StateOf(reader[g].loaded, LatestReadings(reader[g].device))
  IN /\ reader[g].pc = "rebuild"
     /\ reader' = [reader EXCEPT ![g] =
          IF reader[g].redisAvailable
          THEN [@ EXCEPT !.pc = "cacheWrite", !.state = rebuilt] ELSE IdleReader]
     /\ UNCHANGED <<dbVars, redis, notifierVars, ingest>>

WriteRebuiltState(g) ==
  /\ reader[g].pc = "cacheWrite"
  /\ \/ SetAsync(reader[g].device, reader[g].state)
     \/ SetAsyncFails(reader[g].device, reader[g].state)
  /\ reader' = [reader EXCEPT ![g] = IdleReader]
  /\ UNCHANGED <<dbVars, notifierVars, ingest>>

AbortReader(g) ==
  /\ reader[g].pc # "idle"
  /\ reader' = [reader EXCEPT ![g] = IdleReader]
  /\ UNCHANGED <<dbVars, redis, notifierVars, ingest>>

Read(g) ==
  \/ \E d \in Devices : GetState(g, d)
  \/ ReadCachedState(g) \/ ReadHistory(g) \/ WriteRebuiltState(g)
=============================================================================

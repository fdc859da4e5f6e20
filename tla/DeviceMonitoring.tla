-------------------------- MODULE DeviceMonitoring --------------------------
(***************************************************************************)
(* DeviceOfflineMonitor and MarkStaleDevicesOfflineAsync: the one          *)
(* background loop of the API process. A pass reads the stale devices,     *)
(* commits them as Offline in one transaction, then updates the cache and  *)
(* announces the change device by device. An exception ends the pass; the  *)
(* next tick starts a new one, which only finds devices still Online.      *)
(***************************************************************************)
EXTENDS Database, RealtimeNotifier

CONSTANTS
  OfflineAfter,   \* MonitoringOptions.OfflineAfterSeconds
  MaxClock        \* bound on the server clock

ASSUME MonitoringAssumption == OfflineAfter \in Nat \ {0} /\ MaxClock \in Nat

VARIABLES
  clock,      \* TimeProvider.GetUtcNow, advancing up to MaxClock
  monitor     \* progress and local state of the pass

monitorVars == <<clock, monitor>>

MonitorSteps == {"commit", "nextDevice", "readState", "readHistory", "writeState",
                 "publishStatus", "publishState"}

MonitorState ==
  {i \in [pc: {"waiting"} \cup MonitorSteps,
          pending: SUBSET Devices,          \* stale devices still to handle
          loaded: [Devices -> DeviceRow],   \* the rows as the query read them
          device: Devices \cup {NoDevice},  \* the one being handled
          state: DeviceState] :
     i.pc \in MonitorSteps \ {"commit", "nextDevice"} => i.device \in Devices}

MonitorTypeOK == clock \in Time /\ monitor \in MonitorState

Waiting == [pc |-> "waiting", pending |-> {}, loaded |-> [d \in Devices |-> NewDevice],
            device |-> NoDevice, state |-> NoState]

MonitorInit == clock = 0 /\ monitor = Waiting

Tick ==
  /\ clock < MaxClock
  /\ clock' = clock + 1
  /\ UNCHANGED <<dbVars, redis, notifierVars, monitor>>

-----------------------------------------------------------------------------
(* A pass that finds nothing returns at once and changes nothing.          *)
FindStaleDevices ==
  LET stale == GetStaleOnlineDevices(clock - OfflineAfter)
  IN /\ monitor.pc = "waiting"
     /\ stale # {}
     /\ monitor' = [monitor EXCEPT !.pc = "commit", !.pending = stale, !.loaded = devices]
     /\ UNCHANGED <<dbVars, redis, notifierVars, clock>>

(* One transaction for all of them; an UPDATE that meets no row fails it.  *)
CommitOffline ==
  /\ monitor.pc = "commit"
  /\ IF \A d \in monitor.pending : Stored(d)
     THEN /\ devices' = [d \in Devices |->
               IF d \in monitor.pending
               THEN SaveDevice(devices[d], monitor.loaded[d], MarkOffline(monitor.loaded[d]))
               ELSE devices[d]]
          /\ monitor' = [monitor EXCEPT !.pc = "nextDevice"]
     ELSE monitor' = Waiting /\ UNCHANGED devices
  /\ UNCHANGED <<telemetry, nextId, alertRules, alerts, redis, notifierVars, clock>>

NextDevice ==
  /\ monitor.pc = "nextDevice"
  /\ \/ /\ monitor.pending = {}
        /\ monitor' = Waiting
     \/ \E d \in monitor.pending :
          monitor' = [monitor EXCEPT !.pc = "readState", !.device = d,
                                     !.pending = @ \ {d}]
  /\ UNCHANGED <<dbVars, redis, notifierVars, clock>>

(* The cached state with the status and LastSeenAt of the committed row.   *)
OfflineState(metrics) ==
  StateOf(MarkOffline(monitor.loaded[monitor.device]), metrics)

(* Mistaken variant: a cache miss or a Redis failure ends the pass.        *)
ReadStateOrStop ==
  /\ monitor.pc = "readState"
  /\ monitor' = IF Absent(monitor.device) THEN Waiting ELSE
       [monitor EXCEPT !.pc = "writeState",
                       !.state = OfflineState(redis[monitor.device].metrics)]
  /\ UNCHANGED <<dbVars, redis, notifierVars, clock>>

ReadState ==
  LET d == monitor.device
  IN /\ monitor.pc = "readState"
     /\ \/ /\ ~Absent(d)
           /\ monitor' = [monitor EXCEPT !.pc = "writeState",
                                         !.state = OfflineState(redis[d].metrics)]
        \/ /\ Absent(d) \/ "redis" \in Faults
           /\ monitor' = [monitor EXCEPT !.pc = "readHistory"]
     /\ UNCHANGED <<dbVars, redis, notifierVars, clock>>

ReadHistoryForState ==
  /\ monitor.pc = "readHistory"
  /\ monitor' = [monitor EXCEPT !.pc = "writeState",
                                !.state = OfflineState(LatestReadings(monitor.device))]
  /\ UNCHANGED <<dbVars, redis, notifierVars, clock>>

WriteState ==
  /\ monitor.pc = "writeState"
  /\ \/ SetAsync(monitor.device, monitor.state)
     \/ SetAsyncFails(monitor.device, monitor.state)
  /\ monitor' = [monitor EXCEPT !.pc = "publishStatus"]
  /\ UNCHANGED <<dbVars, notifierVars, clock>>

PublishOffline ==
  /\ monitor.pc = "publishStatus"
  /\ DeviceStatusChanged(monitor.device, "Offline")
  /\ monitor' = [monitor EXCEPT !.pc = "publishState"]
  /\ UNCHANGED <<dbVars, redis, clock>>

PublishOfflineState ==
  /\ monitor.pc = "publishState"
  /\ DeviceStateUpdated(monitor.device, monitor.state)
  /\ monitor' = [monitor EXCEPT !.pc = "nextDevice", !.device = NoDevice, !.state = NoState]
  /\ UNCHANGED <<dbVars, redis, clock>>

AbortPass ==
  /\ "abort" \in Faults
  /\ monitor.pc # "waiting"
  /\ monitor' = Waiting
  /\ UNCHANGED <<dbVars, redis, notifierVars, clock>>

MonitorPass ==
  \/ FindStaleDevices \/ CommitOffline \/ NextDevice \/ ReadState \/ ReadHistoryForState
  \/ WriteState \/ PublishOffline \/ PublishOfflineState
=============================================================================

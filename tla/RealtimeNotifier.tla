-------------------------- MODULE RealtimeNotifier --------------------------
(***************************************************************************)
(* The SignalR events of the system, as seen by a dashboard that has been  *)
(* subscribed from the start and applies every event it receives: the last *)
(* DeviceStateUpdated and DeviceStatusChanged of each device, and the      *)
(* alerts raised and not yet resolved. Publishing is best effort.          *)
(***************************************************************************)
EXTENDS DeviceStateStore

VARIABLES
  shown,       \* shown[d]: the state in the last DeviceStateUpdated
  announced,   \* announced[d]: the new status in the last DeviceStatusChanged
  openAlerts   \* Ids of AlertRaised events without an AlertResolved

notifierVars == <<shown, announced, openAlerts>>

NotifierTypeOK ==
  /\ shown \in [Devices -> DeviceState]
  /\ announced \in [Devices -> DeviceStatus]
  /\ openAlerts \in SUBSET AlertId

NotifierInit ==
  /\ shown = [d \in Devices |-> NoState]
  /\ announced = [d \in Devices |-> "Unknown"]
  /\ openAlerts = {}

Lost == "notify" \in Faults /\ UNCHANGED notifierVars

DeviceStateUpdated(d, state) ==
  \/ shown' = [shown EXCEPT ![d] = state] /\ UNCHANGED <<announced, openAlerts>>
  \/ Lost

DeviceStatusChanged(d, status) ==
  \/ announced' = [announced EXCEPT ![d] = status] /\ UNCHANGED <<shown, openAlerts>>
  \/ Lost

(* The AlertRaised and AlertResolved events of one request. They concern   *)
(* different alerts, so their order within the request is immaterial.      *)
AlertEvents(raised, resolved) ==
  /\ \E delivered \in SUBSET (raised \cup resolved) :
       /\ "notify" \in Faults \/ delivered = raised \cup resolved
       /\ openAlerts' = (openAlerts \cup (raised \cap delivered)) \ (resolved \cap delivered)
  /\ UNCHANGED <<shown, announced>>
=============================================================================

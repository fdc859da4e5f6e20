---------------------------- MODULE CurrentState ----------------------------
(***************************************************************************)
(* What the Redis cache promises about the telemetry: a state of a device  *)
(* that holds only accepted readings, moves forward in time while it       *)
(* exists, and may lag behind or be forgotten at any moment.               *)
(***************************************************************************)
EXTENDS Domain

VARIABLES
  accepted,  \* the readings accepted, [device, metric, value, timestamp]; never forgotten
  current    \* the current state of each device, NoState when there is none

currentStateVars == <<accepted, current>>

Init ==
  /\ accepted = {}
  /\ current = [d \in Devices |-> NoState]

(* A batch is one device's, with one timestamp.                            *)
Accept ==
  /\ accepted \subseteq accepted'
  /\ \A p, q \in accepted' \ accepted : p.device = q.device /\ p.timestamp = q.timestamp
  /\ UNCHANGED current

Known(d, m, reading) ==
  [device |-> d, metric |-> m, value |-> reading.value, timestamp |-> reading.timestamp] \in accepted

Advances(d, state) ==
  /\ state.lastSeenAt >= current[d].lastSeenAt
  /\ \A m \in Metrics : state.metrics[m].timestamp >= current[d].metrics[m].timestamp

IsAccepted(d, state) ==
  /\ state.lastSeenAt = NoTime \/ \E p \in accepted : p.device = d /\ p.timestamp = state.lastSeenAt
  /\ \A m \in Metrics : state.metrics[m] = NoReading \/ Known(d, m, state.metrics[m])

Refresh(d) ==
  /\ current' = [current EXCEPT ![d] = current'[d]]
  /\ Advances(d, current'[d]) /\ IsAccepted(d, current'[d])
  /\ UNCHANGED accepted

Forget(d) ==
  /\ current' = [current EXCEPT ![d] = NoState]
  /\ UNCHANGED accepted

Next == Accept \/ \E d \in Devices : Refresh(d) \/ Forget(d)

Spec == Init /\ [][Next]_currentStateVars
=============================================================================

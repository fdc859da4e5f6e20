------------------------------ MODULE Simulator -----------------------------
(***************************************************************************)
(* The device simulator: one loop per simulated device that registers the  *)
(* device once, over two calls, and then sends a batch per tick, with an   *)
(* API whose answers may fail, be lost or come too late. What the API does *)
(* with a batch is the matter of MetricsHub; here it accepts the batches   *)
(* of the keys it knows.                                                   *)
(***************************************************************************)
EXTENDS Naturals

CONSTANTS
  Devices,   \* the simulated devices
  Keys,
  KeyOf,     \* the DeviceKey each is configured with; nothing keeps two from having the same
  MaxLate    \* how many given-up calls of a kind the API holds per device

ASSUME SimulatorAssumptions ==
  /\ KeyOf \in [Devices -> Keys]
  /\ MaxLate \in Nat \ {0}

Calls == {"list", "create", "telemetry"}
Answers == {"found", "missing", "created", "conflict", "accepted", "error"}

VARIABLES
  loop,      \* of each device: the call it awaits and its answer, or "waiting", or "stopped"
  late,      \* calls that a loop gave up and the API still has to serve
  rows,      \* the keys registered at the API
  deleted,   \* the keys an administrator deleted, each at most once
  cancelled  \* Ctrl+C was pressed

vars == <<loop, late, rows, deleted, cancelled>>

TypeOK ==
  /\ loop \in [Devices -> [pc : Calls \union {"waiting", "stopped"},
                           answer : Answers \union {"none"}, registered : BOOLEAN]]
  /\ \A d \in Devices : loop[d].answer # "none" => loop[d].pc \in Calls
  /\ late \in [Devices -> [Calls -> 0..MaxLate]]
  /\ rows \subseteq Keys
  /\ deleted \subseteq Keys
  /\ cancelled \in BOOLEAN

Init ==
  /\ loop = [d \in Devices |-> [pc |-> "waiting", answer |-> "none", registered |-> FALSE]]
  /\ late = [d \in Devices |-> [k \in Calls |-> 0]]
  /\ rows = {}
  /\ deleted = {}
  /\ cancelled = FALSE

Goto(d, pc) == loop' = [loop EXCEPT ![d].pc = pc, ![d].answer = "none"]

-----------------------------------------------------------------------------
(* The API.                                                                *)

(* The answer to a call: it is served whether or not it is still awaited.  *)
Answer(d, call) ==
  CASE call = "list" -> IF KeyOf[d] \in rows THEN "found" ELSE "missing"
    [] call = "create" -> IF KeyOf[d] \in rows THEN "conflict" ELSE "created"
    [] call = "telemetry" -> IF KeyOf[d] \in rows THEN "accepted" ELSE "error"

Effect(d, call) == rows' = IF call = "create" THEN rows \union {KeyOf[d]} ELSE rows

Awaits(d) == loop[d].pc \in Calls /\ loop[d].answer = "none"

Serve(d) ==
  /\ Awaits(d)
  /\ Effect(d, loop[d].pc)
  /\ loop' = [loop EXCEPT ![d].answer = Answer(d, loop[d].pc)]
  /\ UNCHANGED <<late, deleted, cancelled>>

ServeLate(d, call) ==
  /\ late[d][call] > 0
  /\ late' = [late EXCEPT ![d][call] = @ - 1]
  /\ Effect(d, call)
  /\ UNCHANGED <<loop, deleted, cancelled>>

Delete(key) ==
  /\ key \in rows \ deleted
  /\ rows' = rows \ {key}
  /\ deleted' = deleted \union {key}
  /\ UNCHANGED <<loop, late, cancelled>>

-----------------------------------------------------------------------------
(* One loop.                                                               *)

(* A tick starts a cycle; the first starts at once.                        *)
StartCycle(d) ==
  /\ loop[d].pc = "waiting" /\ ~cancelled
  /\ Goto(d, IF loop[d].registered THEN "telemetry" ELSE "list")

Registered(d) ==
  loop' = [loop EXCEPT ![d] = [pc |-> IF cancelled THEN "stopped" ELSE "telemetry",
                               answer |-> "none", registered |-> TRUE]]

(* Mistaken variant: every answer to the creation counts as success.       *)
EnsureDeviceRegisteredAnyhow(d) ==
  \/ /\ loop[d].pc = "list" /\ loop[d].answer = "missing"
     /\ Goto(d, IF cancelled THEN "stopped" ELSE "create")
  \/ /\ loop[d].pc \in {"list", "create"} /\ loop[d].answer \notin {"none", "missing"}
     /\ Registered(d)

EnsureDeviceRegistered(d) ==
  \/ /\ loop[d].pc = "list" /\ loop[d].answer = "missing"
     /\ Goto(d, IF cancelled THEN "stopped" ELSE "create")
  \/ /\ loop[d].pc = "list" /\ loop[d].answer = "found"
     /\ Registered(d)
  \/ /\ loop[d].pc = "create" /\ loop[d].answer \in {"created", "conflict"}
     /\ Registered(d)
  \/ /\ loop[d].pc \in {"list", "create"} /\ loop[d].answer = "error"
     /\ Goto(d, "waiting")

(* Mistaken variants: a failed call ends the loop; the answer is left to   *)
(* the next call.                                                          *)
SendTelemetryOrEnd(d) ==
  /\ loop[d].pc = "telemetry" /\ loop[d].answer # "none"
  /\ Goto(d, IF loop[d].answer = "error" THEN "stopped" ELSE "waiting")
SendTelemetryKeepingAnswer(d) ==
  /\ loop[d].pc = "telemetry" /\ loop[d].answer # "none"
  /\ loop' = [loop EXCEPT ![d].pc = "waiting"]

SendTelemetry(d) ==
  /\ loop[d].pc = "telemetry" /\ loop[d].answer # "none"
  /\ Goto(d, "waiting")

Continue(d) ==
  /\ StartCycle(d) \/ EnsureDeviceRegistered(d) \/ SendTelemetry(d)
  /\ UNCHANGED <<late, rows, deleted, cancelled>>

(* A call fails: the API refuses it, it never reaches the API, or the      *)
(* client gives up after its timeout or a broken connection, before or     *)
(* after the API served it. Whether the client reports that or throws, the *)
(* cycle ends with an error and the loop goes on.                          *)
CallFails(d) ==
  /\ loop[d].pc \in Calls /\ loop[d].answer # "error"
  /\ loop' = [loop EXCEPT ![d].answer = "error"]
  /\ \/ UNCHANGED late
     \/ /\ Awaits(d) /\ late[d][loop[d].pc] < MaxLate
        /\ late' = [late EXCEPT ![d][loop[d].pc] = @ + 1]
  /\ UNCHANGED <<rows, deleted, cancelled>>

CancelKeyPress ==
  /\ ~cancelled
  /\ cancelled' = TRUE
  /\ UNCHANGED <<loop, late, rows, deleted>>

(* Mistaken variant: only calls are cancelled, not the wait for a tick.    *)
StopCalls(d) ==
  /\ cancelled /\ loop[d].pc \in Calls
  /\ Goto(d, "stopped")
  /\ UNCHANGED <<late, rows, deleted, cancelled>>

(* Cancellation ends a loop at whatever it awaits; a call it was making    *)
(* may still be served.                                                    *)
Stop(d) ==
  /\ cancelled /\ loop[d].pc # "stopped"
  /\ Goto(d, "stopped")
  /\ \/ UNCHANGED late
     \/ /\ Awaits(d) /\ late[d][loop[d].pc] < MaxLate
        /\ late' = [late EXCEPT ![d][loop[d].pc] = @ + 1]
  /\ UNCHANGED <<rows, deleted, cancelled>>

Next ==
  \/ \E d \in Devices :
       \/ Continue(d) \/ CallFails(d) \/ Stop(d) \/ Serve(d)
       \/ \E call \in Calls : ServeLate(d, call)
  \/ \E key \in Keys : Delete(key)
  \/ CancelKeyPress

Spec == Init /\ [][Next]_vars

-----------------------------------------------------------------------------
(* A loop that takes its device for registered, whether it found it,       *)
(* created it, lost the race for it or saw its own earlier call succeed    *)
(* late, is right unless an administrator deleted the device: no batch is  *)
(* sent for a key that the API does not know yet.                          *)
RegisteredIsStored ==
  \A d \in Devices :
    loop[d].registered \/ loop[d].pc = "telemetry" \/ late[d]["telemetry"] > 0
      => KeyOf[d] \in rows \union deleted

(* The loops run until they are cancelled, the API serves what reaches it. *)
Fairness ==
  \A d \in Devices :
    /\ WF_vars(Continue(d))
    /\ WF_vars(Serve(d))
    /\ WF_vars(Stop(d))

FairSpec == Spec /\ Fairness

(* Failures are temporary: a device whose calls fail only finitely often,  *)
(* and that is not deleted, is registered and reports successfully again   *)
(* and again, whatever it believed when they failed and whatever happens   *)
(* to the other devices.                                                   *)
RecoversFromFailures ==
  \A d \in Devices :
    /\ <>[][~CallFails(d)]_vars
    /\ []~cancelled
    /\ [](KeyOf[d] \notin deleted)
    => []<>(loop[d].pc = "telemetry" /\ loop[d].answer = "accepted")

(* Ctrl+C ends every loop, whatever each awaits and however its calls end. *)
StopsWhenCancelled ==
  cancelled ~> \A d \in Devices : loop[d].pc = "stopped"
=============================================================================

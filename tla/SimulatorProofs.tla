--------------------------- MODULE SimulatorProofs --------------------------
(***************************************************************************)
(* The device simulator for any number of devices and keys, any devices    *)
(* that share one, and any number of calls that arrive late.               *)
(***************************************************************************)
EXTENDS Simulator, TLAPS

Known == rows \union deleted

(* A key stays known. An answer that says so is right whenever it arrives, *)
(* which is why a lost race or a second creation does no harm.             *)
AnswersAreTrue ==
  \A d \in Devices :
    loop[d].pc \in {"list", "create"} /\ loop[d].answer \in {"found", "created", "conflict"}
      => KeyOf[d] \in Known

RegistrationInv == AnswersAreTrue /\ RegisteredIsStored

LEMMA TypeNext == TypeOK /\ [Next]_vars => TypeOK'
<1> SUFFICES ASSUME TypeOK, [Next]_vars PROVE TypeOK'
  OBVIOUS
<1> USE SimulatorAssumptions DEF TypeOK, Calls, Answers
<1>1. ASSUME NEW d \in Devices, NEW pc \in Calls \union {"waiting", "stopped"}, Goto(d, pc)
      PROVE  /\ loop' \in [Devices -> [pc : Calls \union {"waiting", "stopped"},
                                      answer : Answers \union {"none"}, registered : BOOLEAN]]
             /\ \A x \in Devices : loop'[x].answer # "none" => loop'[x].pc \in Calls
  BY <1>1 DEF Goto
<1>2. ASSUME NEW d \in Devices, Continue(d) PROVE TypeOK'
  <2>1. CASE Registered(d)
    BY <1>2, <2>1 DEF Registered, Continue
  <2>2. CASE StartCycle(d) \/ SendTelemetry(d)
    BY <1>1, <1>2, <2>2 DEF StartCycle, SendTelemetry, Continue
  <2>3. CASE EnsureDeviceRegistered(d) /\ ~Registered(d)
    BY <1>1, <1>2, <2>3 DEF EnsureDeviceRegistered, Continue
  <2> QED
    BY <1>2, <2>1, <2>2, <2>3 DEF Continue
<1>3. ASSUME NEW d \in Devices, CallFails(d) \/ Stop(d) PROVE TypeOK'
  <2>1. late' \in [Devices -> [Calls -> 0..MaxLate]]
    <3> DEFINE k == loop[d].pc
    <3>1. CASE k \in Calls /\ late[d][k] < MaxLate /\ late' = [late EXCEPT ![d][k] = @ + 1]
      <4>1. late[d] \in [Calls -> 0..MaxLate] /\ late[d][k] + 1 \in 0..MaxLate
        BY <3>1
      <4>2. [late[d] EXCEPT ![k] = @ + 1] \in [Calls -> 0..MaxLate]
        BY <3>1, <4>1
      <4> QED
        BY <3>1, <4>2
    <3>2. CASE UNCHANGED late
      BY <3>2
    <3> QED
      BY <1>3, <3>1, <3>2 DEF CallFails, Stop, Awaits
  <2>2. CASE Stop(d)
    BY <1>1, <2>1, <2>2 DEF Stop
  <2>3. CASE CallFails(d)
    BY <2>1, <2>3 DEF CallFails
  <2> QED
    BY <1>3, <2>2, <2>3
<1>4. ASSUME NEW d \in Devices, Serve(d) PROVE TypeOK'
  BY <1>4 DEF Serve, Effect, Awaits, Answer
<1>5. ASSUME NEW d \in Devices, NEW call \in Calls, ServeLate(d, call) PROVE TypeOK'
  BY <1>5 DEF ServeLate, Effect
<1>6. CASE (\E key \in Keys : Delete(key)) \/ CancelKeyPress \/ UNCHANGED vars
  BY <1>6 DEF Delete, CancelKeyPress, vars
<1> QED
  BY <1>2, <1>3, <1>4, <1>5, <1>6 DEF Next

(* Every variable keeps its type, so no loop has an answer without a call. *)
THEOREM SimulatorTypes == Spec => []TypeOK
<1>1. 0 \in 0..MaxLate
  BY SimulatorAssumptions
<1>2. ASSUME Init PROVE TypeOK
  <2>1. late \in [Devices -> [Calls -> 0..MaxLate]]
    <3>1. [k \in Calls |-> 0] \in [Calls -> 0..MaxLate]
      BY <1>1
    <3> QED
      BY <1>2, <3>1 DEF Init
  <2>2. \A d \in Devices : loop[d] = [pc |-> "waiting", answer |-> "none", registered |-> FALSE]
    BY <1>2 DEF Init
  <2> QED
    BY <1>2, <2>1, <2>2 DEF Init, TypeOK, Calls, Answers
<1> QED
  BY <1>2, TypeNext, PTL DEF Spec

-----------------------------------------------------------------------------
(* Registration.                                                           *)

LEMMA KnownGrows ==
  ASSUME [Next]_vars
  PROVE  rows \union deleted \subseteq rows' \union deleted'
BY DEF Next, Continue, CallFails, Stop, Serve, ServeLate, Effect, Delete, CancelKeyPress, vars

LEMMA RegistrationNext ==
  ASSUME TypeOK, RegistrationInv, [Next]_vars
  PROVE  RegistrationInv'
<1> USE DEF RegistrationInv, AnswersAreTrue, RegisteredIsStored, Known
<1>1. \A d \in Devices : KeyOf[d] \in Known => KeyOf[d] \in Known'
  BY KnownGrows
<1>2. ASSUME NEW d \in Devices, NEW pc \in {"waiting", "stopped", "list", "create"}, Goto(d, pc),
             \A x \in Devices : late'[x]["telemetry"] > 0 =>
               late[x]["telemetry"] > 0 \/ loop[x].pc = "telemetry"
      PROVE  RegistrationInv'
  <2>1. /\ loop'[d].pc = pc /\ loop'[d].answer = "none" /\ loop'[d].registered = loop[d].registered
        /\ \A x \in Devices \ {d} : loop'[x] = loop[x]
    BY <1>2 DEF Goto, TypeOK
  <2>2. AnswersAreTrue'
    BY <1>1, <2>1
  <2>3. \A x \in Devices : loop'[x].registered => loop[x].registered
    BY <2>1
  <2>4. \A x \in Devices : loop'[x].pc = "telemetry" => loop[x].pc = "telemetry"
    BY <2>1
  <2> QED
    BY <1>1, <1>2, <2>2, <2>3, <2>4
<1>3. ASSUME NEW d \in Devices, Continue(d) PROVE RegistrationInv'
  <2>1. CASE StartCycle(d)
    BY <1>1, <1>2, <1>3, <2>1 DEF StartCycle, Continue, Goto, TypeOK
  <2>2. CASE KeyOf[d] \in Known /\ Registered(d)
    BY <1>1, <1>3, <2>2 DEF Registered, Continue, TypeOK
  <2>3. CASE Goto(d, "waiting") \/ Goto(d, "stopped") \/ Goto(d, "create")
    BY <1>2, <1>3, <2>3 DEF Continue
  <2> QED
    BY <1>3, <2>1, <2>2, <2>3 DEF Continue, SendTelemetry, EnsureDeviceRegistered
<1>4. ASSUME NEW d \in Devices, CallFails(d) \/ Stop(d) PROVE RegistrationInv'
  <2>1. \A x \in Devices : late'[x]["telemetry"] > 0 => late[x]["telemetry"] > 0 \/ loop[x].pc = "telemetry"
    <3>1. CASE late' = [late EXCEPT ![d][loop[d].pc] = @ + 1]
      <4>1. \A x \in Devices : loop[x].pc # "telemetry" => late'[x]["telemetry"] = late[x]["telemetry"]
        BY <3>1 DEF TypeOK, Calls
      <4> QED
        BY <4>1
    <3> QED
      BY <1>4, <3>1 DEF CallFails, Stop
  <2>2. CASE Stop(d)
    BY <1>2, <2>1, <2>2 DEF Stop
  <2>3. CASE CallFails(d)
    BY <1>1, <2>1, <2>3 DEF CallFails, TypeOK
  <2> QED
    BY <1>4, <2>2, <2>3
<1>5. ASSUME NEW d \in Devices, Serve(d) PROVE RegistrationInv'
  <2>1. loop[d].pc \in {"list", "create"} /\ Answer(d, loop[d].pc) \in {"found", "created", "conflict"}
          => KeyOf[d] \in Known'
    BY <1>5 DEF Serve, Effect, Answer
  <2> QED
    BY <1>1, <1>5, <2>1 DEF Serve, TypeOK
<1>6. ASSUME NEW d \in Devices, NEW call \in Calls, ServeLate(d, call) PROVE RegistrationInv'
  <2>1. \A x \in Devices : late'[x]["telemetry"] > 0 => late[x]["telemetry"] > 0
    BY <1>6 DEF ServeLate, TypeOK, Calls
  <2> QED
    BY <1>1, <1>6, <2>1 DEF ServeLate
<1>7. CASE (\E key \in Keys : Delete(key)) \/ CancelKeyPress \/ UNCHANGED vars
  BY <1>1, <1>7 DEF Delete, CancelKeyPress, vars
<1> QED
  BY <1>3, <1>4, <1>5, <1>6, <1>7 DEF Next

(* No race for a key, lost answer or late creation makes a loop believe in *)
(* a registration that did not happen, or send a batch without one.        *)
THEOREM RegistrationIsReal == Spec => []RegisteredIsStored
<1>1. Init => RegistrationInv
  BY DEF Init, RegistrationInv, AnswersAreTrue, RegisteredIsStored, Calls
<1>2. TypeOK /\ RegistrationInv /\ [Next]_vars => RegistrationInv'
  BY RegistrationNext
<1>3. RegistrationInv => RegisteredIsStored
  BY DEF RegistrationInv
<1> QED
  BY <1>1, <1>2, <1>3, SimulatorTypes, PTL DEF Spec
=============================================================================

---------------------------- MODULE MCMetricsHub ----------------------------
(***************************************************************************)
(* Values for the constants of MetricsHub on small instances: at most two  *)
(* device Ids, two metrics and one rule. The request bodies make batches   *)
(* that overlap in metrics, arrive out of timestamp order, tie on a        *)
(* timestamp and cross the threshold in both directions.                   *)
(***************************************************************************)
EXTENDS MetricsHub

CONSTANTS d1, d2, k1, k2, cpu, ram, q1, r1, r2, r3, r4, r5, r6

(* One key for all Ids: a device deleted and registered again. Two keys:   *)
(* two devices side by side.                                               *)
OneKey == [d \in Devices |-> k1]
TwoKeys == [d \in Devices |-> IF d = d1 THEN k1 ELSE k2]

Sample(metric, value) == [metric |-> metric, value |-> value]
Body(key, timestamp, metrics) == [key |-> key, timestamp |-> timestamp, metrics |-> metrics]

(* r1 violates the rule; r2 is older, names cpu twice and violates it by   *)
(* the second entry; r3 ties with r1 and clears the rule; r4 is newer and  *)
(* clears it too; r5 is newest and violates it again; r6 is of another     *)
(* device.                                                                 *)
Bodies == [r \in Requests |->
  CASE r = r1 -> Body(k1, 2, <<Sample(cpu, 9), Sample(ram, 1)>>)
    [] r = r2 -> Body(k1, 1, <<Sample(cpu, 1), Sample(cpu, 9)>>)
    [] r = r3 -> Body(k1, 2, <<Sample(cpu, 1)>>)
    [] r = r4 -> Body(k1, 3, <<Sample(cpu, 2), Sample(ram, 2)>>)
    [] r = r5 -> Body(k1, 4, <<Sample(cpu, 9)>>)
    [] r = r6 -> Body(k2, 1, <<Sample(cpu, 9)>>)]

CpuRule(device) ==
  [existence |-> "stored", isEnabled |-> TRUE, device |-> device, metric |-> cpu,
   operator |-> ">", threshold |-> 5]

GlobalRule == [q \in Rules |-> CpuRule(NoDevice)]
NoRuleYet == [q \in Rules |-> [CpuRule(NoDevice) EXCEPT !.existence = "unused"]]

NoForms == {}
DeviceForms == {CpuRule(d1), [CpuRule(NoDevice) EXCEPT !.isEnabled = FALSE]}
=============================================================================

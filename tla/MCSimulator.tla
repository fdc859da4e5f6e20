----------------------------- MODULE MCSimulator ----------------------------
(***************************************************************************)
(* Two simulated devices that race to register one key, as they do when    *)
(* the simulator is started twice.                                         *)
(***************************************************************************)
EXTENDS Simulator

CONSTANTS s1, s2, k1

SameKey == [d \in Devices |-> k1]
=============================================================================

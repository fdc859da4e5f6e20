--------------------------- MODULE MCMonitoringHub --------------------------
(***************************************************************************)
(* Two connections, two devices and two events about the first device: one *)
(* connection can follow each stream while both events are under way.      *)
(***************************************************************************)
EXTENDS MonitoringHub

CONSTANTS c1, c2, d1, d2, e1, e2

AboutFirst == [e \in Events |-> d1]
=============================================================================

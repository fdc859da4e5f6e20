--------------------------- MODULE AlertLifecycle ---------------------------
(***************************************************************************)
(* What alert processing promises, whatever the database, the requests and *)
(* the callers do in between: for each device and rule                     *)
(*     normal -> unresolved alert -> resolved alert,                       *)
(* one unresolved alert at a time, and no alert ever changes again once it *)
(* is resolved. An unresolved alert whose rule is deleted is kept.         *)
(***************************************************************************)
CONSTANTS Devices, Rules, AlertId,
          Requests     \* the batches, which resolve alerts and whose clock gives ResolvedAt

VARIABLES
  unresolved,  \* unresolved[d, q]: the alert of rule q on device d; none when normal
  resolved,    \* the resolved alerts, each with the batch that resolved it
  orphaned     \* the unresolved alerts whose rule was deleted

vars == <<unresolved, resolved, orphaned>>

Pairs == Devices \X Rules

Init ==
  /\ unresolved = [p \in Pairs |-> {}]
  /\ resolved = {}
  /\ orphaned = {}

History ==
  {a[1] : a \in resolved} \union orphaned \union UNION {unresolved[p] : p \in Pairs}

Stays(p) == unresolved'[p] = unresolved[p]
Raises(p, id) == unresolved[p] = {} /\ id \notin History /\ unresolved'[p] = {id}
Resolves(p) == unresolved'[p] = {}

(* Batch r of device d is evaluated against every rule that applies. A rule*)
(* may be deleted between the evaluation and its commit: then what the     *)
(* batch resolves is an orphan already.                                    *)
Evaluate(d, r) ==
  /\ \A p \in Pairs :
       \/ Stays(p)
       \/ p[1] = d /\ (Resolves(p) \/ \E id \in AlertId : Raises(p, id))
  /\ orphaned' \subseteq orphaned
  /\ resolved' = resolved \union
       ((orphaned \ orphaned') \union UNION {unresolved[p] \ unresolved'[p] : p \in Pairs}) \X {r}

DeleteRule(q) ==
  /\ unresolved' = [p \in Pairs |-> IF p[2] = q THEN {} ELSE unresolved[p]]
  /\ orphaned' = orphaned \union UNION {unresolved[<<d, q>>] : d \in Devices}
  /\ UNCHANGED resolved

Next ==
  \/ \E d \in Devices, r \in Requests : Evaluate(d, r)
  \/ \E q \in Rules : DeleteRule(q)

Spec == Init /\ [][Next]_vars
=============================================================================

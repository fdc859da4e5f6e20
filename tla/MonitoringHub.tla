---------------------------- MODULE MonitoringHub ---------------------------
(***************************************************************************)
(* SignalR connections and the streams they follow: MonitoringHub moves a  *)
(* connection between the global group and device groups in two awaits,    *)
(* while SignalRRealtimeNotifier publishes each event to the global group  *)
(* and to the group of its device: one Task.WhenAll, whose two sends are   *)
(* started in that order. SignalR runs the invocations of one connection   *)
(* one at a time; everything else interleaves, between the two sends too.  *)
(***************************************************************************)
EXTENDS Naturals, FiniteSets

CONSTANTS
  Connections,
  Devices,
  GlobalGroup,     \* the group monitoring:all; the other groups are named by their device
  Events,          \* the payloads published
  DeviceOf,        \* the device each is about
  OneSubscription  \* clients leave a device before they subscribe to another

Groups == Devices \union {GlobalGroup}

ASSUME HubAssumptions ==
  /\ GlobalGroup \notin Devices
  /\ "ready" \notin Groups /\ "offline" \notin Groups
  /\ DeviceOf \in [Events -> Devices]
  /\ OneSubscription \in BOOLEAN

VARIABLES
  members,    \* of each group
  invocation, \* of each connection: "ready", or the group it has yet to join
  publishing, \* how far the publication of each event is
  received,   \* how often each connection was sent each event
  settled     \* per event, the connections that did nothing since its publication began

vars == <<members, invocation, publishing, received, settled>>

Stages == {"unpublished", "toGlobalGroup", "toDeviceGroup", "published"}

TypeOK ==
  /\ members \in [Groups -> SUBSET Connections]
  /\ invocation \in [Connections -> {"offline", "ready"} \union Groups]
  /\ publishing \in [Events -> Stages]
  /\ received \in [Connections -> [Events -> 0..2]]
  /\ settled \in [Events -> SUBSET Connections]

Init ==
  /\ members = [g \in Groups |-> {}]
  /\ invocation = [c \in Connections |-> "offline"]
  /\ publishing = [e \in Events |-> "unpublished"]
  /\ received = [c \in Connections |-> [e \in Events |-> 0]]
  /\ settled = [e \in Events |-> {}]

-----------------------------------------------------------------------------
(* The hub.                                                                *)

Streams(c) == {g \in Groups : c \in members[g]}

AddToGroup(c, g) == members' = [members EXCEPT ![g] = @ \union {c}]
RemoveFromGroup(c, g) == members' = [members EXCEPT ![g] = @ \ {c}]
Stir(c) == settled' = [e \in Events |-> settled[e] \ {c}]

(* A new connection, of a new client or of one that comes back: it has a   *)
(* new ConnectionId and no groups but the global one.                      *)
OnConnected(c) ==
  /\ invocation[c] = "offline"
  /\ AddToGroup(c, GlobalGroup)
  /\ invocation' = [invocation EXCEPT ![c] = "ready"]
  /\ received' = [received EXCEPT ![c] = [e \in Events |-> 0]]
  /\ UNCHANGED <<publishing, settled>>

(* SignalR takes a closed connection out of its groups, and ignores the    *)
(* AddToGroupAsync of an invocation that was still running.                *)
Disconnect(c) ==
  /\ invocation[c] # "offline"
  /\ members' = [g \in Groups |-> members[g] \ {c}]
  /\ invocation' = [invocation EXCEPT ![c] = "offline"]
  /\ Stir(c)
  /\ UNCHANGED <<publishing, received>>

(* Mistaken variant: the connection stays in the global group.             *)
SubscribeKeepingGlobal(c, d) ==
  /\ invocation[c] = "ready"
  /\ OneSubscription => Streams(c) \subseteq {GlobalGroup, d}
  /\ invocation' = [invocation EXCEPT ![c] = d]
  /\ Stir(c)
  /\ UNCHANGED <<members, publishing, received>>

SubscribeToDevice(c, d) ==
  /\ invocation[c] = "ready"
  /\ OneSubscription => Streams(c) \subseteq {GlobalGroup, d}
  /\ RemoveFromGroup(c, GlobalGroup)
  /\ invocation' = [invocation EXCEPT ![c] = d]
  /\ Stir(c)
  /\ UNCHANGED <<publishing, received>>

UnsubscribeFromDevice(c, d) ==
  /\ invocation[c] = "ready"
  /\ OneSubscription => Streams(c) \subseteq {GlobalGroup, d}
  /\ RemoveFromGroup(c, d)
  /\ invocation' = [invocation EXCEPT ![c] = GlobalGroup]
  /\ Stir(c)
  /\ UNCHANGED <<publishing, received>>

(* The second await of either.                                             *)
JoinGroup(c) ==
  /\ invocation[c] \in Groups
  /\ AddToGroup(c, invocation[c])
  /\ invocation' = [invocation EXCEPT ![c] = "ready"]
  /\ UNCHANGED <<publishing, received, settled>>

-----------------------------------------------------------------------------
(* The notifier.                                                           *)

Publish(e) ==
  /\ publishing[e] = "unpublished"
  /\ publishing' = [publishing EXCEPT ![e] = "toGlobalGroup"]
  /\ settled' = [settled EXCEPT ![e] = {c \in Connections : invocation[c] = "ready"}]
  /\ UNCHANGED <<members, invocation, received>>

SendToGroup(e, g, from, to) ==
  /\ publishing[e] = from
  /\ publishing' = [publishing EXCEPT ![e] = to]
  /\ received' = [c \in Connections |->
                    [received[c] EXCEPT ![e] = IF c \in members[g] THEN @ + 1 ELSE @]]
  /\ UNCHANGED <<members, invocation, settled>>

(* Mistaken variants: a failed send is tried again; one group gets both.   *)
SendAgain(e) ==
  \/ SendToGroup(e, GlobalGroup, "toGlobalGroup", "toDeviceGroup")
  \/ SendToGroup(e, DeviceOf[e], "toDeviceGroup", "toDeviceGroup")
SendGloballyTwice(e) ==
  \/ SendToGroup(e, GlobalGroup, "toGlobalGroup", "toDeviceGroup")
  \/ SendToGroup(e, GlobalGroup, "toDeviceGroup", "published")

Send(e) ==
  \/ SendToGroup(e, GlobalGroup, "toGlobalGroup", "toDeviceGroup")
  \/ SendToGroup(e, DeviceOf[e], "toDeviceGroup", "published")

Next ==
  \/ \E c \in Connections :
       \/ OnConnected(c) \/ Disconnect(c) \/ JoinGroup(c)
       \/ \E d \in Devices : SubscribeToDevice(c, d) \/ UnsubscribeFromDevice(c, d)
  \/ \E e \in Events : Publish(e) \/ Send(e)

Spec == Init /\ [][Next]_vars

-----------------------------------------------------------------------------
(* Between invocations a connection follows one stream: the global one, or *)
(* that of the device it switched to.                                      *)
OneStream ==
  \A c \in Connections : invocation[c] = "ready" => Cardinality(Streams(c)) = 1

(* No event is missed, repeated or misdirected by the two sends: when its  *)
(* publication ends, a connection that did not switch, connect or close    *)
(* meanwhile has it exactly once if it follows the global stream or the    *)
(* event's device, and not at all if it follows another device.            *)
SettledReceiveOnce ==
  [][\A e \in Events : \A c \in settled[e] :
       publishing[e] = "toDeviceGroup" /\ publishing'[e] = "published" =>
         received'[c][e] = IF Streams(c) \intersect {GlobalGroup, DeviceOf[e]} # {} THEN 1 ELSE 0]_vars
=============================================================================

---------------------------- MODULE StreamProofs ----------------------------
(***************************************************************************)
(* The streams of any number of connections, devices and events.           *)
(***************************************************************************)
EXTENDS MonitoringHub, FiniteSetTheorems, TLAPS

(* A connection gets no event more often than it was sent; in particular   *)
(* none before its publication.                                            *)
Sends(e) == IF publishing[e] = "published" THEN 2
            ELSE IF publishing[e] = "toDeviceGroup" THEN 1 ELSE 0

ReceivedAtMostSent ==
  \A c \in Connections, e \in Events : received[c][e] <= Sends(e)

(* What a change of one group does to the streams.                         *)
LEMMA AddEffect ==
  ASSUME TypeOK, NEW c \in Connections, NEW g \in Groups, AddToGroup(c, g)
  PROVE  /\ members' \in [Groups -> SUBSET Connections]
         /\ Streams(c)' = Streams(c) \union {g}
         /\ \A x \in Connections \ {c} : Streams(x)' = Streams(x)
<1> USE DEF TypeOK, AddToGroup
<1>1. members' \in [Groups -> SUBSET Connections]
  OBVIOUS
<1>2. \A x \in Connections, h \in Groups : x \in members'[h] <=> x \in members[h] \/ (x = c /\ h = g)
  OBVIOUS
<1> QED
  BY <1>1, <1>2 DEF Streams

LEMMA RemoveEffect ==
  ASSUME TypeOK, NEW c \in Connections, NEW g \in Groups, RemoveFromGroup(c, g)
  PROVE  /\ members' \in [Groups -> SUBSET Connections]
         /\ Streams(c)' = Streams(c) \ {g}
         /\ \A x \in Connections \ {c} : Streams(x)' = Streams(x)
<1> USE DEF TypeOK, RemoveFromGroup
<1>1. members' \in [Groups -> SUBSET Connections]
  OBVIOUS
<1>2. \A x \in Connections, h \in Groups : x \in members'[h] <=> x \in members[h] /\ ~(x = c /\ h = g)
  OBVIOUS
<1> QED
  BY <1>1, <1>2 DEF Streams

LEMMA TypeNext == TypeOK /\ ReceivedAtMostSent /\ [Next]_vars => TypeOK' /\ ReceivedAtMostSent'
<1> SUFFICES ASSUME TypeOK, ReceivedAtMostSent, [Next]_vars
             PROVE  TypeOK' /\ ReceivedAtMostSent'
  OBVIOUS
<1>1. ASSUME NEW c \in Connections, OnConnected(c) PROVE TypeOK' /\ ReceivedAtMostSent'
  <2>1. members' \in [Groups -> SUBSET Connections]
    BY <1>1, AddEffect, GlobalGroup \in Groups DEF OnConnected, Groups
  <2>2. received' \in [Connections -> [Events -> 0..2]]
    BY <1>1 DEF OnConnected, TypeOK
  <2>3. ReceivedAtMostSent'
    BY <1>1 DEF OnConnected, TypeOK, ReceivedAtMostSent, Sends, Stages
  <2> QED
    BY <1>1, <2>1, <2>2, <2>3 DEF OnConnected, TypeOK
<1>2. ASSUME NEW c \in Connections, Disconnect(c) PROVE TypeOK' /\ ReceivedAtMostSent'
  BY <1>2 DEF Disconnect, Stir, TypeOK, ReceivedAtMostSent, Sends
<1>3. ASSUME NEW c \in Connections, NEW d \in Devices, SubscribeToDevice(c, d) \/ UnsubscribeFromDevice(c, d)
      PROVE  TypeOK' /\ ReceivedAtMostSent'
  <2>1. members' \in [Groups -> SUBSET Connections]
    BY <1>3, RemoveEffect DEF SubscribeToDevice, UnsubscribeFromDevice, Groups
  <2>2. invocation' \in [Connections -> {"offline", "ready"} \union Groups]
    BY <1>3 DEF SubscribeToDevice, UnsubscribeFromDevice, TypeOK, Groups
  <2>3. settled' \in [Events -> SUBSET Connections]
    BY <1>3 DEF SubscribeToDevice, UnsubscribeFromDevice, Stir, TypeOK
  <2>4. UNCHANGED <<publishing, received>>
    BY <1>3 DEF SubscribeToDevice, UnsubscribeFromDevice
  <2> QED
    BY <2>1, <2>2, <2>3, <2>4 DEF TypeOK, ReceivedAtMostSent, Sends
<1>4. ASSUME NEW c \in Connections, JoinGroup(c) PROVE TypeOK' /\ ReceivedAtMostSent'
  <2>1. members' \in [Groups -> SUBSET Connections]
    BY <1>4, AddEffect DEF JoinGroup
  <2> QED
    BY <1>4, <2>1 DEF JoinGroup, TypeOK, ReceivedAtMostSent, Sends
<1>5. ASSUME NEW e \in Events, Publish(e) PROVE TypeOK' /\ ReceivedAtMostSent'
  <2>1. \A x \in Events : Sends(x)' = Sends(x)
    BY <1>5 DEF Publish, TypeOK, Sends, Stages
  <2> QED
    BY <1>5, <2>1 DEF Publish, TypeOK, Stages, ReceivedAtMostSent
<1>6. ASSUME NEW e \in Events, Send(e) PROVE TypeOK' /\ ReceivedAtMostSent'
  <2>1. PICK g \in Groups, from \in Stages, to \in Stages :
          /\ SendToGroup(e, g, from, to)
          /\ \/ from = "toGlobalGroup" /\ to = "toDeviceGroup"
             \/ from = "toDeviceGroup" /\ to = "published"
    <3>1. GlobalGroup \in Groups /\ DeviceOf[e] \in Groups
      BY HubAssumptions DEF Groups
    <3>2. {"toGlobalGroup", "toDeviceGroup", "published"} \subseteq Stages
      BY DEF Stages
    <3> QED
      BY <1>6, <3>1, <3>2 DEF Send
  <2>2. \A c \in Connections :
          received'[c] = [received[c] EXCEPT ![e] = IF c \in members[g] THEN @ + 1 ELSE @]
    BY <2>1 DEF SendToGroup
  <2>3. \A c \in Connections, x \in Events : received[c] \in [Events -> 0..2] /\ received[c][x] \in 0..2
    BY DEF TypeOK
  <2>4. \A c \in Connections, x \in Events : received'[c][x] \in
          IF x = e THEN {received[c][x], received[c][x] + 1} ELSE {received[c][x]}
    <3> SUFFICES ASSUME NEW c \in Connections, NEW x \in Events
                 PROVE  received'[c][x] \in IF x = e THEN {received[c][x], received[c][x] + 1}
                                                     ELSE {received[c][x]}
      OBVIOUS
    <3> QED
      BY <2>2, <2>3
  <2>5. Sends(e) < 2 /\ Sends(e)' = Sends(e) + 1 /\ \A x \in Events : x # e => Sends(x)' = Sends(x)
    BY <2>1 DEF SendToGroup, TypeOK, Sends
  <2>6. \A x \in Events : Sends(x) \in 0..2
    BY DEF TypeOK, Stages, Sends
  <2>7. \A c \in Connections, x \in Events : received'[c][x] \in 0..2 /\ received'[c][x] <= Sends(x)'
    <3> SUFFICES ASSUME NEW c \in Connections, NEW x \in Events
                 PROVE  received'[c][x] \in 0..2 /\ received'[c][x] <= Sends(x)'
      OBVIOUS
    <3> DEFINE now == received[c][x]
               then == received'[c][x]
               sends == Sends(x)
               sendsThen == Sends(x)'
    <3>1. now \in 0..2 /\ now <= sends /\ sends \in 0..2
      BY <2>3, <2>6 DEF ReceivedAtMostSent
    <3>2. \/ x = e /\ then \in {now, now + 1} /\ sends < 2 /\ sendsThen = sends + 1
          \/ x # e /\ then = now /\ sendsThen = sends
      BY <2>4, <2>5
    <3> HIDE DEF now, then, sends, sendsThen
    <3>3. then \in 0..2 /\ then <= sendsThen
      BY <3>1, <3>2
    <3> QED
      BY <3>3 DEF then, sendsThen
  <2>8. received' \in [Connections -> [Events -> 0..2]]
    <3>1. \A c \in Connections : received'[c] \in [Events -> 0..2]
      BY <2>2, <2>3, <2>7
    <3> QED
      BY <2>1, <3>1 DEF SendToGroup
  <2> QED
    BY <2>1, <2>7, <2>8 DEF SendToGroup, TypeOK, ReceivedAtMostSent
<1>7. CASE UNCHANGED vars
  BY <1>7 DEF vars, TypeOK, ReceivedAtMostSent, Sends
<1> QED
  BY <1>1, <1>2, <1>3, <1>4, <1>5, <1>6, <1>7 DEF Next

LEMMA StreamTypesHold == Spec => [](TypeOK /\ ReceivedAtMostSent)
<1>1. Init => TypeOK /\ ReceivedAtMostSent
  BY HubAssumptions DEF Init, TypeOK, Groups, Stages, ReceivedAtMostSent, Sends
<1> QED
  BY <1>1, TypeNext, PTL DEF Spec

(* Every variable keeps its type: no connection gets an event more than    *)
(* twice, whatever it subscribes to while the event is sent.               *)
THEOREM StreamTypes == Spec => []TypeOK
BY StreamTypesHold, PTL

-----------------------------------------------------------------------------
(* One stream. Between the two awaits of an invocation a connection may be *)
(* in the group it is about to join, and in no other.                      *)
StreamInv ==
  \A c \in Connections :
    /\ invocation[c] = "ready" => \E g \in Groups : Streams(c) = {g}
    /\ invocation[c] \in Groups => Streams(c) \subseteq {invocation[c]}
    /\ invocation[c] = "offline" => Streams(c) = {}

LEMMA StreamNext ==
  ASSUME OneSubscription, TypeOK, StreamInv, [Next]_vars
  PROVE  StreamInv'
<1>1. ASSUME NEW c \in Connections, OnConnected(c) PROVE StreamInv'
  <2>1. Streams(c) = {} /\ invocation'[c] = "ready" /\ GlobalGroup \in Groups
    BY <1>1 DEF OnConnected, StreamInv, TypeOK, Groups
  <2>2. Streams(c)' = {GlobalGroup} /\ \A x \in Connections \ {c} : Streams(x)' = Streams(x)
    BY <1>1, <2>1, AddEffect DEF OnConnected
  <2> QED
    BY <1>1, <2>1, <2>2, HubAssumptions DEF OnConnected, StreamInv, TypeOK
<1>2. ASSUME NEW c \in Connections, Disconnect(c) PROVE StreamInv'
  <2>1. Streams(c)' = {} /\ \A x \in Connections \ {c} : Streams(x)' = Streams(x)
    BY <1>2 DEF Disconnect, Streams
  <2> QED
    BY <1>2, <2>1, HubAssumptions DEF Disconnect, StreamInv, TypeOK
<1>3. ASSUME NEW c \in Connections, NEW d \in Devices, SubscribeToDevice(c, d) \/ UnsubscribeFromDevice(c, d)
      PROVE  StreamInv'
  <2>1. PICK g \in Groups, target \in Groups :
          /\ RemoveFromGroup(c, g)
          /\ invocation' = [invocation EXCEPT ![c] = target]
          /\ {g, target} = {GlobalGroup, d}
    BY <1>3 DEF SubscribeToDevice, UnsubscribeFromDevice, Groups
  <2>2. Streams(c) \subseteq {g, target}
    BY <1>3, <2>1 DEF SubscribeToDevice, UnsubscribeFromDevice
  <2>3. Streams(c)' \subseteq {target} /\ \A x \in Connections \ {c} : Streams(x)' = Streams(x)
    BY <2>1, <2>2, RemoveEffect
  <2> QED
    BY <2>1, <2>3, HubAssumptions DEF StreamInv, TypeOK
<1>4. ASSUME NEW c \in Connections, JoinGroup(c) PROVE StreamInv'
  <2>1. Streams(c)' = {invocation[c]} /\ \A x \in Connections \ {c} : Streams(x)' = Streams(x)
    BY <1>4, AddEffect DEF JoinGroup, StreamInv
  <2> QED
    BY <1>4, <2>1, HubAssumptions DEF JoinGroup, StreamInv, TypeOK
<1>5. CASE UNCHANGED <<members, invocation>>
  BY <1>5 DEF StreamInv, Streams
<1> QED
  BY <1>1, <1>2, <1>3, <1>4, <1>5 DEF Next, Publish, Send, SendToGroup, vars

LEMMA StreamInvariant == ASSUME OneSubscription PROVE Spec => []StreamInv
<1>1. Init => StreamInv
  BY HubAssumptions DEF Init, StreamInv, Streams, Groups
<1>2. TypeOK /\ StreamInv /\ [Next]_vars => StreamInv'
  BY StreamNext
<1> QED
  BY <1>1, <1>2, StreamTypesHold, PTL DEF Spec

(* Clients that leave a device before they subscribe to another follow one *)
(* stream at a time.                                                       *)
THEOREM OneStreamAtATime == ASSUME OneSubscription PROVE Spec => []OneStream
<1>1. StreamInv => OneStream
  BY FS_Singleton DEF StreamInv, OneStream
<1> QED
  BY <1>1, StreamInvariant, PTL
-----------------------------------------------------------------------------
(* One delivery. A settled connection stays in its group from the start of *)
(* a publication, so the first send decided what the second has to add.    *)
SettledInv ==
  \A e \in Events : \A c \in settled[e] :
    /\ invocation[c] = "ready"
    /\ publishing[e] # "unpublished"
    /\ publishing[e] = "toDeviceGroup" =>
         received[c][e] = IF GlobalGroup \in Streams(c) THEN 1 ELSE 0

(* A step of one connection spares the settled ones.                       *)
LEMMA ConnectionStep ==
  ASSUME TypeOK, SettledInv, NEW c \in Connections,
         \A x \in Connections \ {c} :
           /\ Streams(x)' = Streams(x)
           /\ invocation'[x] = invocation[x]
           /\ received'[x] = received[x],
         UNCHANGED publishing,
         \A e \in Events : settled'[e] \subseteq settled[e] /\ c \notin settled'[e]
  PROVE  SettledInv'
BY DEF SettledInv, TypeOK

LEMMA SettledNext ==
  ASSUME TypeOK, ReceivedAtMostSent, SettledInv, [Next]_vars
  PROVE  SettledInv'
<1>1. ASSUME NEW c \in Connections, OnConnected(c) PROVE SettledInv'
  <2>1. \A x \in Connections \ {c} : Streams(x)' = Streams(x)
    BY <1>1, AddEffect DEF OnConnected, Groups
  <2>2. \A e \in Events : c \notin settled[e]
    BY <1>1 DEF OnConnected, SettledInv
  <2> QED
    BY <1>1, <2>1, <2>2, ConnectionStep DEF OnConnected, TypeOK
<1>2. ASSUME NEW c \in Connections, Disconnect(c) PROVE SettledInv'
  <2>1. \A x \in Connections \ {c} : Streams(x)' = Streams(x)
    BY <1>2 DEF Disconnect, Streams
  <2> QED
    BY <1>2, <2>1, ConnectionStep DEF Disconnect, Stir, TypeOK
<1>3. ASSUME NEW c \in Connections, NEW d \in Devices, SubscribeToDevice(c, d) \/ UnsubscribeFromDevice(c, d)
      PROVE  SettledInv'
  <2>1. \A x \in Connections \ {c} : Streams(x)' = Streams(x)
    BY <1>3, RemoveEffect DEF SubscribeToDevice, UnsubscribeFromDevice, Groups
  <2> QED
    BY <1>3, <2>1, ConnectionStep DEF SubscribeToDevice, UnsubscribeFromDevice, Stir, TypeOK
<1>4. ASSUME NEW c \in Connections, JoinGroup(c) PROVE SettledInv'
  <2>1. \A x \in Connections \ {c} : Streams(x)' = Streams(x)
    BY <1>4, AddEffect DEF JoinGroup
  <2>2. \A e \in Events : c \notin settled[e]
    BY <1>4, HubAssumptions DEF JoinGroup, SettledInv
  <2> QED
    BY <1>4, <2>1, <2>2, ConnectionStep DEF JoinGroup, TypeOK
<1>5. ASSUME NEW e \in Events, Publish(e) PROVE SettledInv'
  BY <1>5 DEF Publish, SettledInv, TypeOK, Streams
<1>6. ASSUME NEW e \in Events, Send(e) PROVE SettledInv'
  <2>1. UNCHANGED <<members, invocation, settled>> /\ \A c \in Connections : Streams(c)' = Streams(c)
    BY <1>6 DEF Send, SendToGroup, Streams
  <2>2. \A x \in Events \ {e} : publishing'[x] = publishing[x] /\ \A c \in Connections : received'[c][x] = received[c][x]
    BY <1>6 DEF Send, SendToGroup, TypeOK
  <2>3. CASE SendToGroup(e, GlobalGroup, "toGlobalGroup", "toDeviceGroup")
    <3>1. \A c \in Connections : received[c][e] = 0
      BY <2>3 DEF SendToGroup, ReceivedAtMostSent, Sends, TypeOK
    <3>2. \A c \in Connections : received'[c][e] = IF GlobalGroup \in Streams(c) THEN 1 ELSE 0
      BY <2>3, <3>1 DEF SendToGroup, TypeOK, Streams, Groups
    <3>3. publishing'[e] = "toDeviceGroup"
      BY <2>3 DEF SendToGroup, TypeOK
    <3> QED
      BY <2>1, <2>2, <3>2, <3>3 DEF SettledInv, TypeOK
  <2>4. CASE SendToGroup(e, DeviceOf[e], "toDeviceGroup", "published")
    <3>1. publishing'[e] = "published"
      BY <2>4 DEF SendToGroup, TypeOK
    <3> QED
      BY <2>1, <2>2, <3>1 DEF SettledInv, TypeOK
  <2> QED
    BY <1>6, <2>3, <2>4 DEF Send
<1>7. CASE UNCHANGED vars
  BY <1>7 DEF vars, SettledInv, Streams
<1> QED
  BY <1>1, <1>2, <1>3, <1>4, <1>5, <1>6, <1>7 DEF Next

LEMMA SettledInvariant == Spec => []SettledInv
<1>1. Init => SettledInv
  BY DEF Init, SettledInv
<1>2. TypeOK /\ ReceivedAtMostSent /\ SettledInv /\ [Next]_vars => SettledInv'
  BY SettledNext
<1> QED
  BY <1>1, <1>2, StreamTypesHold, PTL DEF Spec

LEMMA LastSend ==
  ASSUME TypeOK, StreamInv, SettledInv, [Next]_vars,
         NEW e \in Events, NEW c \in settled[e],
         publishing[e] = "toDeviceGroup", publishing'[e] = "published"
  PROVE  received'[c][e] = IF Streams(c) \intersect {GlobalGroup, DeviceOf[e]} # {} THEN 1 ELSE 0
<1>1. SendToGroup(e, DeviceOf[e], "toDeviceGroup", "published")
  BY DEF Next, OnConnected, Disconnect, JoinGroup, SubscribeToDevice, UnsubscribeFromDevice,
     Publish, Send, SendToGroup, vars, TypeOK
<1>2. /\ DeviceOf[e] \in Groups /\ GlobalGroup \in Groups /\ DeviceOf[e] # GlobalGroup
      /\ c \in Connections
  BY HubAssumptions DEF Groups, TypeOK
<1>3. PICK g \in Groups : Streams(c) = {g}
  BY <1>2 DEF StreamInv, SettledInv
<1>4. received[c][e] = IF g = GlobalGroup THEN 1 ELSE 0
  BY <1>2, <1>3 DEF SettledInv
<1>5. received'[c][e] = received[c][e] + IF g = DeviceOf[e] THEN 1 ELSE 0
  <2>1. c \in members[DeviceOf[e]] <=> g = DeviceOf[e]
    BY <1>2, <1>3 DEF Streams
  <2>2. received[c][e] \in 0..2 /\ received[c] \in [Events -> 0..2]
    BY <1>2 DEF TypeOK
  <2>3. received'[c] = [received[c] EXCEPT ![e] = IF c \in members[DeviceOf[e]] THEN @ + 1 ELSE @]
    BY <1>1, <1>2 DEF SendToGroup
  <2> QED
    BY <2>1, <2>2, <2>3
<1>6. received'[c][e] = IF g \in {GlobalGroup, DeviceOf[e]} THEN 1 ELSE 0
  BY <1>2, <1>4, <1>5
<1>7. Streams(c) \intersect {GlobalGroup, DeviceOf[e]} # {} <=> g \in {GlobalGroup, DeviceOf[e]}
  BY <1>3
<1> QED
  BY <1>6, <1>7

(* The two sends of a publication reach every connection that keeps still  *)
(* exactly as often as its stream says, for clients with one subscription. *)
THEOREM SettledConnectionsReceiveOnce == ASSUME OneSubscription PROVE Spec => SettledReceiveOnce
<1>1. TypeOK /\ StreamInv /\ SettledInv /\ [Next]_vars
        => [\A e \in Events : \A c \in settled[e] :
              publishing[e] = "toDeviceGroup" /\ publishing'[e] = "published" =>
                received'[c][e] = IF Streams(c) \intersect {GlobalGroup, DeviceOf[e]} # {} THEN 1 ELSE 0]_vars
  BY LastSend
<1> QED
  BY <1>1, StreamTypesHold, StreamInvariant, SettledInvariant, PTL DEF Spec, SettledReceiveOnce
=============================================================================

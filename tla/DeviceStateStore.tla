-------------------------- MODULE DeviceStateStore --------------------------
(***************************************************************************)
(* Current device state in Redis: one hash per device, written by a Lua    *)
(* script that runs atomically, read with HGETALL, removed with the device *)
(* and dropped by its time to live.                                        *)
(***************************************************************************)
EXTENDS Domain

CONSTANT Faults   \* which failures a behaviour may contain

FaultKinds == {"redis",    \* a Redis call reports a RedisException
               "expire",   \* a key expires or is evicted
               "notify",   \* a SignalR publication is lost
               "abort"}    \* a request or pass stops at an await: MySQL error,
                           \* client disconnect, unclassified exception, crash
ASSUME FaultsAssumption == Faults \subseteq FaultKinds

VARIABLE redis    \* redis[d]: the hash of device d, NoState when absent

StoreTypeOK == redis \in [Devices -> DeviceState]

Absent(d) == redis[d] = NoState

(* Mistaken variants: last write wins; a tie keeps the current reading.    *)
MergeReadingUnordered(current, incoming) ==
  IF incoming.timestamp # NoTime THEN incoming ELSE current
MergeReadingStrict(current, incoming) ==
  IF incoming.timestamp > current.timestamp THEN incoming ELSE current

(* The newer of two readings by timestamp; the incoming one wins a tie.    *)
MergeReading(current, incoming) ==
  IF incoming.timestamp # NoTime
     /\ (current.timestamp < 0 \/ incoming.timestamp >= current.timestamp)
  THEN incoming ELSE current

(* Mistaken variant: the hash is replaced instead of merged.               *)
UpdateScriptReplacing(hash, state) == state

UpdateScript(hash, state) ==
  LET newer == hash.lastSeenAt < 0 \/ state.lastSeenAt >= hash.lastSeenAt
  IN [status     |-> IF newer THEN state.status ELSE hash.status,
      lastSeenAt |-> IF newer THEN state.lastSeenAt ELSE hash.lastSeenAt,
      metrics    |-> [m \in Metrics |-> MergeReading(hash.metrics[m], state.metrics[m])]]

SetAsync(d, state) == redis' = [redis EXCEPT ![d] = UpdateScript(@, state)]

(* A failing call: Redis may have run the script before the connection was *)
(* lost.                                                                   *)
SetAsyncFails(d, state) ==
  /\ "redis" \in Faults
  /\ SetAsync(d, state) \/ UNCHANGED redis

RemoveAsync(d) == redis' = [redis EXCEPT ![d] = NoState]

Expire(d) ==
  /\ "expire" \in Faults
  /\ ~Absent(d)
  /\ redis' = [redis EXCEPT ![d] = NoState]
=============================================================================

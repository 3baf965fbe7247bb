---------------------------- MODULE EdgeDevices ----------------------------
(***************************************************************************)
(* GET /edge-devices/status: which devices were heard of lately, from the  *)
(* last_seen_at that another program writes on every heartbeat.            *)
(***************************************************************************)
EXTENDS Integers, FiniteSets

CONSTANTS Devices,    \* rows of devices
          Threshold,  \* ONLINE_THRESHOLD_SECONDS, in ticks
          MaxClock,   \* bound on the clock
          Never       \* last_seen_at is null

VARIABLES lastSeen,  \* last_seen_at of each device
          now,       \* datetime.now
          beats      \* history: the times of each device's heartbeats

vars == <<lastSeen, now, beats>>

Init ==
    /\ lastSeen = [d \in Devices |-> Never]
    /\ now = 0
    /\ beats = [d \in Devices |-> {}]

Heartbeat(d) ==
    /\ lastSeen' = [lastSeen EXCEPT ![d] = now]
    /\ beats' = [beats EXCEPT ![d] = @ \cup {now}]
    /\ UNCHANGED now

Tick == now < MaxClock /\ now' = now + 1 /\ UNCHANGED <<lastSeen, beats>>

Next == (\E d \in Devices : Heartbeat(d)) \/ Tick

Spec == Init /\ [][Next]_vars

\* Mutant: a device seen exactly Threshold ago is offline.
IsOnlineStrict(d) == lastSeen[d] # Never /\ lastSeen[d] > now - Threshold

\* _is_online
IsOnline(d) == lastSeen[d] # Never /\ lastSeen[d] >= now - Threshold

\* edge_device_status
Status ==
    LET online == {d \in Devices : IsOnline(d)}
    IN  [online |-> Cardinality(online), offline |-> Cardinality(Devices) - Cardinality(online)]

-----------------------------------------------------------------------------
(* Properties.                                                             *)

\* The counters tell the devices with and without a heartbeat in the last
\* Threshold seconds, the boundary included ("after 120 s of silence",
\* edge_devices.py:5), a device that was never heard of being offline.
StatusIsSilence ==
    LET heard == {d \in Devices : \E k \in 0 .. Threshold : now - k \in beats[d]}
    IN  Status = [online |-> Cardinality(heard), offline |-> Cardinality(Devices \ heard)]
=============================================================================

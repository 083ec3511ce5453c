-------------------------- MODULE StelliumKeepAlive --------------------------
(***************************************************************************)
(* Connection keep-alive of the Stellium client (swqos/stellium.rs).  One   *)
(* shared flag, keep_alive_running, is set while the client should ping,    *)
(* and the loop reads it under the name stop_ping.                          *)
(***************************************************************************)
EXTENDS Naturals

VARIABLES
    held,               \* the program holds its client
    starter,            \* the task that runs start_ping_task on its own clone
    ping,               \* the ping loop
    keep_alive_running  \* the shared flag

vars == <<held, starter, ping, keep_alive_running>>

Init ==
    /\ held = TRUE
    /\ starter = "scheduled"
    /\ ping = "none"
    /\ keep_alive_running = TRUE

SpawnPing ==
    /\ starter = "scheduled"
    /\ starter' = "spawned"
    /\ ping' = "first_ping"
    /\ UNCHANGED <<held, keep_alive_running>>

(* The starter task ends and drops its clone: Drop clears the flag.          *)
StarterEnds ==
    /\ starter = "spawned"
    /\ starter' = "ended"
    /\ keep_alive_running' = FALSE
    /\ UNCHANGED <<held, ping>>

(* stop_ping_task, or Drop of the program's instance. *)
StopPingTask ==
    /\ held
    /\ keep_alive_running' = FALSE
    /\ UNCHANGED <<held, starter, ping>>

DropClient ==
    /\ held
    /\ held' = FALSE
    /\ keep_alive_running' = FALSE
    /\ UNCHANGED <<starter, ping>>

PingDone ==
    /\ ping \in {"first_ping", "pinging"}
    /\ ping' = "tick"
    /\ UNCHANGED <<held, starter, keep_alive_running>>

(* if stop_ping.load() { break }, where stop_ping is keep_alive_running.     *)
Tick ==
    /\ ping = "tick"
    /\ ping' = IF keep_alive_running THEN "stopped" ELSE "pinging"
    /\ UNCHANGED <<held, starter, keep_alive_running>>

Starter == SpawnPing \/ StarterEnds
Loop == PingDone \/ Tick

Next == Starter \/ Loop \/ StopPingTask \/ DropClient

(* Tokio runs every ready task and pings have a timeout.                     *)
Spec == Init /\ [][Next]_vars /\ WF_vars(Starter) /\ WF_vars(PingDone) /\ WF_vars(Tick)

-----------------------------------------------------------------------------
(* "Stop ping task when client is dropped".                                  *)
PingStopsAfterDrop == ~held ~> ping = "stopped"
=============================================================================

------------------------------ MODULE KeepAlive ------------------------------
(***************************************************************************)
(* Connection keep-alive of the Node1, Temporal, BlockRazor and Astralane   *)
(* clients (swqos/node1.rs and its siblings).  `new` moves a clone of the   *)
(* client into a task that starts the ping loop; all clones share the       *)
(* stop_ping flag and the handle of the loop, and `Drop` runs for each of    *)
(* them.                                                                    *)
(***************************************************************************)
EXTENDS Naturals

CONSTANT MaxClones   \* clones the program makes of its client

ASSUME MaxClonesAssumption == MaxClones \in Nat

VARIABLES
    held,        \* instances of the client the program holds
    cloned,      \* clones it has made
    starter,     \* the task that runs start_ping_task on its own clone
    ping,        \* the ping loop
    ping_handle, \* whether the shared handle is set
    stop_ping,   \* the shared flag
    aborters     \* tasks spawned by Drop that have not run yet

pingVars == <<held, cloned, starter, ping, ping_handle, stop_ping, aborters>>

(* `new` returned and its task is scheduled. *)
PingInit ==
    /\ held = 1
    /\ cloned = 0
    /\ starter = "scheduled"
    /\ ping = "none"
    /\ ping_handle = FALSE
    /\ stop_ping = FALSE
    /\ aborters = 0

(* start_ping_task: spawn the loop, which pings at once or, in Astralane,    *)
(* begins with the interval's tick ...                                       *)
SpawnPing ==
    /\ starter = "scheduled"
    /\ starter' = "spawned"
    /\ ping' \in {"first_ping", "tick"}
    /\ UNCHANGED <<held, cloned, ping_handle, stop_ping, aborters>>

(* ... and, under the lock, replace the stored handle by its own.           *)
StoreHandle ==
    /\ starter = "spawned"
    /\ starter' = "stored"
    /\ ping_handle' = TRUE
    /\ UNCHANGED <<held, cloned, ping, stop_ping, aborters>>

(* Fault: the flag is used with its meaning reversed and nothing aborts.    *)
DropReversed ==
    /\ stop_ping' = FALSE
    /\ aborters' = aborters

(* Drop of any instance: raise the flag, spawn a task that aborts the loop. *)
Drop ==
    /\ stop_ping' = TRUE
    /\ aborters' = aborters + 1

(* The starter task ends and drops its clone.                               *)
StarterEnds ==
    /\ starter = "stored"
    /\ starter' = "ended"
    /\ Drop
    /\ UNCHANGED <<held, cloned, ping, ping_handle>>

CloneClient ==
    /\ held > 0
    /\ cloned < MaxClones
    /\ held' = held + 1
    /\ cloned' = cloned + 1
    /\ UNCHANGED <<starter, ping, ping_handle, stop_ping, aborters>>

DropClient ==
    /\ held > 0
    /\ held' = held - 1
    /\ Drop
    /\ UNCHANGED <<cloned, starter, ping, ping_handle>>

(* The task Drop spawned takes the lock, aborts the loop it finds and       *)
(* clears the handle.                                                       *)
Abort ==
    /\ aborters > 0
    /\ aborters' = aborters - 1
    /\ ping' = IF ping_handle /\ ping # "stopped" THEN "aborted" ELSE ping
    /\ ping_handle' = FALSE
    /\ UNCHANGED <<held, cloned, starter, stop_ping>>

(* The loop: ping, wait for the tick, look at the flag.                     *)
PingDone ==
    /\ ping \in {"first_ping", "pinging"}
    /\ ping' = "tick"
    /\ UNCHANGED <<held, cloned, starter, ping_handle, stop_ping, aborters>>

Tick ==
    /\ ping = "tick"
    /\ ping' = IF stop_ping THEN "stopped" ELSE "pinging"
    /\ UNCHANGED <<held, cloned, starter, ping_handle, stop_ping, aborters>>

Starter == SpawnPing \/ StoreHandle \/ StarterEnds
Loop == PingDone \/ Tick
User == CloneClient \/ DropClient

PingNext == Starter \/ Loop \/ Abort \/ User

(* Tokio runs every task that is ready and pings have a timeout; the        *)
(* program need not drop its client.                                        *)
PingSpec ==
    /\ PingInit /\ [][PingNext]_pingVars
    /\ WF_pingVars(Starter) /\ WF_pingVars(Loop) /\ WF_pingVars(Abort)

-----------------------------------------------------------------------------
Over == ping \in {"stopped", "aborted"}

(* "Ensure ping task stops when client is destroyed": after the last        *)
(* instance is gone the loop ends for good, also when the client is dropped *)
(* before its starter ran or before the handle was stored.                  *)
PingStopsAfterDrop == held = 0 ~> []Over

(* "Start periodic ping task to keep connections active": the loop runs as   *)
(* long as the program holds an instance and has dropped none.               *)
PingRunsWhileHeld == held = cloned + 1 => ~Over
=============================================================================

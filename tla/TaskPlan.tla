------------------------------ MODULE TaskPlan ------------------------------
(***************************************************************************)
(* The planning half of `execute_parallel` (trading/core/async_executor.rs, *)
(* up to the spawn loop): which (client, strategy) pairs become tasks.  It   *)
(* composes with FeeRaces: the flat_map is lazy, so the fee table is loaded  *)
(* once per client, and writers run between two loads.                       *)
(***************************************************************************)
EXTENDS FeeRaces

CONSTANTS
    MaxClients, \* length of the longest list of clients
    MinTip      \* MinTip[k] = min_tip_sol of the clients of type k

ASSUME MaxClientsAssumption == MaxClients \in Nat
ASSUME MinTipAssumption == MinTip \in [Swqos -> Nat]

VARIABLES
    clients,        \* argument swqos_clients, by type
    is_buy, with_tip, check_min_tip, has_nonce,
    planner,        \* where the function is
    cursor,         \* client whose strategies are loaded next
    task_configs    \* pairs planned so far: <<client, strategy, value>>

planArgs == <<clients, is_buy, with_tip, check_min_tip, has_nonce>>
planVars == <<planArgs, planner, cursor, task_configs>>

TradeOf == IF is_buy THEN "Buy" ELSE "Sell"

PlanInit ==
    /\ RaceInit
    /\ clients \in UNION {[1..n -> Swqos] : n \in 0..MaxClients}
    /\ is_buy \in BOOLEAN
    /\ with_tip \in IF is_buy THEN {TRUE} ELSE BOOLEAN
    /\ check_min_tip \in BOOLEAN
    /\ has_nonce \in BOOLEAN
    /\ planner = "start"
    /\ cursor = 1
    /\ task_configs = {}

(* No clients, or no Default client for an untipped trade.                  *)
CheckClients ==
    /\ planner = "start"
    /\ planner' = IF \/ clients = << >>
                     \/ ~with_tip /\ \A i \in DOMAIN clients : clients[i] # Default
                  THEN "rejected"
                  ELSE "planning"
    /\ UNCHANGED <<raceVars, planArgs, cursor, task_configs>>

Eligible(k) == with_tip \/ k = Default
ChecksTip(k) == with_tip /\ k # Default /\ check_min_tip

(* Fault: the configurations are filed under the next client.               *)
ConfigsOfNext(i) ==
    {<<i + 1, e[2], e[3]>> : e \in {e \in get_strategies(TradeOf) : e[1] = clients[i]}}

ConfigsOf(i) ==
    {<<i, e[2], e[3]>> : e \in {e \in get_strategies(TradeOf) :
                                  /\ e[1] = clients[i]
                                  /\ ChecksTip(e[1]) => e[3].tip >= MinTip[e[1]]}}

PlanClient ==
    /\ planner = "planning"
    /\ cursor <= Len(clients)
    /\ task_configs' = IF Eligible(clients[cursor])
                       THEN task_configs \cup ConfigsOf(cursor)
                       ELSE task_configs
    /\ cursor' = cursor + 1
    /\ UNCHANGED <<raceVars, planArgs, planner>>

(* Fault: no durable nonce is asked for.                                    *)
AcceptWithoutNonce ==
    /\ planner = "planning"
    /\ cursor > Len(clients)
    /\ planner' = IF task_configs = {} THEN "rejected" ELSE "accepted"
    /\ UNCHANGED <<raceVars, planArgs, cursor, task_configs>>

(* No configuration at all, or several for a buy without durable nonce.     *)
Accept ==
    /\ planner = "planning"
    /\ cursor > Len(clients)
    /\ planner' = IF \/ task_configs = {}
                     \/ is_buy /\ Cardinality(task_configs) > 1 /\ ~has_nonce
                  THEN "rejected"
                  ELSE "accepted"
    /\ UNCHANGED <<raceVars, planArgs, cursor, task_configs>>

Plan == CheckClients \/ PlanClient \/ Accept

PlanNext == Plan \/ (RaceNext /\ UNCHANGED planVars)

PlanSpec == PlanInit /\ [][PlanNext]_<<raceVars, planVars>>

-----------------------------------------------------------------------------
(* The fee table and the plan have their types: a plan names real clients.  *)
PlanTypeOK ==
    /\ RaceTypeOK
    /\ clients \in Seq(Swqos)
    /\ is_buy \in BOOLEAN /\ with_tip \in BOOLEAN
    /\ check_min_tip \in BOOLEAN /\ has_nonce \in BOOLEAN
    /\ planner \in {"start", "planning", "accepted", "rejected"}
    /\ cursor \in 1..(MaxClients + 1)
    /\ task_configs \subseteq (1..MaxClients) \X StrategyTypes \X Values

(* A client is sent the Normal transaction beside one of the high-low pair   *)
(* only if two writers raced for its service and this trade; otherwise each   *)
(* client gets one mode, although the table is changed while the plan is      *)
(* made and every client is planned from a table of its own.                  *)
OneModePerClient ==
    \A c, d \in task_configs :
        c[1] = d[1] /\ c[2] = "Normal" /\ d # c => <<clients[c[1]], TradeOf>> \in raced

(* A buy that is let through without a durable nonce has a single task, so   *)
(* it cannot be executed twice; a trade without tip only goes to Default.    *)
AcceptedPlanIsSafe ==
    planner = "accepted" =>
        /\ task_configs # {}
        /\ is_buy /\ ~has_nonce => Cardinality(task_configs) = 1
        /\ ~with_tip => \A c \in task_configs : clients[c[1]] = Default

(* What execute_parallel plans while any number of writers change the fee     *)
(* table under it: one mode per client unless they raced for its fees, and a  *)
(* plan that is let through has what the guards of execute_parallel ask for.  *)
PlanIsSafe == PlanTypeOK /\ OneModePerClient /\ AcceptedPlanIsSafe
=============================================================================

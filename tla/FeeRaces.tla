------------------------------- MODULE FeeRaces -------------------------------
(***************************************************************************)
(* What the fee table promises to writers that run at the same time.  All    *)
(* clones of a `GasFeeStrategy` change one table (gas_fee_strategy.rs), and  *)
(* an operation is several rcu's, so operations overlap.  GasFeeStrategy is  *)
(* extended with two history variables, which record who got in between; no  *)
(* step depends on them.                                                     *)
(***************************************************************************)
EXTENDS GasFeeStrategy

VARIABLES
    touched, \* touched[w]: <<service, trade>> that other writers have changed
             \* since the operation w is running began
    raced    \* <<service, trade>> that got an entry from a writer after
             \* another one had changed them under it

raceVars == <<vars, touched, raced>>

-----------------------------------------------------------------------------
Changed ==
    {p \in Swqos \X Trades :
        \E y \in StrategyTypes : strategies'[<<p[1], p[2], y>>] # strategies[<<p[1], p[2], y>>]}

Gained ==
    {p \in Changed :
        \E y \in StrategyTypes : ~Present(p[1], p[2], y) /\ Present(p[1], p[2], y)'}

Watch(w) ==
    /\ touched' = [v \in Writers |->
                      IF op[v] = Idle \/ op'[v] = Idle THEN {}
                      ELSE IF v = w THEN touched[v]
                      ELSE touched[v] \cup Changed]
    /\ raced' = raced \cup (touched[w] \cap Gained)

RaceInit ==
    /\ Init
    /\ touched = [w \in Writers |-> {}]
    /\ raced = {}

RaceNext == \E w \in Writers : Write(w) /\ Watch(w)

RaceSpec == RaceInit /\ [][RaceNext]_raceVars

-----------------------------------------------------------------------------
(* The table has its type, and the history speaks of services and trades.    *)
RaceTypeOK ==
    /\ TypeOK
    /\ touched \in [Writers -> SUBSET (Swqos \X Trades)]
    /\ raced \subseteq Swqos \X Trades

(* Whoever loads the table, between whichever rcu's of whichever operations:  *)
(* a Normal entry beside one of the high-low pair is there only where a       *)
(* writer put an entry while another one was changing the same service and    *)
(* trade.  Writers that overlap on other services, or on the other trade, or  *)
(* that take turns, keep the two modes apart.                                 *)
ConflictsAreRaces ==
    \A k \in Swqos, trade \in Trades : Conflict(k, trade) => <<k, trade>> \in raced

(* When the loop of set_global_fee_strategy has ended, each service has, for  *)
(* each trade that nobody else changed meanwhile, exactly the entry of this   *)
(* call (no tip for Default), whatever the table held and whatever the other  *)
(* writers did elsewhere.                                                     *)
GlobalTakesEffect ==
    \A w \in Writers, k \in Swqos, trade \in Trades :
        /\ op[w].name = "global" /\ todo[w] = {} /\ calls[w] = << >>
        /\ <<k, trade>> \notin touched[w]
        => {e \in get_strategies(trade) : e[1] = k} =
               {<<k, "Normal", GlobalValue(k, IF trade = "Buy" THEN op[w].v1 ELSE op[w].v2)>>}
=============================================================================

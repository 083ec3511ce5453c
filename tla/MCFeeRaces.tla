----------------------------- MODULE MCFeeRaces -----------------------------
(* Model of TaskPlan, and with it of FeeRaces and GasFeeStrategy, for TLC. *)
EXTENDS TaskPlan, TLC

(* Only the non-Default service asks for a tip. *)
MCMinTip == [k \in Swqos |-> IF k = Default THEN 0 ELSE 1]

(* Writers differ in nothing but their name. *)
WriterSymmetry == Permutations(Writers)

(* What is explored: all operations while no trade is planned, and while one *)
(* is, `set` and those that are a single rcu.  A tip comes into the table by *)
(* set_global_fee_strategy and update_*_tip, so that what they wrote can be  *)
(* told from the rest.  Of two clients the second is not Default.            *)
NoTrade == clients = << >> /\ is_buy /\ ~check_min_tip /\ ~has_nonce /\ planner = "start"
Untipped(o) == \A f \in {"v1", "v2"} \cap DOMAIN o : o[f].tip = 0
Explored ==
    /\ Len(clients) = 2 => clients[2] # Default
    /\ \A w \in Writers :
          /\ op[w].name # "global" => Untipped(op[w])
          /\ NoTrade \/ op[w].name \in {"none", "set"}
=============================================================================

------------------------------ MODULE MCTrading ------------------------------
(***************************************************************************)
(* Model for TLC of the two halves of a trade, which share nothing but the   *)
(* formulas of Amounts: quotes from reserves that move, and operations on a  *)
(* wallet.  `half` is the one that moves.                                    *)
(***************************************************************************)
EXTENDS MCTradingClient, MCMarket

VARIABLE half

TradingInit ==
    /\ Init /\ MarketInit
    /\ \/ half = "quotes" /\ ~use_seed_optimize /\ wallet.acc = MCNone
       \/ half = "wallet" /\ ~has_creator

TradingNext ==
    /\ \/ half = "quotes" /\ MarketNext /\ UNCHANGED vars
       \/ half = "wallet" /\ Next /\ UNCHANGED marketVars
    /\ UNCHANGED half

TradingSpec == TradingInit /\ [][TradingNext]_<<vars, marketVars, half>>
=============================================================================

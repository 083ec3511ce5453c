--------------------------- MODULE MCTradingClient ---------------------------
EXTENDS TradingClient

Account(amt, lam) == [open |-> TRUE, amt |-> amt, lam |-> lam]
MCNone == [a \in Addresses |-> Shut]
MCWallets ==
    {[sol |-> 9, acc |-> MCNone],
     [sol |-> 9, acc |-> [MCNone EXCEPT ![<<"TOK", "ata">>] = Account(3, Rent),
                                        ![<<"USDC", "ata">>] = Account(3, Rent),
                                        ![<<"WSOL", "ata">>] = Account(3, 3 + Rent)]],
     [sol |-> 9, acc |-> [MCNone EXCEPT ![<<"TOK", "seed">>] = Account(3, Rent),
                                        ![<<"WSOL", "ata">>] = Account(3, 3 + Rent),
                                        ![<<"WSOL", "seed">>] = Account(1, 1 + Rent)]]}

MCCurve == [kind |-> "PumpFun", curve |-> [vt |-> 10, vs |-> 10, rt |-> 8, rs |-> 2],
            creator |-> TRUE, close_when_sell |-> FALSE]
MCPool(base, quote) == [kind |-> "PumpSwap", base |-> base, quote |-> quote,
                        pool |-> [base |-> 10, quote |-> 10], creator |-> FALSE]
MCMarkets ==
    {MCCurve, immediate_sell(TRUE), MCPool("TOK", "WSOL"), MCPool("WSOL", "TOK"),
     MCPool("TOK", "USDC"), MCPool("WSOL", "USDC")}

MCBuyRequests ==
    LET r == PumpFunBuyRequest
        p == PumpSwapBuyRequest("WSOL")
    IN  {r, [r EXCEPT !.exact = FALSE], [r EXCEPT !.token = "USD1"], p,
         [p EXCEPT !.create_in = TRUE], [p EXCEPT !.create_in = TRUE, !.close_in = TRUE, !.exact = FALSE],
         [p EXCEPT !.token = "USDC", !.create_mint = FALSE, !.fixed = 1]}
MCSellRequests ==
    LET r == PumpFunSellRequest
        p == PumpSwapSellRequest("WSOL")
    IN  {r, [r EXCEPT !.close_mint = FALSE, !.fixed = 1], [r EXCEPT !.token = "USD1"], p,
         [p EXCEPT !.create_out = TRUE], [p EXCEPT !.create_out = TRUE, !.close_out = TRUE, !.close_mint = FALSE]}

(* Instances of the two claims that do not hold: a sale in a reversed pool by *)
(* somebody who has more than is sold, and two default buys with seeds of     *)
(* somebody who has no account yet.                                          *)
MCHolder == {[sol |-> 9, acc |-> [MCNone EXCEPT ![<<"TOK", "ata">>] = Account(5, Rent),
                                                ![<<"TOK", "seed">>] = Account(5, Rent),
                                                ![<<"WSOL", "ata">>] = Account(0, Rent)]]}
MCReversed == {MCPool("WSOL", "TOK")}
MCReversedSale == {PumpSwapSellRequest("WSOL"), [PumpSwapSellRequest("WSOL") EXCEPT !.close_mint = FALSE]}
MCNewcomer == {[sol |-> 9, acc |-> MCNone]}
MCOneCurve == {MCCurve}
MCDefaultBuy == {PumpFunBuyRequest}
MCNoRequest == {}
==============================================================================

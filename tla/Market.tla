------------------------------- MODULE Market -------------------------------
(***************************************************************************)
(* The reserves a client quotes from.  The Pump.fun curve and the PumpSwap   *)
(* pools are moved by other people's trades (the programs on the chain are   *)
(* external and follow the formulas of the SDK); the client learns them      *)
(* from a developer's first trade, from a trade event, or by RPC: it looks   *)
(* the pool up and then reads its two reserves with two calls, so a trade    *)
(* may come in between.                                                      *)
(***************************************************************************)
EXTENDS Amounts, Functions

CONSTANTS
    Pools, LpSupply,      \* pools that hold the mint, and their LP supply
    BaseSide,             \* the pools whose base mint is the mint
    Decodable,            \* the pools whose account data decodes
    InitPool,             \* reserves of a pool at first
    InitCurve,            \* GlobalAccount: reserves of a new curve
    TradeAmounts,         \* what a trade brings in
    Quotes,               \* amounts the properties quote for
    Slippages,            \* basis points of slippage
    MaxTrades             \* bound on the trades

ASSUME PoolsAssumption ==
    BaseSide \subseteq Pools /\ Decodable \subseteq Pools /\ LpSupply \in [Pools -> Nat]
ASSUME TradesAssumption ==
    TradeAmounts \cup Quotes \subseteq Nat \ {0} /\ Slippages \subseteq Nat /\ MaxTrades \in Nat

(* u64 reserves.  A new curve has virtual SOL and more virtual tokens than   *)
(* real ones, a pool has both reserves, and a trade in it pays some fee.     *)
Reserve == 0..(U64 - 1)
CurveState == [vt : Reserve, vs : Reserve, rt : Reserve, rs : Reserve]
PoolState == [base : Reserve, quote : Reserve]

ASSUME ReservesAssumption ==
    /\ InitCurve \in CurveState /\ InitCurve.vs > 0 /\ InitCurve.rt < InitCurve.vt
    /\ InitPool \in PoolState /\ InitPool.base > 0 /\ InitPool.quote > 0
ASSUME PoolFeesAssumption == total_fee_bps(FALSE) > 0 /\ total_fee_bps(TRUE) < MAX_FEE_BASIS_POINTS

VARIABLES
    has_creator,          \* is there a creator to pay a fee to
    curve, pool,          \* reserves on the chain
    view,                 \* the client's BondingCurveAccount, or NoView; at, max are history
    reader,               \* the client's way to PumpSwapParams
    trades                \* number of trades

marketVars == <<has_creator, curve, pool, view, reader, trades>>

NoView == [from |-> "none"]
Idle == [pc |-> "idle"]

MarketInit ==
    /\ has_creator \in BOOLEAN
    /\ curve = InitCurve
    /\ pool = [p \in Pools |-> InitPool]
    /\ view = NoView
    /\ reader = Idle
    /\ trades = 0

-----------------------------------------------------------------------------
(* External: what the programs do to the reserves.  The LP fee stays in the  *)
(* pool, the other fees leave it.  A trade whose reserves would not fit in a *)
(* u64 fails.                                                                *)
cost(c, tokens) == (tokens * c.vs) \div (c.vt - tokens) + 1
AfterBuy(c, tokens) ==
    [vt |-> c.vt - tokens, vs |-> c.vs + cost(c, tokens),
     rt |-> c.rt - tokens, rs |-> c.rs + cost(c, tokens)]

CurveBuy(amount) ==
    LET tokens == get_buy_price(curve, amount)
    IN  /\ tokens \in 1..curve.rt
        /\ curve' = AfterBuy(curve, tokens)
        /\ UNCHANGED pool

CurveSell(amount) ==
    LET out == sol_cost(curve, amount)
    IN  /\ out <= curve.rs /\ curve.rt + amount <= InitCurve.rt
        /\ curve' = [vt |-> curve.vt + amount, vs |-> curve.vs - out,
                     rt |-> curve.rt + amount, rs |-> curve.rs - out]
        /\ UNCHANGED pool

PoolAfterBuy(P, r) ==
    [base |-> P.base - r.base,
     quote |-> P.quote + r.internal + compute_fee(r.internal, LP_FEE_BASIS_POINTS)]

PoolBuy(p, amount) ==
    LET r == buy_quote_input_internal(amount, 0, pool[p], has_creator)
    IN  /\ r.ok /\ r.base > 0
        /\ pool' = [pool EXCEPT ![p] = PoolAfterBuy(@, r)]
        /\ UNCHANGED curve

PoolSell(p, amount) ==
    LET r == sell_base_input_internal(amount, 0, pool[p], has_creator)
    IN  /\ r.ok /\ r.ui_quote > 0
        /\ pool' = [pool EXCEPT ![p] =
               [base |-> @.base + amount,
                quote |-> @.quote - r.internal + compute_fee(r.internal, LP_FEE_BASIS_POINTS)]]
        /\ UNCHANGED curve

ChainTrade ==
    /\ trades < MaxTrades
    /\ trades' = trades + 1
    /\ \E amount \in TradeAmounts :
          \/ CurveBuy(amount)
          \/ CurveSell(amount)
          \/ \E p \in Pools : PoolBuy(p, amount) \/ PoolSell(p, amount)
    /\ curve' \in CurveState /\ pool' \in [Pools -> PoolState]
    /\ UNCHANGED <<has_creator, view, reader>>

-----------------------------------------------------------------------------
(* Fault: the developer's SOL is not added.                                   *)
dev_trade_view_no_sol(token_amount, max_sol_cost) ==
    [vt |-> InitCurve.vt - token_amount, vs |-> InitCurve.vs,
     rt |-> InitCurve.rt - token_amount, rs |-> max_sol_cost]

(* Fault: the two amounts are taken for each other.                          *)
dev_trade_view_swapped(token_amount, max_sol_cost) ==
    [vt |-> InitCurve.vt - max_sol_cost, vs |-> InitCurve.vs + token_amount,
     rt |-> InitCurve.rt - max_sol_cost, rs |-> token_amount]

dev_trade_view(token_amount, max_sol_cost) ==
    [vt |-> InitCurve.vt - token_amount, vs |-> (InitCurve.vs + max_sol_cost) % U64,
     rt |-> InitCurve.rt - token_amount, rs |-> max_sol_cost]

(* A new coin and its developer's buy, seen as token amount and maximal cost; *)
(* the buy fails if it costs more.                                            *)
from_dev_trade(amount) ==
    LET tokens == get_buy_price(InitCurve, amount)
    IN  /\ curve = InitCurve /\ view = NoView
        /\ trades < MaxTrades
        /\ trades' = trades + 1
        /\ tokens > 0
        /\ curve' = AfterBuy(curve, tokens) /\ curve' \in CurveState
        /\ \E slippage \in Slippages :
              LET max_sol_cost == calculate_with_slippage_buy(cost(curve, tokens), slippage)
              IN  /\ max_sol_cost >= cost(curve, tokens)
                  /\ view' = [from |-> "dev_trade", at |-> curve', max |-> max_sol_cost,
                              c |-> dev_trade_view(tokens, max_sol_cost)]
        /\ UNCHANGED <<has_creator, pool, reader>>

(* From a trade event, or with fetch_bonding_curve_account: one account.     *)
from_trade ==
    /\ view' = [from |-> "trade", at |-> curve, max |-> 0, c |-> curve]
    /\ UNCHANGED <<has_creator, curve, pool, reader, trades>>

-----------------------------------------------------------------------------
Deepest(S) == {p \in S : \A q \in S : LpSupply[q] <= LpSupply[p]}

(* Fault: the pools are sorted the other way round.                          *)
find_shallowest(S) == {p \in S \cap Decodable : \A q \in S \cap Decodable : LpSupply[p] <= LpSupply[q]}

(* The first of the decodable pools by LP supply; equal ones in any order.   *)
find_by(S) == Deepest(S \cap Decodable)

Failed == reader' = [pc |-> "failed"]
Found(S, side) ==
    \E p \in find_by(S) : reader' = [pc |-> "fetch", pool |-> p, side |-> side]

(* RPC failures, an empty list and accounts that do not decode are all Err.  *)
find_by_base_mint ==
    /\ reader.pc = "idle"
    /\ \/ Found(BaseSide, "base")
       \/ reader' = [pc |-> "by_quote"]
    /\ UNCHANGED <<has_creator, curve, pool, view, trades>>

find_by_quote_mint ==
    /\ reader.pc = "by_quote"
    /\ \/ Found(Pools \ BaseSide, "quote")
       \/ Failed
    /\ UNCHANGED <<has_creator, curve, pool, view, trades>>

from_pool_address_by_rpc ==      \* called with an address of the caller's own
    /\ reader.pc = "idle"
    /\ \E p \in Pools : reader' = [pc |-> "fetch", pool |-> p, side |-> "given"]
    /\ UNCHANGED <<has_creator, curve, pool, view, trades>>

fetch_pool ==
    /\ reader.pc = "fetch"
    /\ \/ reader.pool \in Decodable /\ reader' = [reader EXCEPT !.pc = "base"]
       \/ Failed
    /\ UNCHANGED <<has_creator, curve, pool, view, trades>>

(* before and after are the pool at the two calls: history.                  *)
read_base ==
    /\ reader.pc = "base"
    /\ \/ reader' = [pc |-> "quote", pool |-> reader.pool, side |-> reader.side,
                     base |-> pool[reader.pool].base, before |-> pool[reader.pool]]
       \/ Failed
    /\ UNCHANGED <<has_creator, curve, pool, view, trades>>

(* Fault: the second call asks for the account of the first.                 *)
quote_balance_of_base == pool[reader.pool].base

quote_balance == pool[reader.pool].quote

read_quote ==
    /\ reader.pc = "quote"
    /\ \/ reader' = [pc |-> "done", pool |-> reader.pool, side |-> reader.side,
                     p |-> [base |-> reader.base, quote |-> quote_balance],
                     before |-> reader.before, after |-> pool[reader.pool]]
       \/ Failed
    /\ UNCHANGED <<has_creator, curve, pool, view, trades>>

again ==                          \* the caller asks anew
    /\ reader.pc \in {"done", "failed"}
    /\ reader' = Idle
    /\ UNCHANGED <<has_creator, curve, pool, view, trades>>

MarketNext ==
    \/ ChainTrade
    \/ \E amount \in TradeAmounts : from_dev_trade(amount)
    \/ from_trade
    \/ find_by_base_mint \/ find_by_quote_mint \/ from_pool_address_by_rpc
    \/ fetch_pool \/ read_base \/ read_quote \/ again

MarketSpec == MarketInit /\ [][MarketNext]_marketVars

-----------------------------------------------------------------------------
(* Every reserve, on the chain or in a view, is a u64.                       *)
MarketTypeOK ==
    /\ has_creator \in BOOLEAN
    /\ curve \in CurveState
    /\ pool \in [Pools -> PoolState]
    /\ view = NoView \/ (view.from \in {"dev_trade", "trade"} /\ view.c \in CurveState)
    /\ reader.pc \in {"idle", "by_quote", "fetch", "base", "quote", "done", "failed"}
    /\ trades \in 0..MaxTrades

(* buy_quote_input_internal quotes the most base that keeps the product, for *)
(* the quote amount that is left after the fees, and no more than the fees   *)
(* leave: one unit more of base would need more.                             *)
QuoteIsTight ==
    \A P \in Range(pool), q \in Quotes :
        LET r == buy_quote_input_internal(q, 0, P, has_creator)
        IN  r.ok =>
               /\ r.base = Max({b \in 0..P.base : (P.base - b) * (P.quote + r.internal) >= P.base * P.quote})
               /\ r.internal = Max({e \in 0..q : e * (MAX_FEE_BASIS_POINTS + total_fee_bps(has_creator))
                                                    <= q * MAX_FEE_BASIS_POINTS})

(* The base amount quoted for q costs, by buy_base_input_internal, at most q *)
(* and the units its rounded fees add: what a regular buy can pay above the  *)
(* amount asked for.  With any slippage that covers them max_quote does too. *)
RegularBuyCost ==
    \A P \in Range(pool), q \in Quotes :
        LET r == buy_quote_input_internal(q, 0, P, has_creator)
            b == buy_base_input_internal(r.base, 0, P, has_creator)
        IN  r.ok /\ r.base > 0 =>
               b.ok /\ b.internal <= r.internal /\ b.ui_quote <= q + (IF has_creator THEN 3 ELSE 2)

(* Selling what sell_quote_input_internal asks for pays the quote it was     *)
(* asked for, up to the units the separately rounded fees take, while what   *)
(* it computes fits in a u64.                                                *)
SellQuotePays ==
    \A P \in Range(pool), q \in Quotes :
        LET r == sell_quote_input_internal(q, 0, P, has_creator)
            s == sell_base_input_internal(r.base, 0, P, has_creator)
            fit == /\ ceil_div(q * MAX_FEE_BASIS_POINTS, MAX_FEE_BASIS_POINTS - total_fee_bps(has_creator)) < U64
                   /\ ceil_div(P.base * r.internal, P.quote - r.internal) < U64
        IN  r.ok /\ fit /\ s.ok => s.internal >= r.internal /\ s.ui_quote + (IF has_creator THEN 3 ELSE 2) >= q

(* The two formulas for a Pump.fun buy, the one of utils/calc and the one of *)
(* BondingCurveAccount, never differ by more than one token unit; neither    *)
(* promises more than the curve has.                                         *)
CurveFormulasAgree ==
    \A q \in Quotes :
        LET in == input_amount(has_creator, q)
            a == curve_tokens(curve, has_creator, q)
            b == get_buy_price(curve, in)
        IN  in > 0 => b <= a /\ a <= b + 1 /\ a <= curve.rt

(* A Pump.fun quote taken from a view, the developer's trade included, can   *)
(* be paid for while the curve is no dearer than when the view was made: its *)
(* tokens are there and cost no more than the amount less the fee, and the   *)
(* unit the curve adds.  The fixed amount that replaces a dust quote is not  *)
(* covered, nor a developer's maximal cost that makes the reserve wrap.      *)
QuoteHoldsWhileCheaper ==
    view # NoView /\ InitCurve.vs + view.max < U64 =>
        \A q \in Quotes :
            LET tokens == get_buy_token_amount_from_sol_amount(view.c, has_creator, q)
            IN  /\ tokens = curve_tokens(view.c, has_creator, q)
                /\ curve.vt >= view.at.vt /\ curve.vs <= view.at.vs
                => tokens <= curve.rt /\ cost(curve, tokens) <= input_amount(has_creator, q) + 1

(* Selling at once what was bought, to the curve or the pool as the buy has  *)
(* left it, never pays more than was spent: the roundings of a round trip    *)
(* add up against the trader, although the LP fee of the buy stays in the    *)
(* pool and raises what a sale pays.                                         *)
NoRoundTripGain ==
    \A q \in Quotes :
        /\ LET tokens == get_buy_price(curve, q)
           IN  tokens \in 1..curve.rt =>
                  get_sell_sol_amount_from_token_amount(AfterBuy(curve, tokens), has_creator, tokens) <= q
        /\ \A P \in Range(pool) :
              LET r == buy_quote_input_internal(q, 0, P, has_creator)
                  s == sell_base_input_internal(r.base, 0, PoolAfterBuy(P, r), has_creator)
              IN  r.ok /\ r.base > 0 /\ s.ok => s.ui_quote < q

(* get_buy_out_price of all that is left covers what the curve charges for   *)
(* it, and get_final_market_cap_sol is not below the present market cap.     *)
BuyOutCovers ==
    curve.rt > 0 /\ curve.rt < curve.vt =>
        /\ curve.rs < curve.vt => get_buy_out_price(curve, curve.rt, 0) >= cost(curve, curve.rt)
        /\ curve.rs < curve.vt => get_final_market_cap_sol(curve, InitCurve.vt, 0) >= get_market_cap_sol(curve, InitCurve.vt)

(* As long as the limits fit in a u64: for any amount quoted and any          *)
(* slippage below 100 %, which the guard takes for 0, the limit of a sell is  *)
(* at least 1 and at most the quote, or 1 where the quote is 0; a buy's limit *)
(* is at least the quote; and a larger slippage never gives a stricter limit. *)
SlippageIsBounded ==
    \A q \in Quotes \cup {get_sell_sol_amount_from_token_amount(curve, has_creator, x) : x \in Quotes} :
        \A s \in {x \in Slippages : q * x < U64 /\ q + (q * x) \div MAX_FEE_BASIS_POINTS < U64} :
            /\ calculate_with_slippage_buy(q, s) >= q
            /\ s < MAX_FEE_BASIS_POINTS => calculate_with_slippage_sell(q, s) \in 1..Max({q, 1})
            /\ \A t \in Slippages : t <= s =>
                  /\ calculate_with_slippage_buy(q, t) <= calculate_with_slippage_buy(q, s)
                  /\ s < MAX_FEE_BASIS_POINTS =>
                        calculate_with_slippage_sell(q, t) >= calculate_with_slippage_sell(q, s)

(* get_token_balances: a trade between the two reads gives reserves no pool  *)
(* ever had.  A sell quoted from them still asks for no less than the worse  *)
(* of the two real pools pays, and a buy promises no more base than the      *)
(* better one.                                                               *)
TornReadIsBounded ==
    reader.pc = "done" =>
        \A q \in Quotes :
            LET sell(P) == sell_base_input_internal(q, 0, P, has_creator)
                buy(P) == buy_quote_input_internal(q, 0, P, has_creator)
            IN  /\ sell(reader.before).ok /\ sell(reader.after).ok /\ sell(reader.p).ok =>
                      sell(reader.p).internal >=
                          Min({sell(reader.before).internal, sell(reader.after).internal})
                /\ buy(reader.p).ok =>
                      buy(reader.p).base <= Max({buy(reader.before).base, buy(reader.after).base})

(* find_by_base_mint and find_by_quote_mint pick a pool with the largest LP  *)
(* supply on its side of the mint; a pool on the quote side is only taken    *)
(* after the base side gave none.                                            *)
DeepestPool ==
    "side" \in DOMAIN reader /\ reader.side # "given" =>
        \A p \in Decodable : (p \in BaseSide <=> reader.side = "base") => LpSupply[p] <= LpSupply[reader.pool]

(* The formulas of utils/calc and of BondingCurveAccount on every reserve    *)
(* that trades can bring about, against reference definitions and against    *)
(* one another.                                                              *)
QuotesAreSound ==
    /\ MarketTypeOK
    /\ QuoteIsTight /\ RegularBuyCost /\ SellQuotePays
    /\ CurveFormulasAgree /\ BuyOutCovers
    /\ SlippageIsBounded

(* What the calls of from_mint_by_rpc bring, with trades and failures in     *)
(* between, can be quoted from.                                              *)
PoolViewIsUsable == TornReadIsBounded /\ DeepestPool
=============================================================================

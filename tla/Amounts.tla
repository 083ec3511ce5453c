------------------------------- MODULE Amounts -------------------------------
(***************************************************************************)
(* The integer arithmetic of quotes (utils/calc, common/bonding_curve.rs,   *)
(* common/global.rs).  u64 results are taken modulo U64, as the release     *)
(* build computes them; u128 intermediates do not overflow.  A creator is   *)
(* TRUE when there is one, that is when it is not Pubkey::default().        *)
(***************************************************************************)
EXTENDS Integers, FiniteSetsExt

CONSTANTS
    U64,                                       \* 2^64
    FEE_BASIS_POINTS, CREATOR_FEE,             \* Pump.fun
    LP_FEE_BASIS_POINTS, PROTOCOL_FEE_BASIS_POINTS,
    COIN_CREATOR_FEE_BASIS_POINTS,             \* PumpSwap
    DustTokens,                                \* 100 tokens
    SmallBuy,                                  \* 0.01 SOL
    FallbackSmall, FallbackLarge               \* what a dust quote is replaced by

ASSUME U64Assumption == U64 \in Nat \ {0}
ASSUME FeesAssumption ==
    {FEE_BASIS_POINTS, CREATOR_FEE, LP_FEE_BASIS_POINTS, PROTOCOL_FEE_BASIS_POINTS,
     COIN_CREATOR_FEE_BASIS_POINTS} \subseteq Nat
ASSUME FallbackAssumption ==
    {DustTokens, SmallBuy, FallbackSmall, FallbackLarge} \subseteq 0..(U64 - 1)

MAX_FEE_BASIS_POINTS == 10000
Err == [ok |-> FALSE]

-----------------------------------------------------------------------------
(* Fault: the division rounds down.                                         *)
floor_div(a, b) == a \div b

ceil_div(a, b) == (a + b - 1) \div b
compute_fee(amount, basis_points) == ceil_div(amount * basis_points, MAX_FEE_BASIS_POINTS)

calculate_with_slippage_buy(amount, basis_points) ==
    (amount + ((amount * basis_points) % U64) \div MAX_FEE_BASIS_POINTS) % U64

(* Fault: no guard for amounts that round to nothing.                       *)
slippage_sell_unguarded(amount, basis_points) ==
    (amount - ((amount * basis_points) % U64) \div MAX_FEE_BASIS_POINTS) % U64

calculate_with_slippage_sell(amount, basis_points) ==
    IF amount <= basis_points \div MAX_FEE_BASIS_POINTS
    THEN 1
    ELSE (amount - ((amount * basis_points) % U64) \div MAX_FEE_BASIS_POINTS) % U64

-----------------------------------------------------------------------------
(* Pump.fun: a bonding curve is given by its virtual reserves of tokens and  *)
(* SOL (vt, vs) and its real ones (rt, rs).                                  *)
pumpfun_fee(creator) == FEE_BASIS_POINTS + (IF creator THEN CREATOR_FEE ELSE 0)

input_amount(creator, amount) ==
    (amount * MAX_FEE_BASIS_POINTS) \div (pumpfun_fee(creator) + MAX_FEE_BASIS_POINTS)

(* Fault: the real reserves are not looked at.                              *)
curve_tokens_unbounded(c, creator, amount) ==
    (input_amount(creator, amount) * c.vt) \div (c.vs + input_amount(creator, amount))

curve_tokens(c, creator, amount) ==
    Min({(input_amount(creator, amount) * c.vt) \div (c.vs + input_amount(creator, amount)), c.rt})

get_buy_token_amount_from_sol_amount(c, creator, amount) ==
    IF amount = 0 \/ c.vt = 0
    THEN 0
    ELSE IF curve_tokens(c, creator, amount) > DustTokens
         THEN curve_tokens(c, creator, amount)
         ELSE IF amount > SmallBuy THEN FallbackLarge ELSE FallbackSmall

sol_cost(c, amount) == (amount * c.vs) \div (c.vt + amount)

get_sell_sol_amount_from_token_amount(c, creator, amount) ==
    IF amount = 0 \/ c.vt = 0
    THEN 0
    ELSE LET fee == compute_fee(sol_cost(c, amount), pumpfun_fee(creator))
         IN  Max({sol_cost(c, amount) - fee, 0})

(* BondingCurveAccount::get_buy_price, GlobalAccount::get_initial_buy_price. *)
get_buy_price(c, amount) ==
    IF amount = 0 THEN 0
    ELSE Min({(c.vt - ((c.vs * c.vt) \div (c.vs + amount) + 1)) % U64, c.rt})

get_sell_price(c, amount, basis_points) ==
    IF amount = 0 THEN 0
    ELSE sol_cost(c, amount) - (sol_cost(c, amount) * basis_points) \div MAX_FEE_BASIS_POINTS

(* Fault: the last lamport is missing.                                       *)
get_buy_out_price_short(c, amount, basis_points) ==
    LET tokens == Max({amount, c.rs})
        value == (tokens * c.vs) \div (c.vt - tokens)
    IN  value + (value * basis_points) \div MAX_FEE_BASIS_POINTS

get_buy_out_price(c, amount, basis_points) ==
    LET tokens == Max({amount, c.rs})
        value == (tokens * c.vs) \div (c.vt - tokens) + 1
    IN  value + (value * basis_points) \div MAX_FEE_BASIS_POINTS

get_final_market_cap_sol(c, supply, basis_points) ==
    IF c.vt = c.rt THEN 0
    ELSE (supply * (c.vs + get_buy_out_price(c, c.rt, basis_points))) \div (c.vt - c.rt)

get_market_cap_sol(c, supply) == IF c.vt = 0 THEN 0 ELSE (supply * c.vs) \div c.vt

-----------------------------------------------------------------------------
(* PumpSwap: a pool is given by its reserves (base, quote).                  *)
Drained(p) == p.base = 0 \/ p.quote = 0

pumpswap_fees(amount, creator) ==
    compute_fee(amount, LP_FEE_BASIS_POINTS) + compute_fee(amount, PROTOCOL_FEE_BASIS_POINTS)
        + (IF creator THEN compute_fee(amount, COIN_CREATOR_FEE_BASIS_POINTS) ELSE 0)

total_fee_bps(creator) ==
    LP_FEE_BASIS_POINTS + PROTOCOL_FEE_BASIS_POINTS
        + (IF creator THEN COIN_CREATOR_FEE_BASIS_POINTS ELSE 0)

buy_base_input_internal(base, slippage, p, creator) ==
    IF Drained(p) \/ base >= p.base
    THEN Err
    ELSE LET quote_amount_in == ceil_div(p.quote * base, p.base - base) % U64
             total == (quote_amount_in + pumpswap_fees(quote_amount_in, creator)) % U64
         IN  [ok |-> TRUE, internal |-> quote_amount_in, ui_quote |-> total,
              max_quote |-> calculate_with_slippage_buy(total, slippage)]

(* Fault: the fee is taken from the amount instead of being added to it.     *)
effective_quote_without_fee(quote, creator) == quote

effective_quote(quote, creator) ==
    (quote * MAX_FEE_BASIS_POINTS) \div (MAX_FEE_BASIS_POINTS + total_fee_bps(creator))

buy_quote_input_internal(quote, slippage, p, creator) ==
    IF Drained(p)
    THEN Err
    ELSE LET effective == effective_quote(quote, creator)
         IN  [ok |-> TRUE, internal |-> effective,
              base |-> (p.base * effective) \div (p.quote + effective),
              max_quote |-> calculate_with_slippage_buy(quote, slippage)]

(* Fault: the amount coming in is not added to the reserve.                  *)
sell_base_input_spot(base, slippage, p, creator) ==
    LET quote_amount_out == (p.quote * base) \div p.base
        total_fees == pumpswap_fees(quote_amount_out, creator)
    IN  IF Drained(p) \/ total_fees > quote_amount_out
        THEN Err
        ELSE [ok |-> TRUE, internal |-> quote_amount_out,
              ui_quote |-> quote_amount_out - total_fees,
              min_quote |-> calculate_with_slippage_sell(quote_amount_out - total_fees, slippage)]

sell_base_input_internal(base, slippage, p, creator) ==
    LET quote_amount_out == (p.quote * base) \div (p.base + base)
        total_fees == pumpswap_fees(quote_amount_out, creator)
    IN  IF Drained(p) \/ total_fees > quote_amount_out
        THEN Err
        ELSE [ok |-> TRUE, internal |-> quote_amount_out,
              ui_quote |-> quote_amount_out - total_fees,
              min_quote |-> calculate_with_slippage_sell(quote_amount_out - total_fees, slippage)]

calculate_quote_amount_out(quote, creator) ==
    ceil_div(quote * MAX_FEE_BASIS_POINTS, MAX_FEE_BASIS_POINTS - total_fee_bps(creator)) % U64

sell_quote_input_internal(quote, slippage, p, creator) ==
    LET raw_quote == calculate_quote_amount_out(quote, creator)
    IN  IF Drained(p) \/ quote > p.quote \/ raw_quote >= p.quote
        THEN Err
        ELSE [ok |-> TRUE, internal |-> raw_quote,
              base |-> ceil_div(p.base * raw_quote, p.quote - raw_quote) % U64,
              min_quote |-> calculate_with_slippage_sell(quote, slippage)]
=============================================================================

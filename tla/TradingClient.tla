---------------------------- MODULE TradingClient ----------------------------
(***************************************************************************)
(* The operations of TradingClient and PumpTradeClient (lib.rs) and of      *)
(* trading/common/utils.rs on one wallet.  An operation builds a             *)
(* transaction from what it reads and sends it; several may be on their way  *)
(* and each lands on the wallet as it then is, or fails, or is lost.         *)
(* How a trade is sent is in Swap and ExecuteParallel.                       *)
(***************************************************************************)
EXTENDS Instructions

CONSTANTS
    InitWallets,
    Markets,               \* PumpFunMarket, PumpSwapMarket
    BuyRequests,           \* what a caller may ask for besides amount, slippage
    SellRequests,          \*   and market
    InputAmounts, SlippagePoints, Percents,
    MaxOps,                \* bound on the operations
    MaxPending             \* bound on the transactions on their way

(* Amounts and reserves are u64, and a curve that has virtual tokens has      *)
(* virtual SOL.                                                              *)
Quantities == 0..(U64 - 1)
ASSUME AmountsAssumption == InputAmounts \subseteq Quantities /\ SlippagePoints \subseteq Nat /\ Percents \subseteq Nat
ASSUME BoundsAssumption == MaxOps \in Nat /\ MaxPending \in Nat
ASSUME MarketsAssumption ==
    Markets \subseteq
        [kind : {"PumpFun"}, creator : BOOLEAN, close_when_sell : BOOLEAN,
         curve : {c \in [vt : Quantities, vs : Quantities, rt : Quantities, rs : Quantities] : c.vt > 0 => c.vs > 0}]
        \cup [kind : {"PumpSwap"}, base : Mints, quote : Mints, creator : BOOLEAN,
              pool : [base : Quantities, quote : Quantities]]
ASSUME RequestsAssumption ==
    LET Fixed == Quantities \cup {NoFixed}
    IN  /\ BuyRequests \subseteq
              [dex : STRING, token : STRING, create_in : BOOLEAN, close_in : BOOLEAN,
               create_mint : BOOLEAN, fixed : Fixed, exact : BOOLEAN]
        /\ SellRequests \subseteq
              [dex : STRING, token : STRING, create_out : BOOLEAN, close_out : BOOLEAN,
               close_mint : BOOLEAN, fixed : Fixed]
ASSUME WalletsAssumption == \A w \in InitWallets : w \in Wallets /\ ClosedAreEmpty(w) /\ Backed(w)

VARIABLES
    use_seed_optimize,
    wallet,
    pending,
    ops

vars == <<use_seed_optimize, wallet, pending, ops>>

-----------------------------------------------------------------------------
(* TradeBuyParams and TradeSellParams as the requests of PumpTradeClient     *)
(* give them; the caller may change every field.                             *)
TradeBuyParams(dex, token) ==
    [dex |-> dex, token |-> token, create_in |-> FALSE, close_in |-> FALSE,
     create_mint |-> TRUE, fixed |-> NoFixed, exact |-> TRUE]

TradeSellParams(dex, token) ==
    [dex |-> dex, token |-> token, create_out |-> FALSE, close_out |-> FALSE,
     close_mint |-> TRUE, fixed |-> NoFixed]

PumpFunBuyRequest == TradeBuyParams("PumpFun", "SOL")
PumpFunSellRequest == TradeSellParams("PumpFun", "SOL")
PumpSwapBuyRequest(input_token_type) == TradeBuyParams("PumpSwap", input_token_type)
PumpSwapSellRequest(output_token_type) == TradeSellParams("PumpSwap", output_token_type)

(* PumpFunParams::immediate_sell: a market whose reserves are not known.     *)
immediate_sell(close_when_sell) ==
    [kind |-> "PumpFun", curve |-> [vt |-> 0, vs |-> 0, rt |-> 0, rs |-> 0],
     creator |-> FALSE, close_when_sell |-> close_when_sell]

validate_protocol_params(dex_type, params) == dex_type = params.kind

buy_params(r, amount, slippage, market) ==
    [amount |-> amount, slippage |-> slippage, market |-> market, use_seed |-> use_seed_optimize,
     create_in |-> r.create_in, close_in |-> r.close_in,
     create_out |-> r.create_mint, close_out |-> FALSE, fixed |-> r.fixed, exact |-> r.exact]

sell_params(r, amount, slippage, market) ==
    [amount |-> amount, slippage |-> slippage, market |-> market, use_seed |-> use_seed_optimize,
     create_in |-> FALSE, close_in |-> r.close_mint,
     create_out |-> r.create_out, close_out |-> r.close_out, fixed |-> r.fixed, exact |-> TRUE]

(* The builder TradeFactory::create_executor gives the executor.             *)
build_buy_instructions(s) == IF s.market.kind = "PumpFun" THEN pumpfun_buy(s) ELSE pumpswap_buy(s)
build_sell_instructions(s) == IF s.market.kind = "PumpFun" THEN pumpfun_sell(s) ELSE pumpswap_sell(s)

-----------------------------------------------------------------------------
Init ==
    /\ use_seed_optimize \in BOOLEAN
    /\ wallet \in InitWallets
    /\ pending = {}
    /\ ops = 0

(* A refused request leaves everything as it is.                             *)
SendAs(op, s, asked, instructions) ==
    /\ instructions # Rejected
    /\ ops < MaxOps /\ Cardinality(pending) < MaxPending
    /\ pending' = pending \cup {[id |-> ops, op |-> op, s |-> s, asked |-> asked, ins |-> instructions]}
    /\ ops' = ops + 1
    /\ UNCHANGED <<use_seed_optimize, wallet>>

Send(op, s, instructions) == SendAs(op, s, [percent |-> 0, held |-> 0], instructions)

buy(r, amount, slippage, market) ==
    /\ r.token # "USD1"
    /\ validate_protocol_params(r.dex, market)
    /\ LET s == buy_params(r, amount, slippage, market)
       IN  Send("buy", s, build_buy_instructions(s))

sell(r, amount, slippage, market) ==
    /\ r.token # "USD1"
    /\ validate_protocol_params(r.dex, market)
    /\ LET s == sell_params(r, amount, slippage, market)
       IN  Send("sell", s, build_sell_instructions(s))

(* What the caller gives as amount_token: pumpfun_token_balance.             *)
pumpfun_token_account == token_address("TOK", use_seed_optimize)
pumpfun_token_balance == wallet.acc[pumpfun_token_account].amt

(* Fault: the division comes first.                                          *)
percent_amount_truncated(amount_token, percent) == (amount_token \div 100) * percent

percent_amount(amount_token, percent) == ((amount_token * percent) % U64) \div 100

sell_by_percent(r, percent, slippage, market) ==
    /\ percent \in 1..100
    /\ wallet.acc[pumpfun_token_account].open
    /\ r.token # "USD1"
    /\ validate_protocol_params(r.dex, market)
    /\ LET amount == percent_amount(pumpfun_token_balance, percent)
           s == sell_params(r, amount, slippage, market)
       IN  SendAs("sell_by_percent", s, [percent |-> percent, held |-> pumpfun_token_balance],
                  build_sell_instructions(s))

wrap_sol_to_wsol(amount) == Send("wrap", [amount |-> amount], handle_wsol(amount))
CloseWsol == Send("close_wsol", [amount |-> 0], close_wsol)
CreateWsolAta == Send("create_wsol", [amount |-> 0], create_wsol_ata)

(* get_account also fails when the RPC does.                                 *)
wrap_wsol_to_sol(amount) ==
    \E account_exists \in {FALSE, wallet.acc[seed_ata_address].open} :
        Send("unwrap", [amount |-> amount],
             IF account_exists
             THEN wrap_wsol_to_sol_without_create(amount)
             ELSE wrap_wsol_to_sol_internal(amount))

claim_cashback_pumpfun == Send("claim", [amount |-> 0], <<Cashback(Sol)>>)
claim_cashback_pumpswap ==
    Send("claim", [amount |-> 0],
         create_token_account("WSOL", use_seed_optimize) \o <<Cashback(wsol_token_account)>>)

transfer_sol(amount) ==
    /\ amount # 0
    /\ wallet.sol >= amount
    /\ Send("transfer_sol", [amount |-> amount], <<PayOut(amount)>>)

(* The account at the associated address, whatever use_seed_optimize says.   *)
close_token_account(mint) ==
    /\ wallet.acc[<<mint, "ata">>].open
    /\ Send("close_token_account", [amount |-> 0], <<CloseAccount(<<mint, "ata">>)>>)

-----------------------------------------------------------------------------
(* The chain.                                                                *)
Land(t) ==
    /\ wallet' \in Outcomes(wallet, t.ins)
    /\ pending' = pending \ {t}
    /\ UNCHANGED <<use_seed_optimize, ops>>

Lose(t) ==
    /\ pending' = pending \ {t}
    /\ UNCHANGED <<use_seed_optimize, wallet, ops>>

Trade ==
    \E slippage \in SlippagePoints, market \in Markets :
        \/ \E r \in BuyRequests, amount \in InputAmounts : buy(r, amount, slippage, market)
        \/ \E r \in SellRequests :
              \/ \E amount \in InputAmounts : sell(r, amount, slippage, market)
              \/ \E percent \in Percents : sell_by_percent(r, percent, slippage, market)

Manage ==
    \/ \E amount \in InputAmounts :
          wrap_sol_to_wsol(amount) \/ wrap_wsol_to_sol(amount) \/ transfer_sol(amount)
    \/ CloseWsol \/ CreateWsolAta
    \/ claim_cashback_pumpfun \/ claim_cashback_pumpswap
    \/ \E mint \in Mints : close_token_account(mint)

Next ==
    \/ Trade
    \/ Manage
    \/ \E t \in pending : Land(t) \/ Lose(t)

Spec == Init /\ [][Next]_vars

-----------------------------------------------------------------------------
(* Every balance is a natural number and a closed account is empty; what is  *)
(* on its way was numbered by an operation.                                  *)
TypeOK ==
    /\ use_seed_optimize \in BOOLEAN
    /\ wallet \in Wallets /\ ClosedAreEmpty(wallet)
    /\ ops \in 0..MaxOps
    /\ Cardinality(pending) <= MaxPending
    /\ \A t, u \in pending : t.id < ops /\ (t.id = u.id => t = u)

(* No path that puts lamports into a WSOL account forgets to synchronise it. *)
WsolBacked == Backed(wallet)

(* sell_by_percent sells that percentage of the balance read, rounded down,  *)
(* and never more than the balance, while the product fits in a u64.         *)
PercentIsKept ==
    \A t \in pending :
        LET product == t.asked.percent * t.asked.held
        IN  t.op = "sell_by_percent" /\ product < U64 =>
                100 * t.s.amount \in (product - 99)..product /\ t.s.amount <= t.asked.held

-----------------------------------------------------------------------------
(* The currency of a market and what a wallet has of it.                     *)
Currency(m) == IF m.kind = "PumpFun" THEN "WSOL" ELSE CHOOSE c \in {m.base, m.quote} : c # "TOK"
Worth(w, c) == IF c = "WSOL" THEN Lamports(w) ELSE Units(w, c)
Reversed(m) == m.kind = "PumpSwap" /\ m.quote = "TOK"

(* Tokens a buy was quoted, currency a sale was quoted.                      *)
QuotedTokens(s) ==
    IF s.fixed # NoFixed
    THEN s.fixed
    ELSE CASE s.market.kind = "PumpFun" ->
                get_buy_token_amount_from_sol_amount(s.market.curve, s.market.creator, s.amount)
           [] Reversed(s.market) ->
                sell_base_input_internal(s.amount, s.slippage, s.market.pool, s.market.creator).ui_quote
           [] OTHER ->
                buy_quote_input_internal(s.amount, s.slippage, s.market.pool, s.market.creator).base

QuotedProceeds(s) ==
    IF s.fixed # NoFixed
    THEN s.fixed
    ELSE CASE s.market.kind = "PumpFun" ->
                get_sell_sol_amount_from_token_amount(s.market.curve, s.market.creator, s.amount)
           [] Reversed(s.market) ->
                buy_quote_input_internal(s.amount, s.slippage, s.market.pool, s.market.creator).base
           [] OTHER ->
                sell_base_input_internal(s.amount, s.slippage, s.market.pool, s.market.creator).ui_quote

WithSlippage(amount, s) == amount * (MAX_FEE_BASIS_POINTS + s.slippage)
LessSlippage(amount, s) == amount * (MAX_FEE_BASIS_POINTS - s.slippage)

(* What left the pending transactions by landing.                            *)
Landed == IF wallet' = wallet THEN {} ELSE pending \ pending'

(* A buy costs at most its amount (with slippage if the caller asked for a   *)
(* regular buy), in the currency of its market and no other, and brings at   *)
(* least the quoted tokens less slippage.                                    *)
BuyWithinLimits(s, w, v) ==
    LET c == Currency(s.market)
        spent == Worth(w, c) - Worth(v, c)
    IN  /\ IF s.exact \/ Reversed(s.market)
           THEN spent <= s.amount
           ELSE spent * MAX_FEE_BASIS_POINTS <= WithSlippage(s.amount, s)
        /\ \A other \in Mints \ {c, "TOK"} : Worth(v, other) = Worth(w, other)
        /\ (Units(v, "TOK") - Units(w, "TOK")) * MAX_FEE_BASIS_POINTS >= LessSlippage(QuotedTokens(s), s)

(* Every buy keeps these limits, whatever landed after it was sent.          *)
BuyCostIsBounded == [][\A t \in Landed : t.op = "buy" => BuyWithinLimits(t.s, wallet, wallet')]_vars

(* A sale brings at least the quoted proceeds less slippage, and takes       *)
(* exactly its amount of tokens.  A reversed pool is left out of the second:  *)
(* there it may take more, as SellsWhatIsAsked says.                         *)
SellWithinLimits(s, w, v) ==
    LET c == Currency(s.market)
        sold == Units(w, "TOK") - Units(v, "TOK")
    IN  /\ ~Reversed(s.market) => sold = s.amount
        /\ (Worth(v, c) - Worth(w, c)) * MAX_FEE_BASIS_POINTS >= LessSlippage(QuotedProceeds(s), s)

(* Every sale keeps these limits, whatever landed after it was sent.         *)
SellKeepsItsLimits ==
    [][\A t \in Landed :
          t.op \in {"sell", "sell_by_percent"} => SellWithinLimits(t.s, wallet, wallet')]_vars

(* input_token_amount is the "Amount of tokens to sell" (lib.rs): a sale that *)
(* lands takes no more, in whatever pool.  False: in a reversed pool          *)
(* build_sell_instructions has the program's buy take up to max_quote, the    *)
(* amount and the slippage, and a pool that has moved takes it.               *)
SellsWhatIsAsked ==
    [][\A t \in Landed :
          t.op \in {"sell", "sell_by_percent"} =>
             Units(wallet, "TOK") - Units(wallet', "TOK") <= t.s.amount]_vars

(* Wrapping and unwrapping move exactly their amount between the wallet and  *)
(* the WSOL account and lose nothing; closing the account returns all of it; *)
(* nothing but a buy or a transfer ever lowers what the wallet has in SOL.   *)
WsolExact(t, w, v) ==
    LET wrapped(x) == x.acc[wsol_token_account].amt
    IN  /\ t.op = "wrap" => wrapped(v) = wrapped(w) + t.s.amount
        /\ t.op = "unwrap" => wrapped(v) = wrapped(w) - t.s.amount /\ v.sol >= w.sol + t.s.amount
        /\ t.op \in {"wrap", "unwrap", "close_wsol", "create_wsol", "close_token_account"} =>
              Lamports(v) = Lamports(w)
        /\ t.op \notin {"buy", "transfer_sol"} => Lamports(v) >= Lamports(w)

(* Every operation keeps to this.                                            *)
(* wrap_wsol_to_sol decides with an answer that may be outdated or false     *)
(* whether its temporary account has to be created, and never leaves it open.*)
WsolOpsAreExact ==
    [][/\ wallet'.acc[seed_ata_address].open =>
             wallet.acc[seed_ata_address].open /\ \A t \in Landed : t.op # "unwrap"
       /\ \A t \in Landed : WsolExact(t, wallet, wallet')]_vars

(* A trade against SOL whose wallet has what it needs: SOL for the limit,    *)
(* unless that wrapped below the amount, and the rents; all tokens of a sale *)
(* that closes the account.                                                  *)
Funded(t) ==
    LET token == wallet.acc[token_address("TOK", use_seed_optimize)]
        limit == calculate_with_slippage_buy(t.s.amount, t.s.slippage)
    IN  /\ t.op \in {"buy", "sell", "sell_by_percent"}
        /\ Currency(t.s.market) = "WSOL" /\ ~Reversed(t.s.market)
        /\ IF t.op = "buy"
           THEN /\ t.s.create_out
                /\ t.s.market.kind = "PumpFun" \/ t.s.create_in
                /\ limit >= t.s.amount /\ wallet.sol >= limit + 2 * Rent
           ELSE /\ token.open
                /\ IF t.s.close_in \/ (t.s.market.kind = "PumpFun" /\ t.s.market.close_when_sell)
                   THEN token.amt = t.s.amount
                   ELSE token.amt >= t.s.amount
                /\ t.s.market.kind = "PumpFun" \/ t.s.create_out
                /\ wallet.sol >= Rent

CanLand(t) == Outcomes(wallet, t.ins) # {}

(* With seeds, a buy creates an account that is open already.                *)
Recreates(t) ==
    t.op = "buy" /\ use_seed_optimize /\ wallet.acc[token_address("TOK", use_seed_optimize)].open

(* A request of PumpTradeClient that only says which accounts to create can  *)
(* land as long as it is funded and, with seeds, there is no account yet      *)
(* where a buy creates one.                                                  *)
DefaultTradesLand == \A t \in pending : Funded(t) /\ ~Recreates(t) => CanLand(t)

(* A buy creates the account of its token with                               *)
(* create_associated_token_account_idempotent_fast_use_seed (fast_fn.rs): an *)
(* account that an earlier buy has opened is no obstacle to the next one.     *)
(* False: with seeds the creation is create_account_with_seed, which fails.   *)
CreationIsIdempotent == \A t \in pending : Funded(t) /\ Recreates(t) => CanLand(t)

(* Whatever lands in whatever order, wrapped lamports are backed, and a      *)
(* percentage was taken of the balance that was read.                        *)
WalletIsSound == TypeOK /\ WsolBacked /\ PercentIsKept
=============================================================================

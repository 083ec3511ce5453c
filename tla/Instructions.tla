---------------------------- MODULE Instructions ----------------------------
(***************************************************************************)
(* The instruction lists the SDK builds: the WSOL helpers                    *)
(* (trading/common/wsol_manager.rs), the token account addresses and         *)
(* creations (common/fast_fn.rs, common/seed.rs) and the builders of         *)
(* instruction/pumpfun.rs and instruction/pumpswap.rs.  s stands for         *)
(* SwapParams, s.market for its protocol_params.  Accounts that do not       *)
(* belong to the payer, and the two token programs, are left out.            *)
(***************************************************************************)
EXTENDS Amounts, Wallet

NoFixed == -1                     \* fixed_output_amount = None
Rejected == << >>                 \* Err, or a panic of an unwrap; no list is empty
Opt(b, instructions) == IF b THEN instructions ELSE << >>

(* Fault: the mints that are kept off the seed scheme are forgotten.         *)
seed_address_always(mint, use_seed) == <<mint, IF use_seed THEN "seed" ELSE "ata">>

(* get_associated_token_address_with_program_id_fast_use_seed.               *)
token_address(mint, use_seed) == <<mint, IF use_seed /\ mint # "WSOL" THEN "seed" ELSE "ata">>

(* create_associated_token_account_idempotent_fast_use_seed, idempotent only *)
(* without seed.                                                             *)
create_token_account(mint, use_seed) ==
    <<IF token_address(mint, use_seed)[2] = "seed" THEN CreateWithSeed(mint) ELSE CreateAta(mint)>>

-----------------------------------------------------------------------------
wsol_token_account == <<"WSOL", "ata">>
seed_ata_address == <<"WSOL", "seed">>

(* Fault: the account is taken to exist.                                     *)
handle_wsol_transfer_only(amount) == <<SystemTransfer(wsol_token_account, amount)>>

(* Fault: the account is not synchronised.                                   *)
handle_wsol_unsynced(amount) ==
    <<CreateAta("WSOL"), SystemTransfer(wsol_token_account, amount)>>

handle_wsol(amount) ==
    <<CreateAta("WSOL"), SystemTransfer(wsol_token_account, amount), SyncNative(wsol_token_account)>>

close_wsol == <<CloseAccount(wsol_token_account)>>
create_wsol_ata == <<CreateAta("WSOL")>>

(* Fault: the wrong account is closed.                                       *)
unwrap_closes_ata(amount) ==
    <<TokenTransfer(wsol_token_account, seed_ata_address, amount), CloseAccount(wsol_token_account)>>

(* Fault: the temporary account stays open.                                  *)
unwrap_left_open(amount) == <<TokenTransfer(wsol_token_account, seed_ata_address, amount)>>

wrap_wsol_to_sol_without_create(amount) ==
    <<TokenTransfer(wsol_token_account, seed_ata_address, amount), CloseAccount(seed_ata_address)>>

wrap_wsol_to_sol_internal(amount) ==
    <<CreateWithSeed("WSOL")>> \o wrap_wsol_to_sol_without_create(amount)

-----------------------------------------------------------------------------
(* PumpFunInstructionBuilder.                                                *)
(* Fault: a regular buy is limited by twice the slippage.                    *)
pumpfun_buy_wide(s) ==
    IF s.amount = 0
    THEN Rejected
    ELSE Opt(s.create_out, create_token_account("TOK", s.use_seed))
         \o <<SwapUpTo(Sol, calculate_with_slippage_buy(s.amount, 2 * s.slippage),
                       token_address("TOK", s.use_seed),
                       get_buy_token_amount_from_sol_amount(s.market.curve, s.market.creator, s.amount))>>

pumpfun_buy(s) ==
    IF s.amount = 0
    THEN Rejected
    ELSE LET user_token_account == token_address("TOK", s.use_seed)
             buy_token_amount ==
                 IF s.fixed # NoFixed THEN s.fixed
                 ELSE get_buy_token_amount_from_sol_amount(s.market.curve, s.market.creator, s.amount)
         IN  Opt(s.create_out, create_token_account("TOK", s.use_seed))
             \o <<IF s.exact
                  THEN SwapExact(Sol, s.amount, user_token_account,
                                 calculate_with_slippage_sell(buy_token_amount, s.slippage))
                  ELSE SwapUpTo(Sol, calculate_with_slippage_buy(s.amount, s.slippage),
                                user_token_account, buy_token_amount)>>

(* Fault: the sale has no minimum.                                           *)
pumpfun_sell_unlimited(s) ==
    IF s.amount = 0
    THEN Rejected
    ELSE <<SwapExact(token_address("TOK", s.use_seed), s.amount, Sol, 1)>>

pumpfun_sell(s) ==
    IF s.amount = 0
    THEN Rejected
    ELSE LET user_token_account == token_address("TOK", s.use_seed)
             sol_amount == get_sell_sol_amount_from_token_amount(s.market.curve, s.market.creator, s.amount)
             min_sol_output == IF s.fixed # NoFixed THEN s.fixed
                               ELSE calculate_with_slippage_sell(sol_amount, s.slippage)
         IN  <<SwapExact(user_token_account, s.amount, Sol, min_sol_output)>>
             \o Opt(s.market.close_when_sell \/ s.close_in, <<CloseAccount(user_token_account)>>)

-----------------------------------------------------------------------------
(* PumpSwapInstructionBuilder.  A pool is reversed when the token is its     *)
(* quote mint; a pool of WSOL against USDC is refused.                       *)
Currencies == {"WSOL", "USDC"}
quote_is_wsol_or_usdc(m) == m.quote \in Currencies
pool_accepted(m) == (m.base \in Currencies) # (m.quote \in Currencies)

(* The tokens a buy brings and what it may spend.                            *)
pumpswap_buy_amounts(s) ==
    LET m == s.market
        result == IF quote_is_wsol_or_usdc(m)
                  THEN buy_quote_input_internal(s.amount, s.slippage, m.pool, m.creator)
                  ELSE sell_base_input_internal(s.amount, s.slippage, m.pool, m.creator)
        token_amount == IF quote_is_wsol_or_usdc(m) THEN result.base ELSE result.min_quote
    IN  IF result.ok
        THEN [ok |-> TRUE, token_amount |-> IF s.fixed # NoFixed THEN s.fixed ELSE token_amount,
              sol_amount |-> IF quote_is_wsol_or_usdc(m) THEN result.max_quote ELSE s.amount]
        ELSE Err

(* buy_exact_quote_in or buy; in a reversed pool the program's sell.         *)
pumpswap_buy_instruction(s, token_amount, sol_amount) ==
    LET user_base_token_account == token_address(s.market.base, s.use_seed)
        user_quote_token_account == token_address(s.market.quote, s.use_seed)
    IN  CASE ~quote_is_wsol_or_usdc(s.market) ->
               SwapExact(user_base_token_account, sol_amount, user_quote_token_account, token_amount)
          [] quote_is_wsol_or_usdc(s.market) /\ s.exact ->
               SwapExact(user_quote_token_account, s.amount, user_base_token_account,
                         calculate_with_slippage_sell(token_amount, s.slippage))
          [] OTHER ->
               SwapUpTo(user_quote_token_account, sol_amount, user_base_token_account, token_amount)

pumpswap_buy(s) ==
    LET amounts == pumpswap_buy_amounts(s)
    IN  IF s.amount = 0 \/ ~pool_accepted(s.market) \/ ~amounts.ok
        THEN Rejected
        ELSE Opt(s.create_in, handle_wsol(amounts.sol_amount))
             \o Opt(s.create_out, create_token_account("TOK", s.use_seed))
             \o <<pumpswap_buy_instruction(s, amounts.token_amount, amounts.sol_amount)>>
             \o Opt(s.close_in, close_wsol)

(* The tokens a sale may take and what it brings.                            *)
pumpswap_sell_amounts(s) ==
    LET m == s.market
        result == IF quote_is_wsol_or_usdc(m)
                  THEN sell_base_input_internal(s.amount, s.slippage, m.pool, m.creator)
                  ELSE buy_quote_input_internal(s.amount, s.slippage, m.pool, m.creator)
        sol_amount == IF quote_is_wsol_or_usdc(m) THEN result.min_quote ELSE result.base
    IN  IF result.ok
        THEN [ok |-> TRUE, sol_amount |-> IF s.fixed # NoFixed THEN s.fixed ELSE sol_amount,
              token_amount |-> IF quote_is_wsol_or_usdc(m) THEN s.amount ELSE result.max_quote]
        ELSE Err

pumpswap_sell_instruction(s, token_amount, sol_amount) ==
    LET user_base_token_account == token_address(s.market.base, s.use_seed)
        user_quote_token_account == token_address(s.market.quote, s.use_seed)
    IN  IF quote_is_wsol_or_usdc(s.market)
        THEN SwapExact(user_base_token_account, token_amount, user_quote_token_account, sol_amount)
        ELSE SwapUpTo(user_quote_token_account, token_amount, user_base_token_account, sol_amount)

pumpswap_sell(s) ==
    LET amounts == pumpswap_sell_amounts(s)
    IN  IF ~pool_accepted(s.market) \/ ~amounts.ok
        THEN Rejected
        ELSE Opt(s.create_out, create_wsol_ata)
             \o <<pumpswap_sell_instruction(s, amounts.token_amount, amounts.sol_amount)>>
             \o Opt(s.close_out, close_wsol)
             \o Opt(s.close_in, <<CloseAccount(token_address("TOK", s.use_seed))>>)
=============================================================================

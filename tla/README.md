# Verification of the Pump trade SDK

The repository is a Rust SDK (`src/src/`) that trades Pump.fun and PumpSwap
tokens on Solana. A trade is turned into instructions, signed once per (service,
fee strategy) pair, handed to several transaction-landing services ("SWQOS") at
the same time, and optionally confirmed over RPC. The SDK has no tests of its own
for this machinery: concurrency, time-outs, shared pools and caches, and amounts that
are computed from reserves other people move. This
directory models it in TLA+, checks it with TLC and proves its safety with TLAPS: every
safety property of the passing runs is also a theorem.

Everything below names lines as `file:line` relative to `src/src/`.

## 1. Inventory

| Part | State it keeps | Operations | Interacts with |
|---|---|---|---|
| Parallel submission (`trading/core/async_executor.rs`) | one `ResultCollector` per call: bounded queue, two flags, a counter | `execute_parallel`, `submit`, `wait_for_success`, `wait_for_all_submitted`, `get_first` | fee table, SWQOS clients, transaction builder; called by the swap executor |
| Confirmation (`swqos/common.rs`) | poll counter, first signature seen | `poll_any_transaction_confirmation` | RPC node, cluster |
| Swap executor (`trading/core/executor.rs`) | none beyond the call | `swap`, `simulate_transaction` | submission, then confirmation |
| Fee strategies (`common/gas_fee_strategy.rs`) | one `ArcSwap` table shared by all clones | `set*`, `del*`, `clear`, `update_*`, `get_strategies` | read by submission and simulation |
| Keep-alive of HTTP clients (`swqos/node1.rs`, `temporal.rs`, `blockrazor.rs`, `astralane.rs`, `stellium.rs`) | stop flag and task handle shared by all clones | `new`, `start_ping_task`, `Drop` | tokio runtime |
| QUIC clients (`swqos/soyas.rs`, `speedlanding.rs`) | shared connection, reconnection mutex | `send_transaction`, `reconnect` | peer, confirmation |
| WSOL set-up (`lib.rs`, `ensure_wsol_ata`) | none; the account is on chain | up to three creations, each with a time limit | RPC node, other clients of the wallet |
| HTTP clients (`swqos/jito.rs` and ten more) | HTTP connection pool | `send_transaction` | server, confirmation |
| Trading client (`lib.rs`) | shared infrastructure, SWQOS clients, switches, the global instance | `new`, `from_infrastructure*`, `buy`, `sell`, `sell_by_percent`, WSOL operations | everything above |
| SWQOS client factory (`swqos/mod.rs`) | blacklist, endpoint tables | `get_swqos_client`, `get_endpoint` | start-up |
| Instruction builders (`instruction/`, `trading/common/wsol_manager.rs`) | none | buy / sell / WSOL instruction lists | arithmetic, caches |
| Arithmetic (`utils/calc`, `common/bonding_curve.rs`, `common/global.rs`) | none | integer quotes and limits | instruction builders |
| Market views (`trading/core/params.rs`, `instruction/utils/`) | a copy of the reserves | from an event, from a developer's trade, by RPC | arithmetic |
| Transaction builder, nonce helper, middleware (`trading/common`, `trading/middleware`) | budget cache, pool of 1000 builders | `build_transaction`, `acquire_builder`, `release_builder` | called by every task |
| Serialization (`swqos/serialization.rs`) | pool of 10 000 buffers | serialize, return | SWQOS clients |
| Caches (`common/fast_fn.rs`, `common/seed.rs`) | instruction, PDA and address caches; two rents | get-or-compute, `update_rents`, `start_rent_updater` | instruction builders |
| `perf/` | ring buffer, shared memory pool, batch queue | push / pop, allocate / free | a trade uses its hints only; four of its files are not compiled |
| Bot (`main.rs`) | application state | its strategy is in a crate outside the repository | SDK |

What is hard here, and what each part has to get right:

* **Submission.** Results cross from the tasks to the caller through four separate
  atomic objects. No result may get lost, the flags may not run ahead of the
  queue, the early exit must be right about the other channels, and the call must
  return although tasks panic or hang.
* **Confirmation.** Status and details come from two RPC calls at two times, and
  the block of the first may be abandoned before the second. Ok must mean
  confirmed; a trade error must be final.
* **Swap.** Tasks outlive the submit phase and transactions outlive the call. The
  answer must agree with the chain, and a buy must not be executed twice.
* **Fee table.** Each operation is several atomic steps; readers and writers come
  in between.
* **Keep-alive, QUIC, WSOL.** Shared flags with `Drop`, a `try_lock` around a
  handshake, time-outs that race late transactions.
* **Start-up.** RPC calls may fail at every point of it; a background task and two
  hourly updaters share state with the clients. What is published must be complete.
* **Trades and amounts.** Limits are computed from a view that is stale or torn, in
  integers that round, and are executed on a wallet that other operations change.
* **Building.** Every task builds and serializes with shared caches and pools of
  memory; what it signs and sends must be its own.

`PROJECT.json` lists the hazards line by line, with the properties that cover them.

## 2. Modules

| Module | Models | Uses |
|---|---|---|
| `ResultExchange` | abstract promise of `execute_parallel`: tasks report once, one answer, justified by reports | |
| `ExecuteParallel` | `execute_parallel` from its nonce guard on, `ResultCollector` | refines `ResultExchange` |
| `ExecuteParallelProofs` | theorems about it | extends it |
| `GasFeeStrategy` | the fee table | |
| `FeeRaces` | which writers of the table got in each other's way (history variables) | extends `GasFeeStrategy` |
| `TaskPlan` | `execute_parallel` up to its nonce guard | extends `FeeRaces` |
| `Confirmation` | `poll_any_transaction_confirmation` and the cluster | |
| `ConfirmationProofs` | theorems about it | extends it |
| `SwqosSend` | `send_transaction`, `send_transactions` of thirteen clients | extends `Confirmation` |
| `Swap` | `GenericTradeExecutor::swap` | instances of `ExecuteParallel` and `Confirmation` |
| `SwapProofs` | theorems about it | extends it; instances of the two proof modules |
| `KeepAlive` | ping task of Node1, Temporal, BlockRazor, Astralane | |
| `StelliumKeepAlive` | ping task of Stellium, which has one flag and no handle | |
| `QuicReconnect` | Soyas and Speedlanding | |
| `SwqosProofs` | theorems about `SwqosSend` and `QuicReconnect` | extends both and `ConfirmationProofs` |
| `WsolSetup` | `ensure_wsol_ata` | |
| `Startup` | constructors, rent cache, client factory | extends `WsolSetup` |
| `ConfigProofs` | theorems about `GasFeeStrategy`, `FeeRaces`, `TaskPlan` and `Startup` | extends `TaskPlan`, `Startup`, `Loops` |
| `Amounts` | the integer formulas of quotes and limits | |
| `Market` | reserves that move, and the client's views of them | extends `Amounts` |
| `Wallet` | the payer's accounts, and what instructions do to them (external) | |
| `Instructions` | the instruction lists the SDK builds | extends `Amounts`, `Wallet` |
| `TradingClient` | the operations of a client on a wallet | extends `Instructions` |
| `TxBuilder` | tasks that build, sign and serialize at once | |
| `TxBuilderProofs` | theorems about it | extends it and `Loops` |
| `TradeProofs` | theorems about `TradingClient` and `Market` | extends both and `Loops` |
| `Loops` | induction over the rounds of a loop, for the proofs | |
| `MC*` | instances for TLC | |

A definition whose comment begins with "Fault:" is a deliberately wrong variant
of the definition after it; it is used only to show that a property can fail, and
no specification refers to it.

### ExecuteParallel

A step is one atomic access of the code. `submit` (`async_executor.rs:73`) is
`SubmitPush`, `SubmitFlag`, `SubmitCount`; the caller reads `success_flag`
(`CheckSuccess`), `landed_failed_flag` (`CheckLanded`), `completed_count`
(`CheckCount`) and the clock (`TimeIsUp`, `Sleep`) in the order of the loop, and
each `pop` of a drain loop is a step (`Pop`). A drain loop ends with the code that
follows it (`EndSuccessDrain`, `EndLandedDrain`, `EndFinalDrain`). With
`wait = FALSE` the loop is `wait_for_all_submitted`, which only looks at the count.
A result is represented by its task; signatures in a return value likewise.

`outcome` is what `send_transaction` reports. When confirmation is asked for, Ok
and TradeErrors speak of landed transactions, and two transactions of one call that
advance the same durable nonce cannot both land: this is the only assumption
about the chain, and it is visible in `SendReports`. The SDK's executor always
passes `wait_transaction_confirmed = false`; the waiting mode is reached by direct
callers of `execute_parallel`.

### Confirmation and Swap

The cluster moves between any two RPC calls: a transaction is absent, processed
(with or without error), and then confirmed or abandoned with its block. `Statuses`
is one `get_signature_statuses` and the loop over its answer; `TransactionKnown` and
`TransactionUnknown` are `get_transaction_with_config` at commitment "confirmed".

`Swap` runs both over one cluster. `SubmitStep` and `ConfirmStep` are the swap's own
future; `TaskStep` are the spawned tasks, which go on after the swap has moved to
confirmation or has returned. A transaction can land from the moment its task may
have sent it.

### SwqosSend

The clients differ in which answers let a call go on (`Proceeds`): nine read the body
and go on whatever it says, two look at the status, Helius at both, the RPC client at
the result. The rest is common: the loop over a list, with `?` after each transaction,
and the poll of `Confirmation` for one signature. Jito and bloXroute post a list as one
bundle and do not confirm it (`Bundled`). A service may act on a request from the moment
it is posted, whatever it answers. `ReportsAreTrue` is what `ExecuteParallel` assumes in
`SendReports`.

### GasFeeStrategy, FeeRaces and TaskPlan

A public operation is a list of `set` / `del` / `del_all` calls for each service
type it visits; a call is one `rcu`, except `set`, which is one per entry it excludes
and one for its insertion (`stage`). `TaskPlan` loads the table once per client,
because the iterator chain in `async_executor.rs:228` is lazy, while writers run. Any
number of writers run at once: all clones of a strategy object share one table.
`FeeRaces` adds what has to be said about that: `touched[w]`, the services and trades
others have changed since `w`'s operation began, and `raced`, those that got an entry from
a writer under whom another one had changed them. No step depends on either.
A plan's `has_nonce` and number of tasks are what `ExecuteParallel!Start` checks.

### KeepAlive, StelliumKeepAlive, QuicReconnect

`KeepAlive` counts the instances the program holds; the starter task owns one more,
and every drop raises the shared flag and spawns a task that aborts the loop.
`QuicReconnect` numbers connections by the start of their handshakes. A call goes from
its stream, or its second stream, to `poll_transaction_confirmation` (`confirm`), whose
answer is the call's. `Bounded` are the steps that do not wait for the peer's goodwill,
`Stream` those that do.

### WsolSetup and Startup

`WsolSetup` is the retry loop of `ensure_wsol_ata`; it keeps the transactions that were
sent and may yet land, also those given up. `Startup` runs it for a client made by `new`,
which waits for it (`SetupDone`, `SetupPanics`), and for one made from a shared
infrastructure, whose constructor has returned by then. `updater` is the place of a
client's `update_rents`: awaited and unwrapped in the constructor, repeated by the
updater afterwards. The order of the constructor is `BeginNew`, the two rents,
`CreateClients`, `fast_init`, the account, `FinishNew`. `-1` stands for the `u64::MAX`
of a rent that is not known.

### Amounts and Market

`Amounts` has one operator per function of `utils/calc` and `BondingCurveAccount`, with
the roundings and the order of operations of the code; u64 results are taken modulo
`U64`. `Market` lets other traders move one curve and several pools while the client
obtains its view: in one piece (`from_trade`), reconstructed from a developer's first
buy (`from_dev_trade`), or by looking a pool up and reading its two reserves with two
calls (`find_by_base_mint`, ..., `read_base`, `read_quote`). The on-chain programs are
external; they are taken to charge what the SDK's own formulas say, to keep the LP fee in
the pool, and to refuse a trade whose reserves would leave the u64 range or whose price
is above the buyer's maximum. `view.at` and `view.max`, `reader.before` and
`reader.after` are history: the curve when the view was made, the developer's maximum,
and the pool at the two balance reads.

### Wallet, Instructions and TradingClient

An instruction maps a wallet to the set of wallets it can leave, the empty set being
failure (`Effects`), and a transaction is all or nothing (`Outcomes`). A swap takes and
brings any amounts its limits allow. `Instructions` builds the lists from `SwapParams`
(`pumpfun_buy`, `pumpswap_sell`, ...), `TradingClient` the `SwapParams` from a request.
An operation reads the wallet when it is called and sends a transaction that lands
later, in any order with others, or never. A refused request (`Rejected`) changes
nothing. Addresses are a mint and a scheme: associated, or `create_with_seed`, which
`use_seed_optimize` selects for all mints but WSOL.

### TxBuilder

Each task has one transaction to build. The lookups of `fast_fn.rs` and of the compute
budget are a read and, on a miss, a later insert; `get_cached_instructions` holds the
entry's lock and is one step. Builders and buffers are numbers into shared memory, so
that a builder given back too early would show another task's instructions. A buffer holds
a sequence of messages: what is serialized goes behind what `clear` leaves of what the
buffer held, zeroes or the message of the task that had it before. `pc` is the
place in `build_transaction` and in the client that serializes; the QUIC clients write
from the pooled buffer any number of times before the guard is dropped.

## 3. Runs

| Run | Instance | Distinct states | Shows |
|---|---|---|---|
| `submit` | 2 tasks, 2 sleeps | 55 K | safety of the exchange, refinement of `ResultExchange`; the call returns |
| `swqos`, poll | 2 signatures, 3 polls | | Ok names a confirmed transaction; a TradeError is final |
| `swqos`, request | 13 clients, lists of up to 2, 3 polls | | Ok and TradeErrors agree with the chain; no gap in a list; calls end |
| `swqos`, quic | 3 senders | | resend on a newer connection, no lock-out; a send ends or hangs in its one stream |
| `swqos`, ping | 2 clones | 498 K in all | the loop ends after the last drop |
| `swap` | 2 tasks, 2 polls | 0.6 M | the swap's answer agrees with the chain; a buy lands once; a swap returns |
| `fees` | 2 writers, 2 services, 2 clients | 1.0 M | both modes of a fee only out of a race, in the table and in a plan; a global setting takes effect; plans that are let through are safe |
| `startup` | 2 clients, 2 attempts, 4 services, 2 rents | 217 K | what is published is complete; start-up ends; the rent cache catches up |
| `trading`, quotes | 1 curve, 4 pools, 2 trades | | formulas against reference definitions; stale and torn views |
| `trading`, wallet | 3 wallets, 6 markets, 1 slippage, 2 operations | 75 K in all | limits of trades, exactness of the WSOL operations |
| `builder` | 3 tasks, pools of 1 with capacity 2 | 253 K | own messages and bytes, conserved pools, one trade per nonce |

`MCSwqos` and `MCTrading` put machines side by side that share nothing there (`kind`,
`half` say which one moves), one run for each directory of the source: the states add up
and do not multiply. The formulas say of each machine what they say of it alone.

Why the bounds are enough. Two tasks are what it takes for a success and a landed
failure, or a result and a straggler, to meet in one call; two sleeps let the caller
go round its loop after having seen a partial state. The theorems of section 5 remove
both bounds for the safety of `ExecuteParallel`, so the instance is kept small enough
for its liveness. Of the two signatures of a cluster both are polled for, or one, in either
order: another signature of the list may be the one that lands, and a transaction that is
not in the list may share the nonce. `GetTxAfter = 2` and `MaxIterations = 3` keep the order of
the code's 10 and 15: there are polls before and after the switch (`swap` keeps
`GetTxAfter < MaxIterations` with 1 and 2, and no sleep in the submission: a caller that sleeps and
looks again is one that looked later). Three senders let
one reconnect, one meet the lock and one come late.

Two writers with one operation each are what a race takes; what the table holds when the
second begins is what the first has left or is writing. In `fees` all operations run while
no trade is planned; while one is, `set` and the operations of a single rcu, which make up the
others. The tip tells what `set_global_fee_strategy` wrote from what was there before. Two
clients are one of each service or two of one.

Two clients are a new and a shared one, or two with updaters that overtake each other;
two attempts let a transaction land late during the second or after the last. The
services are one of each kind: blacklisted, connecting, with and without a URL; two have
the same type, and each connection can fail by itself. In
`trading` two operations overlap: the second is built from what the first has not yet
changed, or lands before it. The wallets have no account, associated ones, or seed ones
with a temporary account left over; the markets are a curve, one without reserves, and
pools in both orientations, against USDC, and one that is refused. Amounts in `trading`
are small so that roundings matter, and the fees large so that they are not all rounded
to one unit; four pools are two on the base side, one on the quote side and one that
does not decode. In `builder` the pools are smaller than the number of tasks, so that
they run empty and overflow, and the parameters share a mint and a price but differ in
scheme and limit, so that a key that leaves out a field is caught.

Fairness. The caller's future is polled by the runtime until it is ready, so its
steps are weakly fair (`WF(Caller)`, `WF(PollStep)`, `WF(SendStep)`, `WF(SwapStep)`); RPC requests
have a time limit in the HTTP client. Tasks and cluster are not assumed to move:
every wait is bounded by a clock, represented by a cap on the rounds and by a
time-out that is always possible. Ping tasks and spawned aborts are run by tokio.
In `startup` constructors, updaters and set-up tasks are weakly fair. `RentsCatchUp` also
needs a query that is repeated every hour to succeed now and then: strong fairness of
`FetchOk` for each of the two queries. `StartupEnds` does not depend on it.
Of a QUIC call the steps of `Bounded` are fair: local ones; the confirmation, which has its
clock; the failure of a stream whose connection is lost; and the handshake, which the
idle time-out ends because no keep-alive is sent before there is a connection. A stream of
an open connection is not: `open_uni` and `write_all` have no time limit, and the
keep-alive every 25 s (`soyas.rs:59`, `speedlanding.rs:59`) keeps a live peer from idling out, so
a peer that grants no stream or no window holds the call for ever. `EverySendEnds` says that
nothing else does, and that such a call holds no lock. Programs need not
drop, clone or call anything. Deadlock is not checked: every model ends, with the
call returned and all tasks done.

### Disagreements between comments and code

Each is a run that TLC must find violated; `PROJECT.json` quotes the lines.

| Run | What is said | What happens |
|---|---|---|
| `keepalive_held` | periodic pings keep connections active | the starter's clone stops them when it is dropped |
| `stellium_drop` | the ping task stops when the client is dropped | the flag is read with its meaning reversed |
| `fee_writers` | a Normal strategy removes the high-low ones (`gas_fee_strategy.rs:155`) | of two writers at once both may delete before either inserts, and both kinds stay |
| `reversed_sale` | `input_token_amount` is the amount of tokens to sell (`lib.rs:736`) | in a pool whose base is the currency, the sale may take the amount plus slippage (`pumpswap.rs:316`) |
| `seed_account` | `create_associated_token_account_idempotent_fast_use_seed` (`fast_fn.rs:74`) | with a seed the creation is not idempotent (`seed.rs:84`): a second default buy of the same token cannot land |

Reading the code for the models showed further disagreements, which have no run of
their own: "all submitted signatures" (`trading/core/traits.rs:10`) are returned without those
of tasks that answer after the submit phase; when it waits for confirmation, the early exit returns `false` beside the
signature of a success if the transactions share no nonce (`trading/core/traits.rs:9`: "at
least one succeeded"); "All transactions failed" (`async_executor.rs:396`) is also returned when
the 5 s limit passes; a TradeError with code 0 is treated as not landed although
`async_executor.rs:40` says that any other TradeError has landed; signatures come in order of completion and
the error may stand beside a success, against `trading/core/traits.rs:10` and `:11`;
without a nonce a failed transaction hides a successful one in the confirmation poll
(`swqos/common.rs:97`); after a time-out `lib.rs:956` says that the account
does not exist without having looked again; `nonce_manager.rs:10` and `:11` speak of a nonce that
is locked and marked as used, which the function does not do (`OneTradePerNonce` holds
because the chain advances the nonce).

## 4. What the properties say

* `ResultsConserved`, `SuccessDrainFindsSuccess`, `CompleteWhenAllCounted`: the order
  push, flag, count in `submit` is what makes the caller's reads safe. Swapping two
  of them, or a queue one slot shorter, breaks them.
* `EarlyExitJustified`, `FlagAgreesWithSignatures`: under a durable nonce the early
  exit is right about the channels that have not answered; without one the flag is
  only right when nothing is confirmed.
* `OkMeansConfirmed`, `TradeErrorIsFinal` (the poll), `AnswerIsTrue`, `BuyLandsOnce` (the
  swap): what a caller may conclude about the chain.
* `ReportsAreTrue`, `NoGapInBatch`: what a client's Ok and its errors mean on chain.
* `ConflictsAreRaces`: the exclusion of Normal and high-low entries, which comments promise
  without a word about other writers (`NormalExcludesHighLow`, run `fee_writers`), fails
  only where an entry was inserted by a writer under whom another one had changed the same
  service and trade. Writers that take turns, or meet on other services, keep it.
  `GlobalTakesEffect`: after its loop `set_global_fee_strategy` has left exactly its own
  entries wherever nobody else wrote meanwhile. `PlanIsSafe`: what a trade makes of such a
  table, loaded once per client, and which plans are let through.
* `PingStopsAfterDrop`, `ConnectionNeverRegresses`, `ResendIsSafe`: life cycles of shared
  resources. `EverySendEnds`: the reconnection lock is always released, and a send ends unless
  its stream of an open connection hangs.
* `ClientsAreComplete` (`RentsAreInitialized`, `ReadyMeansAccountExists`,
  `InstanceIsComplete`), `ClientsFollowConfig`: what a client may rely on after start-up,
  whatever failed. `RentsCatchUp`: updaters that overtake each other leave an old rent in
  the cache only for a while.
* `BuyCostIsBounded`, `SellKeepsItsLimits`: what a landed trade cost and brought,
  against what it was quoted and in which currency. A sale takes exactly its amount, except in
  a reversed pool, for which `SellsWhatIsAsked` (run `reversed_sale`) fails.
  `DefaultTradesLand`: the accounts a
  default request creates and closes are the ones its swap needs; its conditions are the
  cases in which the code does not land (a seed account that exists, as
  `CreationIsIdempotent` of the run `seed_account` shows, a partial sale with
  the default close, a limit that wraps below the amount).
* `WsolOpsAreExact`, `WalletIsSound` (`WsolBacked`, `PercentIsKept`): nothing is lost between
  SOL and WSOL, although `wrap_wsol_to_sol` acts on an outdated answer, and a percentage
  is one of the balance that was read, while their product fits in a u64
  (`lib.rs:1286` multiplies before it divides).
* `QuotesAreSound` (`QuoteIsTight`, `RegularBuyCost`, `SellQuotePays`, `CurveFormulasAgree`,
  `BuyOutCovers`, `SlippageIsBounded`): the formulas against reference definitions and
  against each other, as long as the u64 results of `sell_quote_input_internal` and of the
  limits do not wrap. `NoRoundTripGain`: what was bought, sold at once to the pool as the buy
  left it, with the LP fee in it, brings no more than it cost: roundings go against the trader.
* `QuoteHoldsWhileCheaper`, `PoolViewIsUsable` (`TornReadIsBounded`, `DeepestPool`): what a
  view is worth that is estimated, torn or of one pool among several. An estimate from a
  developer's maximum so large that the virtual reserve wraps is left out.
* `MessageIsOwn`, `SendsOwnBytes`: shared caches and memory never mix two trades, and what is
  sent from a used buffer is one message and nothing of the one before.
  `PoolsAreSound` (`NoSharing`, `PoolsAreConserved`): an element is in one place, and pools
  shrink only by failures. `OneTradePerNonce`.
* `CallReturns`, `SendEnds`, `SwapReturns`, `StartupEnds`: nothing waits
  for ever.

The type invariant of a module is a conjunct of one of these (`AnswerIsTrue`, `PlanIsSafe`,
`ResendIsSafe`, ...) and is proved with it. A
conjunction has a mutant for several of its parts.

## 5. Proofs

`ExecuteParallelProofs` proves, for every number of tasks and every number of polls,
what the run `submit` checks for two tasks.

*Assumptions.* `NumTasksAssumption` (at least one task: the function has returned
otherwise, `async_executor.rs:267`) and `MaxPollsAssumption`. Nothing else is assumed;
that transactions sharing a nonce exclude each other is part of the model.

*Inductive invariant.* `ResultsConserved` alone is not inductive: that a push finds a
free slot depends on every queued result belonging to a different task. `IndInv` is the
conjunction of

* `ReportsKnown`: a task past its send has an outcome;
* `Exchanged`: a task has submitted iff its result is in the queue or was popped, never
  both and never twice (`IsInjective`);
* `FlagsJustified`, `CountExact`: a flag is backed by a submitted result, and the
  counter is the number of finished tasks;
* `DrainJustified`: each drain loop runs for its reason, and the reason stays true;
* `OneLands`: under a nonce at most one transaction is reported as landed;
* `AnswerJustified`: the answer is computed from the popped results.

`InvStep` has one lemma per action that disturbs it (`SpawnStep`, `BuildStep`,
`SendStep`, `PushStep`, `FlagStep`, `CountStep`, `PopStep`, `EndDrainStep`). The push
uses `FreeSlot`, a pigeonhole argument: an injective sequence over `1..NumTasks` that
lacks one task is shorter than the queue's capacity. The theorems `Conservation`,
`SuccessFound`, `Completeness`, `FlagAgreement` and `EarlyExit` follow from `IndInv`;
`Refinement` shows that the push is the abstract report, the return the abstract
answer, and every other step a stutter.

`ConfirmationProofs` does the same for `Confirmation`, for every set of transactions,
every list of signatures (every `MaxSigs`) and every number of polls, from
`NoSigAssumption` and `MaxIterationsAssumption`. `OkMeansConfirmed` and
`TradeErrorIsFinal` are not inductive by themselves: the answer may come from a
signature remembered from an earlier poll, and an error rules out the other
transactions only because they exclude each other. `PollInv` adds `LandedIsListed` (the
remembered signature is one of the list), `OneOnChain` (under a nonce at most one
transaction is on the current fork, even while blocks are abandoned) and
`ErrorIsFailed` (a TradeError is about a transaction confirmed to have failed).
`ChainStepInv` treats the cluster's steps, `PollStepInv` the function's, one case per
action. `FirstIndex` says that the first index of the status loop is one of the list.

`SwqosProofs` extends that to the clients, for every client, every list of
transactions and every number of polls. It assumes what `ConfirmationProofs` does and
`MaxBatchAssumption`. The poll of one transaction is over when the next one begins, so
`OkMeansConfirmed` says nothing of the transactions before it: `SendInv` adds to
`PollInv` that the loop polls for the transaction it is at (`AtTransaction`), that
everything behind it is confirmed for good (`ConfirmedBehind`), that nothing in front of
it was handed over (`HandedInOrder`), that a list names a transaction once (`Distinct`),
and where the call returns from (`ReturnedWhere`). `Reports` and `NoGap` follow, and
`SendConfirms` shows that `OkMeansConfirmed` and `TradeErrorIsFinal` survive.

`SwapProofs` composes the two. `Swap` runs `ExecuteParallel` and `Confirmation` over one
cluster; the proof takes `IndInv` and `PollInv` through instances of the two proof
modules (`SubmitKeeps`, `PollKeeps`), so nothing of either is proved again. What `SwapInv`
adds is how they meet: the poll starts after the submitter has returned
(`PollAfterSubmit`), on signatures there are only with a result (`NothingUnlessResult`);
what the swap answers has been seen on chain (`OutputSeen`); what lands was spawned
(`SpawnedLands`); a buy through several channels without a nonce is refused before
anything is spawned (`UnsafeBuyRefused`). `AnswerTrue` and `OneBuy` hold for every
`NumTasks` of at least one, and any bounds of the two loops (`BoundsAreNatural`); tasks go
on and blocks are abandoned while the poll runs and after the swap has returned.

`ConfigProofs` treats the fee table and the plan, for every set of services, prices and
tips, any number of concurrent writers and operations, and every list of clients.
`Exclusion` is `ConflictsAreRaces`, which is not inductive: that an insertion makes no
conflict depends on the deletions of the same call. `Cleared` says that what a `set` call has
deleted so far is still deleted, or that its service and trade are in `touched` of its
writer; `ClearedOthers` treats the steps of other writers, `InsertStep` the insertion, which
then either meets no excluded entry or adds to `raced`. For `GlobalEffect`, `GlobalInv` says which
services the loop has left behind, and that each of their trades holds the entry of this
call and no other, or has been touched (`GlobalOthers`, `GlobalOwn`). `Untouched` is the link
between the two: what is not in `touched` after a step of another writer was not changed by it.
For the plan, `PlanInv` says that entries of a client are only made when the cursor passes
it (`PlannedBehind`), so that one load decides its mode, and `PlanSafe` adds that both modes
in one load are a conflict of the table.

`SwqosProofs` also has the QUIC clients, for every finite set of senders and every
number of calls. The mutex has one holder from `try_lock` to the end of the handshake (`LockHeld`), the
connection being opened is the newest (`Numbered`), and what a first attempt failed on is
older than what its sender stores or reloads (`FailedIsOld`). `Resend` and the action
property `NoRegress` follow. The bound on connections in the type invariant needs an
argument of its own: `HandshakesCounted` charges each handshake to a call that can start
no other.

`ConfigProofs` also has start-up, for every set of clients, every plan of constructors, every
list of configurations, every number of retries and every rent. `StartInv` relates the
place of a constructor to that of its updater and its set-up: a set-up begins when the constructor has come to it
(`SetupAfterConstructor`), a rent that is about to be stored was fetched, and the second
comes after the first (`RoundInOrder`), whichever of the clients fetched it; what landed
has created the account (`AccountInv`). `Complete` is `ClientsAreComplete`.
`ServicesFollowConfig` follows the loop over the configurations: after round `i` the list
has the services of a set of positions up to `i`, and a service's place is the number of
those positions before it (`RankIsPlace`, `CreateRound`).

*Induction over a list.* A loop over a list is written as a recursive function on `0..n`,
and the library's induction theorems cannot be used here (their predicate is an operator
parameter). `Loops` goes round this: every non-empty set of naturals has a least element
(`Least`, from well-foundedness), so a claim about all rounds is proved by taking the set
of rounds that violate it; and a loop has a state after every round (`LoopHasStates`), so
the recursive function is what its body says. `ServicesFollowConfig`, `OwnMessage` and
the theorems about transactions rest on it.

`TxBuilderProofs`: for every finite set of tasks, every pool size and capacity
(`PoolAssumption`, `TasksAssumption`), all parameters and all chains of middlewares.
`AllocatedAssumption` says that there is as much memory as pools and tasks can hold.
`PoolInv` says for each pool that an element is in one place (`Exclusive`), that a task
holds a builder or a buffer just where the code does (`Holding`), that pooled builders are
empty, and that what is missing is with a task or lost. `FreshIsFree` is the pigeonhole
argument for an allocation when the pool is empty; `TakeIsExclusive`, `GiveIsExclusive`
and `MoveCounts` are the moves, used for both pools. On it rest `OwnBytes` (`BytesInv`:
between serialization and return the buffer holds the message and nothing else), `OnePerNonce` (`NonceInv`:
the account is past the value of whatever has landed) and `OwnMessage` (`OwnInv`: a cache
holds under each key what the key determines, and `Stage`, what the list of a task is at
each place of `build_transaction`). `ChainResult` says what a chain of middlewares of any
length makes of a list, by induction over the ones that ran (`AfterChain`): nothing if one
clears it, else the list and one entry for each that appends.

`TradeProofs`, on the trading client: for every u64 width, rent, fee, slippage and
percentage, every set of markets and requests of the types of `MarketsAssumption` and
`RequestsAssumption` (a curve with virtual tokens has virtual SOL), every first wallet whose
WSOL accounts are backed, and any number of operations, pending in any order.

* A transaction is a fold of `Effects` over its list. `OutcomesEmpty` and
  `OutcomesAppend` are all the proofs use of it: an instruction at the end works on what
  the others can leave.
* `Good` is a wallet as transactions find and leave it. `Moves(w, v, lamports, usdc, tokens)`
  says how the totals differ between two such wallets; it adds up along a list
  (`MovesAdd`), and there is one lemma per instruction (`CreateAtaMoves`, `WrapMoves`,
  `CloseMoves`, `SwapMoves`, ...). Creating and closing accounts moves nothing (`Quiet`,
  `Harmless`), so a trade's list moves what its swap moves (`ListTrades`).
* `PumpfunBuyDoes`, `PumpswapSellDoes` and the others put the limits of the swap instruction
  together with the arithmetic of `calculate_with_slippage_*` (`AtMostWith`, `AtLeastLess`);
  `Ends` says for every operation what it does when it lands.
* `ClientInv`: the wallet is `Good` and every pending transaction is one the client
  builds (`Sent`), from the balance it read (`Asked`), with the address scheme of the client.
  None of the properties is inductive without it, since a transaction lands on a wallet
  other than the one it was built for. `SoundWallet`, `BuysAreBounded`, `SalesKeepLimits` and
  `WsolOperationsExact` follow.
* `FundedTradesLand` goes the other way: from a wallet with what `CanBuy` or `CanSell` asks
  for, each instruction of the list in turn has an outcome, because the ones before it
  have opened and filled the accounts it takes from.

On the market: for every u64 width, every set of pools, first reserves with both sides
(`ReservesAssumption`), fees between 0 and 100 % (`PoolFeesAssumption`), any amounts, any
number of trades. The SMT backend does not decide products and quotients of unknowns, so
each fact about them is a lemma of a few steps: `DivBounds`, `DivMono`, `TimesMono`,
`CeilBounds`, and `ConstantProduct`, what a trade leaves of the product of two reserves.

* `MarketInv`: a curve has virtual SOL and always the same number of virtual tokens above
  its real ones (`CurveInv`), both reserves of a pool are positive (`Live`), a view agrees
  with the curve it was made of in its tokens and has no less SOL (`ViewInv`), and since a
  reader saw the base reserve the pool's product has not fallen (`BaseRead`).
* `UsablePoolView`: as the product did not fall, the second read found no less quote than
  there was at first, or the pool has no less base by then; the torn pool is at least as
  good as the first pool in one case and as the second in the other (`TornRead`).
* `CheaperQuotesHold` uses that the difference of the token reserves is constant, so that a
  curve with no fewer virtual tokens has no fewer real ones. `RoundTripsDoNotPay`: in the pool
  the buyer's LP fee comes back to the seller in part; with what the buy keeps aside for it
  (`KeptFee`) a sale returns no more than was paid (`SaleBack`, `PoolRoundTrip`); on a curve
  `CurveRoundTrip` says so. `SoundQuotes`: one lemma per formula (`QuotesAreTight`, `RegularBuy`, `SellQuote`,
  `FormulasAgree`, `BuyOut`, `LimitsAreBounded`).

Working out these proofs showed where the properties had been true only of the
small instances: a limit, a percentage or a developer's maximum that wraps in u64 is now a
condition of the property, in the words of section 4.

*Only model-checked.* Liveness (`CallReturns`, `SendEnds`, `SwapReturns`, `StartupEnds`,
`RentsCatchUp`, `EverySendEnds`, `PingStopsAfterDrop`): TLAPS does not reason about fairness.
What `KeepAlive` and `StelliumKeepAlive` have to say is liveness too.

## 6. Not modelled

* `perf/`: a trade uses only its prefetch, SIMD and inlining hints, which have no state. Its
  ring buffer, shared memory pool and batch queue have no user in the repository, and
  four of its files are not declared in `perf/mod.rs`.
* `main.rs` depends on a crate outside the repository.
* `utils/price` computes prices for display in floating point.
* Clocks, log switches, address tables, PDA derivation, account lists and byte layouts of
  instructions are data. The PDA cache memoizes a pure function of its key. The batch
  functions of `serialization.rs` repeat the single case.
* The Err of a complete curve (`bonding_curve.rs:145`, `:180`): no property asks for a quote of one.
  The exception of `fast_fn.rs:253` for WSOL and SOL in `TxBuilder`, whose trades are of other
  tokens (`Instructions` has it). A QUIC call whose serialization fails, which returns before it
  has touched the connection.
* TLS set-up, HTTP bodies, and the size limits and fees of transactions.
* What the on-chain programs do beyond what the SDK relies on: they are external in
  `Wallet` and `Market`.

## 7. State of the plan

1. *Done:* models and runs of submission, confirmation, swap; sends of the clients; fee
   table and planning; keep-alive, QUIC; start-up; trading client, instruction lists,
   amounts; transaction builder with its caches and pools.
2. *Done:* the safety properties of all passing runs as theorems.
3. *Left:* refinements between the parts that are now connected by an assumption (the
   reports of `SwqosSend` and `SendReports` of `ExecuteParallel`; the quotes of `Market` and
   the markets of `TradingClient`); liveness for more than the instances of section 3.

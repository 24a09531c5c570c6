# A TLA+ verification project for jet-v2

jet-v2 is a margin trading protocol on Solana: on-chain programs in Rust (Anchor),
Rust client libraries, a crank, tools and a web application. This directory holds
TLA+ models of its programs and of the client code that acts on them, the TLC
configurations that check them on small instances, and TLAPS proofs of central
invariants of the margin program for instances of any size. Source paths below are
relative to `src/`.

## 1. Inventory

### The programs and how they interact

    owner / liquidator / anyone          client libraries, crank, servicer
        |  instructions (atomic transactions, any interleaving)
        v
    margin ----CPI, signed or not----> adapters: margin-pool, fixed-term, margin-swap
        ^                                  |  tokens moved through the token program
        |  return data: position changes   |
        +----------------------------------+
    airspace: who may use or operate a deployment     control/metadata: configuration
    staking <--add_stake-- rewards: governance tokens    auth: who may claim

| component | state | operations | what makes it correct |
|---|---|---|---|
| `programs/margin`: invocation (`util.rs`, `adapter.rs`) | bit set of stack heights in every margin account; the runtime's return data | start, CPI, end, read result; `write_adapter_result` | an adapter acts for an account only when the margin program called it directly for that account; no mark survives |
| `programs/margin`: position list (`state/account/positions.rs`) | 32 slots, a sorted map of mint to slot, a length | add, remove, get, get by key | behaves as a map from mints to positions, also with stale keys |
| `programs/margin`: accounts (`state/account.rs`, `instructions/`) | owner, liquidator, positions with balance, price, flags and their time stamps; LiquidationState PDAs | create/close account, register/close position, refresh, transfer, invoke (owner, accounting, liquidator), liquidate begin/end | recorded collateral exists; the owner cannot leave debt uncovered; a liquidation loses at most its budget and ends |
| `programs/margin`: configuration | TokenConfig, AdapterConfig, Permit accounts | `configure_*`, `refresh_position_config` | positions carry the settings of their own airspace |
| `programs/margin-pool` | totals of tokens, notes, borrowed value and fees; vault; note mints | deposit, withdraw, borrow, repay, collect, accrual, prices | depositors and borrowers are charged interest only; totals match the token program |
| `programs/fixed-term` | orderbook (third party), event queue, margin users (debt, assets), term loans and deposits, tickets, vault | orders, `consume_events`, settle, repay, redeem, auto-roll | what is owed is covered; debt and maturity are exact; no event blocks the queue |
| `programs/margin-swap` | none | swap routes between pool withdrawals and deposits | a swap spends its own input only, whatever lay in the transit accounts |
| `programs/staking` | bonded and unbonding share pools, stake accounts, voter weights | stake, unbond, cancel, withdraw | shares are worth what was deposited; votes stay backed |
| `programs/rewards` | awards, distributions, airdrops | create, release, revoke, claim | nothing is promised that is not there; vesting pays out in full |
| `programs/airspace` | airspaces, issuers, permits | create, revoke, set authority | authority stays inside its airspace |
| `programs/control`, `metadata`, `auth` | configuration accounts and metadata entries | register token, configure pool, authenticate | the entries describe the pools |
| `libraries/rust/margin` (event consumer, queues, auto-roll), `tools/crank-service` | cached queues and users, retry queues | sync, consume, settle, roll | every event is consumed, and every account settled whose event was seen to be |
| `libraries/rust/margin` (`tx_builder`, `refresh`), `instructions`, `client`, `solana-client` | what was read of the account | build, pack and send transactions | what is built lands; packing is optimal and ends |
| `packages/margin` (`wasm-src`) | a copy of the order book | simulate orders, sample liquidity | what the user is shown is what the program does |
| other libraries, `tools/`, `apps/`, `programs/test-service` | - | set-up, UI, tests | - |

### What is hard here

The programs are single threaded, and a transaction is atomic. What is hard is the
order of transactions (owner, liquidators, cranks, anybody, the clock and the oracle
interleave freely), nested calls inside one transaction, cached values (balances,
prices, keys, exchange rates, sequence numbers, whole accounts read by a client) used
after what they describe has moved, obligations that live in a queue between two
transactions, fixed-point rounding repeated forever, and accounts that are closed and
created again while others still refer to them. In the crank and the clients: awaits,
retries of partly failed batches, and calls that fail. `PROJECT.json` lists each hazard
at its line with the property that would catch it, or the reason why none does.

## 2. Modules

| module | models | kind |
|---|---|---|
| `Invocation` | marks, CPIs, return data | specification |
| `PositionMap` | what the position list promises: a map | abstract specification |
| `PositionList` | slots, sorted map, binary search | specification, refines `PositionMap` |
| `PositionListProofs` | | proofs, the refinement among them |
| `Margin` | one margin account, its token accounts and liquidations | specification |
| `MarginProofs` | | proofs |
| `MarginPool` | one lending pool | specification |
| `MarginPoolProofs` | | proofs |
| `Sums` | sums of amounts over accounts, positions or users | helper |
| `SumTheorems` | induction over numbers and finite sets, and what sums do when amounts change | lemmas for the proofs |
| `AccountMaps` | accounts that are created and closed, as functions | helper |
| `Orderbook` | matching of the third-party order book, as the program uses it | operators |
| `OriginationFee` | the fee added to a borrow order and taken from a disbursement; extends `Orderbook` | operators |
| `FixedTerm` | a fixed-term market: orders, events, loans, deposits, settlement, auto-roll | specification |
| `FixedTermProofs` | of the matching, the MarginUser records and the market | proofs |
| `Staking` | stake pool, votes, user authentication | specification |
| `Rewards` | airdrops, awards, distributions; extends `Staking`, whose `add_stake` it calls | composition |
| `RewardsProofs` | of `Staking` and `Rewards` together | proofs |
| `Airspace` | governor, airspaces, issuers, permits | specification |
| `MarginConfig` | token, adapter and permit configuration and the positions that carry it; extends `Airspace` | specification |
| `MarketControl` | creation, pausing and cranks of fixed-term markets; extends `Airspace` | specification |
| `PoolControl` | the control program, its pools and metadata entries | specification |
| `Governance` | `MarginConfig`, `MarketControl` and `PoolControl` | composition |
| `Swap` | pool swaps, liquidator swaps and routes through transit accounts | specification |
| `Crank` | event consumer and settler tasks | specification |
| `ClientProofs` | of `Crank`, `MarginClient` and `Condense`, which share no state | proofs |
| `AutoRoll` | the auto-roll servicer against the market's two instructions | specification |
| `Condense` | packing of instructions into transactions | specification, with a reference |
| `MarginClient` | the client of a margin account | specification |
| `OrderbookModel` | the web client's simulated book against the program's | specification, with a reference |
| `ComponentProofs` | of `Invocation`, `Governance`, `Swap` and `OrderbookModel`, which share no state | proofs |
| `MCComponents` | the components that share no state; `part` says which one a behaviour is of | composition for one run |
| `MCPoolAndAccount` | a pool and a margin account that share no state; `part` says which one a behaviour is of; extends `Margin` and `MCMarginPool` | composition for one run |
| other `MC...` | constants of the runs | model checking |

An action is a whole instruction handler, account constraints included, because a
transaction is atomic: a handler that returns an error or panics has no effect, so
the action is not enabled. `Invocation`, `Crank`, `AutoRoll` and `Condense` are finer:
there a step is one event inside a transaction, the code between two awaits, or one
turn of a loop.

A definition whose comment starts with *Slip* is a plausible mistake in the
definition that follows it. It is not used by the specification; it shows that a
property would notice it.

### Invocation

`height`, `program` and `invoking` are the call stack; `caller_heights[a]` is
`Invocation.caller_heights` of account `a`, `saved` its value in the last committed
state. The runtime's rules are external: a program may be entered again only from
itself, the return data is emptied on entry, an error anywhere undoes the
transaction. `Invoke` is the first half of `adapter::invoke` (mark, then CPI),
`ReturnToInvoke` the second (unmark, take the result if the invoked program wrote
it, clear). The margin program itself may be registered as an adapter, so that it
can be on the stack twice; the model includes that.

### PositionList and PositionMap

The map and slot arrays are as in the code: `add` takes the first free slot, appends
and sorts the used prefix; `remove` zeroes the slot and shifts. `Bisect` stands for
the standard library's binary search, which may return any match and is only right
on a sorted slice, so that an unsorted map shows. The refinement maps slots and index
to one function from mints to address and balance, whose steps change one mint.

### Margin

State: whether the account exists, its `liquidator`, one record per mint in
`position` (registered, balance, ages of balance and price, validity, flags), the
real amounts in the token accounts in `tokens`, the LiquidationState of every
liquidator. `lost` sums, outside the program, the equity lost in the steps of a
liquidation; `op` names the last instruction for the action properties.

* Mints are of four kinds: SPL deposits, collateral notes that the margin account
  holds (pool deposits), claims, and collateral managed by its adapter.
* Time: the code only compares `now - timestamp` with a limit. The model keeps that
  age, capped just above the limit, so the clock needs no bound.
* Values are products of balance, price and `ONE_128`, with the truncation of
  `Number128` in the weighted ones.
* `invoke` is `adapter::invoke`: the CPI may move any tokens it is entitled to move
  (with the account's signature everything, without it only into the account's own
  token accounts, adapters change the notes they issue), then the balances of the
  passed token accounts are recorded and at most one position change is applied.
  The caller passes all of the account's token accounts or only those that
  moved. Adapters are trusted in two ways that the pools and fixed-term markets
  respect: they register only their own notes and close only what they have emptied.
* `tick` and `outside_transfer` are the environment: the clock, third parties paying
  into token accounts, adapters changing notes outside of an invocation.

### MarginPool

`pool` is the account, with `Number` as a natural in units of `1/ONE`; multiplication,
division, `as_u64`, `as_u64_ceil` and the series for the compound interest truncate as
the code does. Handlers accrue first and give up when more than `Week` is outstanding;
`collect` alone commits a partial accrual. The wallets that pay or receive tokens are
left out: a payer is assumed to have what a transfer needs.

Notes on the arithmetic, which the properties make precise:

* `as_u64_ceil` is applied to a quotient that is already truncated, so that rounding
  up can fall short by less than the rate in units of 10^-15 tokens. The two value
  properties allow exactly this dust, `rate \div ONE`, at every step.
* The deposit rate takes a pool worth less than one token for one worth one token.
  `DepositorsNotDiluted` speaks of pools worth at least a token.
* The loan rate is truncated too. What is owed beyond the value of the notes
  (`Unnoted`) can be one unit less than a unit for each note; it stays when the last
  notes are repaid, and whoever borrows next owes it. `DebtorsNotCharged` therefore
  says that no instruction lets that remainder grow, which holds for every number of
  loan notes; that the rate itself does not grow is true for few notes only.
* `ArithmeticDefined` says that there is value under the notes of a user. It does
  not say that the deposit rate is positive, which a larger instance (three tokens,
  three loan notes) refutes: when all notes are gone, uncollected fees of almost
  one token stay and the pool is short of them by some dust, the next depositor gets
  very many notes for a token, each worth less than a unit. At `ONE = 10^15` this
  takes fees within a few units of one token.
* `configure` does not accrue: the time since the last accrual is charged at the new
  rates. The model does the same.
* `collect` fails as a whole when the amounts for its event cannot be converted.

### FixedTerm, OriginationFee and Orderbook

State: `book` (bids and asks, best first), `queue` (fill and out events), `users` (the
MarginUser accounts: pending and committed debt, maturity, sequence numbers, assets,
roll configurations), `notes` (claims and the two collateral notes the margin accounts
hold), `loans` and `deposits` by owner and sequence number, `tickets`, `vault`, `clock`.

* The taker of a match is served in the instruction that placed its order; the maker
  when `consume_events` reaches the event. `queue` is therefore part of every account
  of what is owed: `OwedForEvent` and `DueForEvent` say what each event still pays.
* One action per instruction: `margin_borrow_order`, `margin_lend_order`,
  `margin_sell_tickets_order`, the wallet's `lend_order_signed` and
  `sell_tickets_order`, `cancel_order`, `consume_events`, `settle`, `repay`, redemption,
  transfer and staking of deposits, `exchange_tokens`, roll configuration and both
  auto-rolls. `refresh_position` changes nothing in the market; what it reports is
  `is_past_due`.
* `Orderbook` is agnostic-orderbook, external: price-time priority, the match limit,
  self-trade behaviour and `fp32` rounding as `src/` relies on them.
* `settle` pays out only into settlement accounts that are registered as positions of the
  margin account (`Settling`); in the run both are, as the clients set them up.
* A margin user's sale of tickets may be posted. Its posted value goes to `tickets_posted`
  (`margin/state.rs:183-185`) and its events take it off `tokens_posted`
  (`handler.rs:204-210`, `362-366`). The subtraction is checked, so the event is consumed
  only while open borrow orders of the same user happen to cover it; otherwise
  `consume_events` is not enabled at that event. The safety properties hold with such
  sales in the run. The queue does not drain: that is the run `queue_blocked`.
* `Payment(e)` is what the handler of an event takes from the vault, and `Served` says that
  a crank has what it needs for all events in the queue: the tokens, and no staked fill of
  a wallet, for which the consumer in this repository has no usable seed (see `Crank`). The
  program itself accepts such a fill with a seed of eight bytes; `consume_events` does too.

### Staking and Rewards

`pool` is the StakePool with two `SharedTokenPool`s; `vault` the tokens that are really
there; `weights`, `max_weight` what governance sees; `votes` the external governance
program. `donate` is anybody sending tokens to the vault. All conversions round as the
code does. `Rewards` adds the airdrop, award and distribution accounts with their
vaults; `add_stake` of a claim is the staking program's action inside the rewards
instruction.

### Airspace, MarginConfig, MarketControl, PoolControl

Accounts of a kind are a function from keys to contents; an account exists if its key is
in the domain. Every instruction names its signer. Configurations are abstracted to the
number (`terms`) that says which settings were written. `PoolControl` writes a pool and
its metadata entries in one instruction, as the control program does by CPI.

### Swap

`transit` accounts may hold tokens before a swap. A route is a sequence of legs with
their exchanges; an exchange is external and gives any amount and may leave part of its
input. `verify` conditions of a route (no gap, known exchange, split bounds) are guards.

### Crank and AutoRoll

`Crank` runs two tasks: `sync_queues`, `sync_users`, `consume_next`, send and confirm; and
`process_all` with its spawned batches and their concurrent chunks. Every await ends
a step. The market is reduced to its queue, the users' sequence numbers and the accounts
that have to be settled, which change at any time. Calls fail at most `MaxFaults` times.

* `send_and_confirm_transaction` returns an error when the transaction was refused
  (`Rejected`), and also when sending or confirming failed, whatever the network did with it
  (`SendFails`). In the second case the transaction may have been executed already, which adds its
  accounts to `missed`, or be executed at any later moment or never: it is kept in `late` for
  `LandsLate`, which may find other events at the head of the queue than those it was made
  for. In both cases the consumer forgets the accounts to settle (`event_consumer.rs:405-418`).
* `missed` is the auxiliary set of accounts of events consumed by a transaction that was reported as failed;
  an account leaves it when it is settled or when a later event of its own is
  consumed and confirmed. No action reads it. `PendingIsTracked` and `ConsumedIsSettled` name it as the
  one way in which an account that must be settled is in no queue.
* A staked fill of a wallet (`StakedFill`) opens a term deposit at an address made of seed bytes
  that come with the transaction. The consumer sends sixteen random bytes (`make_seed`,
  `event_consumer.rs:525-532`), which the program copies into a buffer of eight
  (`queue_iterator.rs:108-114`, `138-141`) and panics; and when the batch holds a later
  event whose seed is a sequence number, the address does not match. No transaction of this
  consumer that reaches such an event is accepted. `EventsAreConsumed` says `Blocked` for
  it, and no more: the queue is emptied unless such an event is among the next that a
  transaction takes. That contradicts what `fixed_term/mod.rs:107` says of the consumer,
  "Continuously consumes any events and settles any accounts as they need to be processed."

`AutoRoll` interleaves `service_user`, read by read, with new loans and the clock; what
the two instructions require is the market's side.

### Condense, MarginClient and OrderbookModel

`Condense` has one step per attempt of `find_first_condensed` and compares the answer with
all ways to cut the list (`Ways`: each group begins a transaction or is joined to the
last one). `MarginClient` reads a margin account (registered positions,
whether funded, whether priced), builds the transactions of one operation as lists of
instructions with what they require, and sends them while other sessions act; `calm`
says that none has acted since the account was read. `OrderbookModel` keeps the program's
book and compares, in every reachable book, simulated orders and the liquidity chart with
what the program would do.

## 3. Runs

| run | question | instance |
|---|---|---|
| `components` | Nine small components, one behaviour each. *Invocation*: does `verify_directly_invoked` accept exactly the direct callee, do results reach their account only, are marks cleared? *List*: is it a map, also through stale keys? *Governance*: do settings and cranks stay in their airspace, do metadata entries describe the pools? *Swap*: is only the swap's own input spent? *Condense*: is the packing optimal? *Book*: do simulation and chart agree with the program? *Client*: do its transactions land? | 2 accounts, 4 programs, 5 frames; 5 mints, 3 slots, 2 of them for users; 2 airspaces, 2 signers; 3 mints in transit accounts, up to 3 tokens, 6 routes; lists of up to 4 groups; 2 orders on each side, 3 prices; 2 pools, a plain deposit, a market |
| `margin` | Is recorded collateral backed, is the liquidation state consistent and within budget, does an owner's invocation leave up-to-date debt covered? | a plain deposit or a pool's note, and a loan with leverage 2; one liquidator, two prices |
| `pool_and_account` | The account: who can register, close and re-flag positions, and does every liquidation end? The pool: do rounding, fees and interest respect depositors and borrowers; do totals match? | a pool note, a loan, two adapters, one liquidator, every change but the past-due flag; 2 users, `ONE = 20`, changes by one token and to zero or one token, two configurations, three points in time |
| `fixed_term` | Is everything owed covered, is debt exact, is past-due exact, does the queue drain as long as no margin user posts a sale? | a margin user that borrows, lends and sells, posting or not, a wallet that lends and sells; 3 orders, a queue of 3 events, three points in time, `ONE = 4` |
| `rewards` | Do shares, tokens, votes and rewards agree, does a distribution pay out? | 2 users, 2 tokens, 2 shares a token, three points in time, one reward at a time |
| `crank` | Are all events consumed, but for a wallet's staked fill, and all accounts settled, but for those of a transaction reported as failed? | 2 margin accounts and a wallet, its fills staked or not, 3 events, 1 stale sequence number, 1 failing call of any kind, batches of two chunks, one batch waiting |
| `queue_blocked` (violation) | "pushing events to an `EventQueue` to be consumed by a crank": the queue drains when the crank is served | as `fixed_term`, with one order |
| `past_due` (violation) | "The account will be considered unhealty if there is any balance" on a PAST_DUE position | as `margin`, with the flag |
| `liquidator_invoke` (violation) | "Requires the account already be in the liquidation state" | as `margin` |
| `pool_final_loan` (violation) | the final loan can be repaid despite rounding | 3 tokens, 4 loan notes, one period of interest |
| `auto_roll` (violation) | the servicer attempts "any orders with a matured `roll_tenor`" | 1 user, 2 loans |
| `condense` (violation) | an approximated search that would loop falls back and ends | up to 4 groups, some too large alone |

**Bounds.** `MaxTokens` is 1 in the margin runs: balances matter through
comparisons of values, and prices 1 and 2, leverage and invalid prices already give
healthy, unhealthy, covered and uncovered accounts. A price is stale after
one tick and the loan's balance after two, so that either can be stale without the other. In `margin`,
`OneCollateral` bounds the account to one collateral at a time, a deposit or a note, which the
properties treat alike; sums over several positions are what the proofs are for. `MaxGain` bounds how much equity a
liquidator may give to the account (only the sum of losses is bounded by the code); in
`margin` it is large enough for a gain to be spent again later, in `pool_and_account`,
which asks nothing about equity, it is 0. The budget is one liquidator's, so one is enough.

The pool needs several tokens for rounding: `ONE = 20` makes every truncation frequent,
rates between a tenth and nine tenths a period make the interest cross whole tokens,
`MaxTime = 2 > Week = 1` makes partial accrual happen; `MaxPoolTokens` bounds the vault,
`MaxLoanNotes` the loans.

In `fixed_term` three orders are enough for a maker that is filled in parts, for a
cancelled remainder, for a roll against a resting order, and for three events, which
fill the queue; prices of 2/4, 3/4 and orders of 2, 3 and 5 tokens do not divide evenly, so quotes
are rounded; tenors of 1 and 2 in a time of 2 make deposits and loans mature. `MaxVault`
and `MaxDeposits` limit only `exchange_tokens` and staking. In `rewards` a share is worth
half a token and donations change that, so that conversions round. In `crank`, three
events fill a transaction (`MAX_EVENTS_PER_TX = 3` keeps two), and the failing call and the stale
number can hit any step: a sync, a chunk, or a consume transaction that has landed, lands
after the next one was sent, or never. One failing call is the most that the state space
allows with all five kinds of events; the proof of `PendingIsTracked` is for any number. In `components` the number of slots exceeds the user limit and is
exceeded by the mints, so that the list fills and refuses; book depth 2 lets a simulated
order cross two orders and rest.

The run `components` exists because the parts share no variables: one behaviour
is one component's, the others stutter, and no claim is made about their
interleaving. `pool_and_account` is built in the same way: the two parts each have their run, and
`Margin` takes the pool's prices as inputs of any value. In it, the part `airspace` explores the airspace program from its creation; `config`
and `market` start with airspaces that the governor has created.

`VIEW` in `margin` leaves out `op`, which is only read in its primed
form by action properties and never by an action; TLC evaluates those on every step.
Symmetry, in `pool_final_loan` only, is over the pool's users, which occur in no property asymmetrically.

**Deadlock.** Runs whose clocks, orders or events are bounded may stop when their bounds
are used up; those cfgs say `CHECK_DEADLOCK FALSE`.

**Fairness.**

* `pool_and_account`: of the account, `WF(tick)`, the chain produces blocks; `WF` of `liquidate_end` by
  anyone: after the timeout the instruction is open to everybody and the owner wants
  it; before the timeout it is not enabled for `Anyone`, so that nothing is asked of
  the liquidator. None is assumed of the liquidator, the owner, the adapters or the oracle,
  and none of the pool.
* `fixed_term`, `queue_blocked`: `WF(consume_events /\ Served)`, the crank calls it in an
  endless loop; nothing is asked of it while the vault is short of what the queue pays or a
  staked fill of a wallet is in the queue. `QueueDrains` and `QueueDrainsWithoutSales` speak of behaviours in
  which it eventually always is served: nothing in the code forbids that redemptions
  empty the vault for a while. `QueueDrainsWithoutSales` adds that no margin user ever posts a sale.
* `rewards`: the clock runs, and somebody calls `release`, which is open to everybody.
* `crank`: the two loops, spawned batches and calls under way go on, as the async runtime
  guarantees. Failing steps have no fairness and are bounded, and a transaction that was not
  confirmed need never be executed.
* `condense`: the loop's two steps, which are one thread's.

**The violations.** (1) `verify_healthy` (`state/account.rs:570`) does not look at
`past_due`; only `verify_unhealthy` does. A past-due account can be liquidated while
its owner may still invoke adapters. (2) `liquidator_invoke` checks the
LiquidationState against its signer and margin account, not `MarginAccount.liquidator`.
When all positions are gone, `close_account` succeeds during a liquidation and the
LiquidationState remains; the account created at the same address later accepts the
invocation. (3) Repayments rounded up can bring the total borrowed to zero with a
loan note out; its price is then one token, which exceeds the total, and the
repayment is refused until somebody borrows again. (4) `with_service_loans` selects loans
whose roll tenor has *not* passed (`strike + roll_tenor >= now`), the instruction accepts
those whose tenor has; they meet in one second. (5) `find_first_condensed`
on a first group that is too large moves its bounds to (1, 0), answers 0, and
`condense_left` asks again forever. (6) A margin user's posted sale of tickets is counted
in `tickets_posted` and its events are taken off `tokens_posted`. In the run the user posts
one and cancels it; `tokens_posted` is zero, the checked subtraction fails, and the event at
the head can never be consumed. No fairness of a crank helps, and the events of all other
users wait behind it.

### Observations

What the models do because the code does, where no line of the repository says otherwise.

* margin: `airspace_permit_issuer_create` does not compare the signer with the authority;
  `airspace_permit_revoke` conjoins the two conditions that its comments (lines 31-39)
  give as alternatives; `refresh_position_config` refreshes terms and not the admin.
* margin-pool: `configure` does not accrue first; `margin_refresh_position` prices notes at
  the last accrual.
* fixed-term: `auto_roll_borrow_order` adds the origination fee twice;
  `deserialize_user_adapter` requires an owner that is
  not the program, so that a user's adapter queue can never be written to.
* margin-swap: both halves of a split leg go to `route_a` (`route_swap.rs:474`); a pool swap
  from a token to itself deposits the profit only; what an OpenBook lot size leaves
  stays in the transit account.
* staking and rewards: a donation to a pool without shares makes the assertion in `add_stake`
  (`state.rs:340`) fail until the authority withdraws it; shares of a fully diluted pool
  regain value; a recipient may be twice in an airdrop (`airdrop.rs:75`); a distribution
  with `end < begin`, or with excess tokens, cannot be closed.
* crank: if a transaction is executed although it was reported as failed (`event_consumer.rs:412`), its
  accounts are settled only after their next confirmed event (`missed`); a staked fill of a wallet is never
  consumed by this consumer (`Blocked`); `run_once` drops the errors of batches
  (`queue_processor.rs:170`); one more event is prepared than sent (`event_consumer.rs:397`),
  and an event that is too large alone blocks the queue; all rolls of a user are in one
  transaction, so that one failing roll undoes all.
* client: `send_and_confirm_condensed` sends all transactions at once
  (`solana/transaction.rs:71`), so only its `_in_order` variant respects dependencies;
  `close_empty_positions` fails as a whole on an empty fixed-term position (`user.rs:341`);
  `liquidate_begin` with refresh leaves fixed-term positions stale (`user.rs:690`);
  `route_swap` registers notes without pricing them (`user.rs:651`).
* order book model: the client posts by its own `MIN_BASE_SIZE_POSTED`, not by the market's
  minimum; a borrower's simulation may be one unit off per match.

## 4. Proofs

TLAPS proves the following for every value of the constants that satisfies the named
assumptions (`InvocationAssumption`, `NoAccountAssumption`, `MarginAssumption`,
`PositionListAssumption`, `StakingAssumption`, `RewardsAssumption`, `AirspaceAssumption`,
`MarginConfigAssumption`, `PoolControlAssumption`, `PoolAssumption`, the assumptions of
`Orderbook` and `OriginationFee`, `FixedTermAssumption`, `SwapAssumption`,
`CrankAssumption`, `OrderbookModelAssumption`, `MarginClientAssumption`,
`CondenseAssumption`). They give the constants their
types. Beyond types: the stack bound fits the bit set, which
`BitSet::insert` enforces with a panic; a Number has at least two units to the one
(10^15 in the code); the borrow rates of a pool configuration do not fall, as
`interpolate` subtracts them and would panic; an order's limit price is not zero
(`ValidOrders`), as the order book divides by it and such an order would fail; an empty
transaction has at least one byte. One
theorem has hypotheses of its own, `SimulationAlwaysAgrees`: see there.

`ComponentProofs`, invocation. The inductive invariant `MarksInv` is the type invariant with
`OnlyCallersInvoke` (only margin frames below the top are inside `adapter::invoke`),
`MarksAreCallers` (the bit set of an account is exactly the set of heights invoking for
it) and that committed marks are empty. `DirectlyInvokedIsExact` alone is not
inductive: it speaks of the frame below the top, and a return uncovers deeper ones.
From it follow `InvocationTypeOK`, `DirectInvocation` and `MarksZeroed`. With
`DataIsPending` (return data exists only on top of the invocation it was written for) it
also gives `ResultsReachTheirAccount`.

`MarginProofs`. `MarginInv` has two halves. `PositionsInv`: positions and token balances
are typed and `CollateralNotOverstated`; the step that matters is `InvokeStep`, where
the CPI changes any token accounts, the balances of those that changed are recorded,
and `ChangedPosition` shows that an adapter's change then keeps the balance, re-reads
it, or removes the position. `LiquidationsInv`: the liquidator is none or a known one, the
LiquidationState records keep their fields, and `LiquidationHasState`; `close_account`
keeps it because it resets the liquidator. Two more invariants rest on it. `SlotsInv`:
a slot without a position is zero and a closed account has no position, without which
"registered" in an action property would not mean that a position appears or
goes. `BudgetInv`: while a LiquidationState exists, the loss it records is the loss of
all its steps; `LossWithinBudget` alone does not say what the next step adds to.

* Invariants: `MarginTypeOK`, `CollateralAlwaysBacked`, `LiquidationAlwaysHasState`,
  `SlotsAlways`, `LossAlwaysWithinBudget`.
* Action properties: `RegistrationAlwaysAuthorised`, `NothingIsForgotten`,
  `AdapterAlwaysInScope`, each by the instruction that took the step, and
  `OwnerInvokeAlwaysLeavesCovered`, which compares the valuation of the recorded positions
  with that of the real balances: collateral is no larger there (a sum over positions
  that is monotone in each), claims are the same (`NotesUpToDate`).

`PositionListProofs`. `ListInv` is the type invariant, `MapMirrorsSlots`, and that keys in
use have a mint and a slot with an address. `add` appends and sorts: the sorted sequence is
only characterised (the same keys, in order), and shown unique. `remove` shifts. The
bisection is a recursive function; its lemma says that from any bounds between which the
mint would have to be it returns the mint's index, or none, by induction over the
distance of the bounds. Theorems: `MapAlwaysMirrorsSlots`, `SearchAlwaysExact`,
`StaleKeysAlwaysResolve`, and the refinement `ListImplementsMap`: each step of the list
is one step of `PositionMap`'s, or none.

`RewardsProofs`. Staking and rewards share the stake pool, so they are proved about
together. `RewardsInv` has the types, that no stake exists before its pool, that an
unbonding account belongs to a stake account, that the sums of shares agree in the
pools and for each user, and that the reward accounts are covered. The agreement of
each user's own unbondings is the strengthening: the totals alone do not allow the
withdrawal of one. `StakeNeverDiluted` is an inequality of products, of tokens and
shares before and after, for both rounding directions. Theorems: `RewardsInvAlways`,
`SharesAndTokensAlwaysAgree`, `VotesAlwaysBacked`, `StakeNeverDiluted`,
`RewardsAlwaysCovered`.

`ComponentProofs`, governance. Configurations, the accounts that copied them, and the cranks each
belong to their airspace (three separate invariants, whose steps do not meet); for
pools, that entries and pools exist for the same tokens and name the same oracle.
Theorems: `AirspacesAlwaysSeparate`, `EntriesAlwaysDescribePools`.

`ComponentProofs`, swaps. An action property, `SwapAlwaysSpendsItsInput`, whose invariant is
only that balances are typed. The legs of a route are a fold over states of a swap; what
every leg keeps is `Keeps(s, W)`: apart from the amount that the next leg is given, each
transit account still holds what it held before (`HalfKeeps`, `LegKeeps`, `RoutesKeep`).
A leg is given only what the balance of its token rose by, although two legs may meet
in one account and a venue may leave part of its input. `FeeBounds` bounds the
truncated fee; each of the three swaps is then shown to spend one token and gain another.

`ComponentProofs`, order book model. The chart adds up whole orders, each quote rounded down;
the simulated lender spends one sum, each fill rounded to what the rest buys. Along the
orders of a point, the lender who brings its quote always has at least what the orders to come
cost (`LenderTakes`), so that each order gives him its tickets but for `RoundedOff`, which is less than
what one unit of quote buys and one more (`RoundedOffIsLittle`). The functions are
unfolded step by step (`ChartSteps`, `SimulationSteps`, `LostSteps`), a point is that of its last order
(`PointOf`), and `PointFilled` puts them together. That the orders are typed is the invariant
`BookTyped` of the specification `BookSpec`. The proof corrected the property: it had allowed one ticket
for each order, which holds for prices of at least a half only, and the run had no lower ones.
Theorem: `ChartAlwaysFillable`.

`ComponentProofs`, simulated orders. `simulate_taker` and `simulate_maker` go through the book with a
loop and roundings of their own; the program fills by base and by quote, at the resting orders'
prices, until one of them is used up. `Pace` puts the two side by side after every order: the lender's
numbers are the same, the borrower's simulation has filled as much quote or up to one unit more for each match. `FrontSpent` is
why they stop together: a matched order that is still the best one afterwards leaves at
most one unit of quote. `Begun` is the first step, `Alongside` the induction along the orders. Where the rest
is posted is decided by `BookAlwaysOrderly` (`InsertPlace`, `DepthIs`, `DepthShown`). The theorem,
`SimulationAlwaysAgrees`, has two hypotheses, which the run's constants satisfy. `MIN_BASE_SIZE_POSTED = MinBase`:
the client posts by a constant of its own, and where a market's differs the two do differ. `Roomy`: the
orders together and what the simulated order adds to them are within `MaxQty`, a bound that the program's
call has and the client's loop has not; in the code it is 2^64 - 1. The proof corrected the property. It had
claimed that a posting the client shows always happens; at a price below a half a
single unit of quote can be left after the last fill, which buys more base than the
smallest order in the simulation, and which the program no longer posts. The run now has such a price.

`MarginPoolProofs`. First the arithmetic: `TokensToNotes` and `NotesToTokens` bound what
the truncated product or quotient and the rounding that follows it lose, and
`ConvertFavours` that every conversion of every action favours the pool up to
`rate \div ONE`. `ExpNat` shows the series of the compound interest to be a natural number,
by induction along its three recursive functions. Then every method of the pool's
record: it keeps the type, the value under the deposit notes (`NotDiluted`) and the debt
over the loan notes (`NotCharged`); margin_borrow composes two of them at a rate the
first leaves alone. At last the handlers, one lemma each, with the invariant `PoolInv`:
types, `LedgerMatchesTokens`, and value under the notes of users. `WithdrawsAll` is why
that one holds: what is worth the whole pool costs every note there is. The ledger is
needed for it, because only with it no notes in the pool's record means that no user
has any. Theorems: `PoolTypeAlways`, `LedgerAlwaysMatchesTokens`,
`ArithmeticAlwaysDefined`, `DepositorsNeverDiluted`, `DebtorsNeverCharged`.

`FixedTermProofs`. The inductive invariant `FixedTermInv` has five parts.

* `MarketInv`: orders and events have the fields of their kind and belong to a user who
  may place such an order, and the queue is within its capacity.
* `FundsInv`: tickets, vault, clock and deposits are typed.
* `LedgerInv`: for each user, the open loans are the numbers from the next unpaid one to
  the next new one, without gaps; they mature in that order, none later than a tenor
  from now; the record's maturity is that of the first; `committed` is the sum of their
  balances. `PastDueIsExact` alone is not inductive: after the first loan is repaid it
  says nothing about the maturity that the next one must bring.
* `AccountedInv`: `pending` is the base of the user's borrow orders on the book and in the
  queue, and the claims are not below the debt.
* `CoveredInv`: `Solvent` with the events' entitlements and loans in one sum.

The argument goes from the order book outwards. The matching is a recursive function from
step to step, and its lemmas state what a step keeps: orders and events stay typed, and a
*weight*, any sum of an amount per order and an amount per event, does not grow by
more than the taker pays for (`Conserves`, `MatchOneWeight`). Debt is one weight, with
equality, as each user's base is neither lost nor doubled by a fill, a self-trade or a
cancellation; what the market owes is another, in which the truncation of each
quote favours the market; an event that is popped takes its weight with it
(`EventPopped`). Then the methods of `Debt` and `Assets`, one lemma each, over integers, as in the code: the
handler checks afterwards that none is negative. A handler lastly is shown to be one of
three kinds of step: `UserStep` replaces one user's record and loans (`LoanAdded` and
`LoanPaid` say what happens to the numbers and the sums), `KeptStep` leaves the loans
alone, and the others touch no record; `UserSteps`, `KeptSteps` and `NoUserStep` say that each keeps `LedgerInv` and
`AccountedInv`, and what is left per handler is the balance of `CoveredInv`.
Theorems: `FixedTermInvAlways`, `MarketTypeAlways`, `MarketAlwaysSolvent`,
`DebtAlwaysAccounted`, `PastDueAlwaysExact`. They hold for any finite set of margin users and wallets, any orders, fees, tenors, value of
the fixed-point one and queue capacity. `fp32` truncation is the division of natural
numbers, and overflow of 64 bits is left out, as in the model.

`ClientProofs`, crank. `PendingIsTracked` is not inductive: an account in a chunk that has landed is
tracked only for that settlement, one noted by a transaction that has not landed may be
dropped with it, and a transaction given up may be executed at any later moment. `CrankInv` counts what is
sure to be settled yet (`Held`): both queues, chunks that have not landed, and the accounts noted once the
transaction has landed; what has to be settled and is not held is `missed`. It says
that the accounts of a transaction under way are noted (`TxIsNoted`), although the
prepared events and the sent ones differ by one, so that giving it up misses exactly those; and what a late
transaction consumes is what it finds, not what it was made for (`FoundFirst`, `ConsumedSafely`, `LateKeeps`). The queues have no duplicates and their
sets are those of their lists (`NoDupes`), without which an item popped could stay
"queued" and be refused for good. Lemmas on the operators: pushing many, popping many,
the accounts of events and the cutting into chunks lose nothing (`PushedMany`,
`PoppedMany`, `AccountsFound`, `ChunkedWaits`, `ChunkRemoved`). Theorems: `CrankInvAlways`,
`PendingAlwaysTracked`: without failing calls no account is lost; with them, only those of a
transaction that was reported as failed and executed nevertheless.

`ClientProofs`, client of a margin account. `CalmPlansLand` speaks of outcomes, so that it says nothing of what has yet
to be sent. `ClientInv` says of the plan that it is set up (`SetUp`): there is a chain of sets of positions, from the
registered ones on, in which every instruction finds what it needs and does not register
what is there (`Leads` along a transaction, `Chain` along the plan). Each of the builder's operations is shown to
give such a chain from any account (`GetOrCreateDeposit`, `SwapSetUp`, `CloseEmptySetUp`, ...), and executing
the first transaction to leave one (`ExecutedEnds`, `ChainRest`), whatever the valuations say. For an order after a refresh, the refreshers
of the three kinds together price every position (`AllRefreshed`), which needs that the two positions of a
market come and go together (`Paired`): the refresh of a market requires its claims. What has been refreshed stays fresh until the order
(`SendRefreshed`). Theorems: `ClientInvAlways`, `CalmPlansAlwaysLand`.

`ClientProofs`, packing. `CondensedIsBest` speaks of the answer only. `CondenseInv` has two parts. `Packed`:
whatever number of groups a way to cut the list takes, it is not better than what has been made of
those already packed (`NotBetter`: with as many transactions it takes no more groups, with as many
groups it has no fewer transactions, and its first is no longer). `Searching`: the lower bound
of the search fits and nothing above the upper one does. Each attempt narrows the bounds
(`SearchNarrows`) because a part of a transaction that fits does (`FitsPart`: accounts are
counted once, so sizes are not additive, but they do not fall), wherever the guess lands; so
what is joined in the end is the most that fits, and `PackedNext` is the greedy argument, by the last
transaction of the other way (`WayEnding`). `condense` packs everything reversed and reverses the
answer: `WayReversed` shows that the ways to cut a reversed list are the reversed ways, and
`FitsReversed` that a transaction is as large backwards. Groups without instructions are the
special case throughout: they are in no transaction. Theorems: `CondenseInvAlways`,
`CondensedAlwaysBest`. They suppose, as the property does, that each group fits alone; what
happens otherwise is the finding of the run `condense`.

`SumTheorems`. The provers cannot instantiate the library's induction theorems, which take
an operator. These lemmas state induction with a set of good values instead
(`NatSetInduction`, `FiniteSetInduction`), from the existence of least elements; the
recursive functions and the sums are then handled as sets. A sum does not depend on the
order its elements are taken in (`SumRemove`), which makes the community modules' fold,
with its choice of an element, usable: `SumChange` and `SumExcept` for a payment,
`SumMonotone` for valuations, `SumCovers` for a share of a whole.

Only model-checked: liveness under fairness (`LiquidationEnds`, `QueueDrainsWithoutSales`, `DistributionPaysOut`,
`EventsAreConsumed`, `ConsumedIsSettled`), which the prover does not treat. Every invariant and
action property of a passing run is proved.

`InvocationTypeOK` and `PoolTypeAlways` are proved and are in no run of their own: the
theorems they belong to imply them.

## 5. Not modelled

* margin: several changes in one adapter result (one per CPI is modelled); changes of
  configuration while a position is open are in `MarginConfig`, apart from `Margin`;
  lookup tables forward to a registry and have no state here.
* margin-pool: the prices of notes (`calculate_prices`), which `Margin` takes as inputs of any
  value and age, and overflow of 64-bit totals.
* fixed-term: `modify_market` and `recover_uninitialized`, which write or close an account byte
  by byte; users' adapter event queues, which the code cannot write to.
* metadata: `remove_entry`, which no program calls.
* client: RPC, wallets, caches of the web client, formatting; a copy of the book that is
  stale when simulated.
* `programs/test-service`, environment, simulation and testing libraries, command-line
  tools, the web application: set-up, I/O and user interface.

------------------------------- MODULE Margin -------------------------------
(***************************************************************************)
(* A margin account of the margin program (programs/margin): its positions,*)
(* the token accounts behind them, the instructions that the owner, a      *)
(* liquidator or anyone may send, and its liquidation.                     *)
(*                                                                         *)
(* One account, its PDA and the LiquidationState PDAs of the liquidators   *)
(* are followed; instructions are atomic, as transactions are on chain. An *)
(* instruction that returns an error has no effect and is a disabled step. *)
(*                                                                         *)
(* The code only ever compares `now - timestamp` with a limit. The model   *)
(* keeps that difference, the age, capped just above its limit; a tick of  *)
(* the clock ages everything at once, so time is unbounded.                *)
(*                                                                         *)
(* Adapters, the token program and the oracle are external: a CPI may move *)
(* the tokens it is entitled to move and may return one position change.   *)
(***************************************************************************)
EXTENDS Integers, FiniteSets, Sums

CONSTANTS
    Deposits,           \* Collateral mints without adapter (SPL deposits)
    Notes,              \* Collateral mints of an adapter (pool deposit notes)
    Claims,             \* Claim mints (loan notes)
    Pledges,            \* AdapterCollateral mints
    AdapterOf,          \* AdapterOf[m]: the adapter of a mint, or NoAdapter
    Adapters,           \* programs that have an adapter config
    Owner,              \* owner of the account
    Liquidators,        \* holders of a permit with LIQUIDATE
    Modifier,           \* Modifier[m]: TokenConfig.value_modifier, percent
    MaxStaleness,       \* MaxStaleness[m]: TokenConfig.max_staleness
    Prices,             \* prices the oracle and the adapters quote
    ChangeTypes,        \* the kinds of position change the adapters return
    MaxTokens,          \* bound on every token balance
    MaxGain,            \* bound on the equity a liquidation may gain
    ONE_128,            \* Number128::ONE (10^10 in the code)
    MAX_PRICE_QUOTE_AGE,
    MAX_ORACLE_STALENESS,
    LIQUIDATION_TIMEOUT,
    LIQUIDATION_MAX_TOTAL_EQUITY_LOSS_BPS

NoAdapter    == "no adapter"
NoLiquidator == "no liquidator"
Anyone       == "anyone"

Mints == Deposits \cup Notes \cup Claims \cup Pledges

\* Users that sign instructions.
Signers == {Owner, Anyone} \cup Liquidators

ASSUME MarginAssumption ==
    /\ IsFiniteSet(Mints)
    /\ Deposits \cap (Notes \cup Claims \cup Pledges) = {}
    /\ Notes \cap (Claims \cup Pledges) = {}
    /\ Claims \cap Pledges = {}
    /\ AdapterOf \in [Mints -> Adapters \cup {NoAdapter}]
    /\ \A m \in Mints : AdapterOf[m] = NoAdapter <=> m \in Deposits
    /\ NoLiquidator \notin Signers
    /\ Owner \notin Liquidators /\ Anyone \notin Liquidators
    /\ Modifier \in [Mints -> Nat]
    /\ MaxStaleness \in [Mints -> Nat]
    /\ Prices \subseteq Nat
    /\ ONE_128 \in Nat \ {0} /\ ONE_128 % 100 = 0
    /\ {MaxTokens, MaxGain, MAX_PRICE_QUOTE_AGE, MAX_ORACLE_STALENESS,
        LIQUIDATION_TIMEOUT, LIQUIDATION_MAX_TOTAL_EQUITY_LOSS_BPS} \subseteq Nat

VARIABLES
    open,           \* the margin account exists
    liquidator,     \* MarginAccount.liquidator, NoLiquidator for default
    position,       \* position[m]: the AccountPosition of mint m
    tokens,         \* tokens[m]: amount in the token account of position m
    liquidation,    \* liquidation[l]: LiquidationState PDA of (account, l)
    lost,           \* lost[l]: equity lost in the steps of l (history)
    op              \* the last instruction and its signer (history)

vars == <<open, liquidator, position, tokens, liquidation, lost, op>>

Amounts == 0 .. MaxTokens

-----------------------------------------------------------------------------
(* state/account/positions.rs                                              *)

PriceInfo == [value : Prices \cup {0}, age : 0 .. MAX_PRICE_QUOTE_AGE + 1,
              is_valid : BOOLEAN]

\* PriceInfo::new_invalid has timestamp 0, which is as old as can be.
new_invalid == [value |-> 0, age |-> MAX_PRICE_QUOTE_AGE + 1, is_valid |-> FALSE]
new_valid(v) == [value |-> v, age |-> 0, is_valid |-> TRUE]

\* PriceChangeInfo::try_into: an average of zero, a confidence interval too
\* wide for it, or an old publish time make the price invalid; a good quote
\* is stamped with the current time, not with its publish time.
try_into(q) ==
    IF q.twap = 0 \/ ~q.confident \/ q.publish_age > MAX_ORACLE_STALENESS
    THEN new_invalid
    ELSE new_valid(q.value)

PriceChangeInfo == [value : Prices, twap : {0, 1}, confident : BOOLEAN,
                    publish_age : {0, MAX_ORACLE_STALENESS + 1}]

QuotedPrices == {try_into(q) : q \in PriceChangeInfo}

\* The age of a balance is only kept where the mint limits it.
OldestBalance(m) == IF MaxStaleness[m] = 0 THEN 0 ELSE MaxStaleness[m] + 1

AccountPosition(m) ==
    [registered : BOOLEAN, balance : Amounts,
     balance_age : 0 .. OldestBalance(m), price : PriceInfo,
     required : BOOLEAN, past_due : BOOLEAN]

\* A free slot: all zero, timestamps included.
Zeroed(m) ==
    [registered |-> FALSE, balance |-> 0, balance_age |-> OldestBalance(m),
     price |-> new_invalid, required |-> FALSE, past_due |-> FALSE]

\* Slip: the new balance is added to the old one.
set_balance_adds(p, b) == [p EXCEPT !.balance = @ + b, !.balance_age = 0]

\* set_balance stamps the balance with the current time.
set_balance(p, b) == [p EXCEPT !.balance = b, !.balance_age = 0]

\* calculate_value: balance times price, in fixed point.
value(p) == p.balance * p.price.value * ONE_128

\* collateral_value: the share of the value that counts.
collateral_value(m, p) == (((Modifier[m] * ONE_128) \div 100) * value(p)) \div ONE_128

\* required_collateral_value: a claim without leverage requires more than
\* any account has (Number128::MAX).
NumberMax == 1000 * 1000 * 1000

required_collateral_value(m, p) ==
    IF Modifier[m] = 0 THEN NumberMax
    ELSE (value(p) * ONE_128) \div ((Modifier[m] * ONE_128) \div 100)

\* Slip: the adapter's word is enough for its own positions.
may_be_registered_or_closed_by_adapter(m, authority, adapter) ==
    authority \/ adapter

\* may_be_registered_or_closed: collateral by the authority alone; what an
\* adapter manages, by the authority and that adapter together.
may_be_registered_or_closed(m, authority, adapter) ==
    IF m \in Deposits \cup Notes THEN authority /\ ~adapter
                                 ELSE authority /\ adapter

-----------------------------------------------------------------------------
(* state/account.rs: valuation over the positions P.                       *)

\* Positions the valuation looks at.
Counted(P) == {m \in Mints : P[m].registered /\ P[m].balance # 0}

\* stale_reason is Some.
Stale(P, m) ==
    \/ ~P[m].price.is_valid
    \/ MaxStaleness[m] > 0 /\ P[m].balance_age > MaxStaleness[m]
    \/ P[m].price.age > MAX_PRICE_QUOTE_AGE

Debts(P)      == Counted(P) \cap Claims
Assets(P)     == {m \in Counted(P) \ Claims : ~Stale(P, m)}
StaleAssets(P) == {m \in Counted(P) \ Claims : Stale(P, m)}

\* valuation fails on a stale claim.
ValuationOk(P) == \A m \in Debts(P) : ~Stale(P, m)

liabilities(P) == SumOver([m \in Mints |-> value(P[m])], Debts(P))

equity(P) == SumOver([m \in Mints |-> value(P[m])], Assets(P)) - liabilities(P)

required_collateral(P) ==
    SumOver([m \in Mints |-> required_collateral_value(m, P[m])], Debts(P))

effective_collateral(P) ==
    SumOver([m \in Mints |-> collateral_value(m, P[m])], Assets(P))
        - liabilities(P)

past_due(P) == \E m \in Debts(P) : P[m].past_due

\* verify_healthy and verify_unhealthy, each after a successful valuation.
verify_healthy(P) ==
    ValuationOk(P) /\ required_collateral(P) <= effective_collateral(P)

verify_unhealthy(P) ==
    /\ ValuationOk(P)
    /\ StaleAssets(P) = {}
    /\ required_collateral(P) > effective_collateral(P) \/ past_due(P)

is_liquidating == liquidator # NoLiquidator

\* verify_authority: the liquidator during a liquidation, else the owner.
verify_authority(who) ==
    IF is_liquidating THEN who = liquidator ELSE who = Owner

-----------------------------------------------------------------------------

NoLiquidation == [active |-> FALSE, elapsed |-> 0, equity_loss |-> 0,
                  max_equity_loss |-> 0]

Init ==
    /\ open = FALSE
    /\ liquidator = NoLiquidator
    /\ position = [m \in Mints |-> Zeroed(m)]
    /\ tokens = [m \in Mints |-> 0]
    /\ liquidation = [l \in Liquidators |-> NoLiquidation]
    /\ lost = [l \in Liquidators |-> 0]
    /\ op = [name |-> "init", by |-> Anyone]

By(name, who) == op' = [name |-> name, by |-> who]

-----------------------------------------------------------------------------
(* Helpers on the account: each changes one position.                      *)

\* Token accounts whose authority is the margin account; the others belong
\* to their adapter.
OwnedByMargin(m) == m \in Deposits \cup Notes

\* MarginAccount::register_position on a mint that is not registered yet.
Registered(m) == [Zeroed(m) EXCEPT !.registered = TRUE]

\* Slip: the REQUIRED flag is not looked at.
MayUnregister_ignoring_flags(p, m, authority, adapter) ==
    /\ p.registered
    /\ may_be_registered_or_closed(m, authority, adapter)
    /\ p.balance = 0

\* MarginAccount::unregister_position's checks.
MayUnregister(p, m, authority, adapter) ==
    /\ p.registered
    /\ may_be_registered_or_closed(m, authority, adapter)
    /\ p.balance = 0
    /\ ~p.required

\* What a handler leaves alone outside the account's positions.
OnlyPositions == UNCHANGED <<open, liquidator, tokens, liquidation, lost>>

-----------------------------------------------------------------------------
(* Account life cycle.                                                     *)

\* create_account: the PDA is initialised, with no liquidator.
create_account ==
    /\ ~open
    /\ open' = TRUE
    /\ liquidator' = NoLiquidator
    /\ position' = [m \in Mints |-> Zeroed(m)]
    /\ By("create_account", Owner)
    /\ UNCHANGED <<tokens, liquidation, lost>>

\* close_account: signed by the owner, with no position left.
close_account ==
    /\ open
    /\ \A m \in Mints : ~position[m].registered
    /\ open' = FALSE
    /\ liquidator' = NoLiquidator
    /\ By("close_account", Owner)
    /\ UNCHANGED <<position, tokens, liquidation, lost>>

-----------------------------------------------------------------------------
(* Positions.                                                              *)

\* register_position: opens the token account (it must not exist, and is
\* closed only with its position) and registers the mint of an adapter.
register_position(who, m) ==
    /\ open
    /\ AdapterOf[m] # NoAdapter
    /\ verify_authority(who)
    /\ ~position[m].registered
    /\ may_be_registered_or_closed(m, TRUE, FALSE)
    /\ position' = [position EXCEPT ![m] = Registered(m)]
    /\ By("register_position", who)
    /\ OnlyPositions

\* create_deposit_position: over an associated token account, which may
\* already hold tokens. A registered mint stays as it is.
create_deposit_position(who, m) ==
    /\ open
    /\ m \in Deposits
    /\ verify_authority(who)
    /\ may_be_registered_or_closed(m, TRUE, FALSE)
    /\ ~position[m].registered
    /\ position' = [position EXCEPT ![m] = Registered(m)]
    /\ By("create_deposit_position", who)
    /\ OnlyPositions

\* close_position: unregister, then close the token account if it is the
\* margin account's; the token program refuses to close one with tokens.
close_position(who, m) ==
    /\ open
    /\ verify_authority(who)
    /\ MayUnregister(position[m], m, TRUE, FALSE)
    /\ OwnedByMargin(m) => tokens[m] = 0
    /\ position' = [position EXCEPT ![m] = Zeroed(m)]
    /\ By("close_position", who)
    /\ OnlyPositions

\* update_position_balance: sent by anyone.
update_position_balance(m) ==
    /\ open
    /\ position[m].registered
    /\ position' = [position EXCEPT ![m] = set_balance(@, tokens[m])]
    /\ By("update_position_balance", Anyone)
    /\ OnlyPositions

\* refresh_deposit_position: sent by anyone; the token account is optional.
refresh_deposit_position(m, price, with_balance) ==
    /\ open
    /\ m \in Deposits
    /\ position[m].registered
    /\ position' = [position EXCEPT ![m] =
            [IF with_balance THEN set_balance(@, tokens[m]) ELSE @
                EXCEPT !.price = price]]
    /\ By("refresh_deposit_position", Anyone)
    /\ OnlyPositions

\* Slip: a transfer does not record the new balance.
transfer_deposit_unrecorded(m, amount) ==
    /\ open
    /\ position[m].registered /\ OwnedByMargin(m)
    /\ amount # tokens[m]
    /\ tokens' = [tokens EXCEPT ![m] = amount]
    /\ By("transfer_deposit", Owner)
    /\ UNCHANGED <<open, liquidator, position, liquidation, lost>>

\* transfer_deposit: the owner moves tokens into or out of a position's
\* token account, leaving amount in it, and its balance is recorded.
transfer_deposit(m, amount) ==
    /\ open
    /\ position[m].registered /\ OwnedByMargin(m)
    /\ amount # tokens[m]
    /\ tokens' = [tokens EXCEPT ![m] = amount]
    /\ position' = [position EXCEPT ![m] = set_balance(@, amount)]
    /\ By("transfer_deposit", Owner)
    /\ UNCHANGED <<open, liquidator, liquidation, lost>>

\* admin_transfer_position: the governor moves tokens between the accounts'
\* positions; this account is the source or the target.
admin_transfer_position(m, amount) ==
    /\ open
    /\ position[m].registered /\ OwnedByMargin(m)
    /\ tokens' = [tokens EXCEPT ![m] = amount]
    /\ position' = [position EXCEPT ![m] = set_balance(@, amount)]
    /\ By("admin_transfer_position", Anyone)
    /\ UNCHANGED <<open, liquidator, liquidation, lost>>

-----------------------------------------------------------------------------
(* Invoking adapters (adapter.rs).                                         *)

\* An adapter that returns no data.
NoChange == [type |-> "none", mint |-> CHOOSE m \in Mints : TRUE]

\* One entry of AdapterResult.position_changes.
PositionChange == {NoChange}
    \cup [type : ChangeTypes \ {"price"}, mint : Mints]
    \cup [type : ChangeTypes \cap {"price"}, mint : Mints, price : QuotedPrices]

\* Adapters register their own notes only, and close a note account they
\* have emptied (external: how the pools and the fixed-term markets do it).
Returnable(a, T, c) ==
    /\ c.type = "register" => AdapterOf[c.mint] = a
    /\ c.type = "close" => T[c.mint] = 0

\* The token balances a CPI may leave (external): a token account has to
\* exist to change; without the margin account's signature its own token
\* accounts can only be paid into.
CpiTokens(signed, c) ==
    {T \in [Mints -> Amounts] : \A m \in Mints :
        T[m] = tokens[m] \/
            /\ \/ position[m].registered
               \/ m \in Deposits
               \/ c.type = "register" /\ c.mint = m
            /\ OwnedByMargin(m) /\ ~signed => T[m] > tokens[m]}

\* Slip: balances are not recorded after the CPI.
update_balances_skipped(P, T, passed) == P

\* update_balances: every registered position whose token account was
\* passed to the CPI gets its new balance.
update_balances(P, T, passed) ==
    [m \in Mints |-> IF m \in passed /\ P[m].registered
                     THEN set_balance(P[m], T[m]) ELSE P[m]]

\* Slip: any adapter may speak for any position.
ChangeOk_unscoped(P, a, signed, c) == TRUE

\* apply_changes does not return an error for change c of adapter a.
ChangeOk(P, a, signed, c) ==
    LET p == P[c.mint]
        own == AdapterOf[c.mint] = a
    IN  /\ p.registered => own \/ c = NoChange
        /\ c.type \in {"set_required", "clear_required",
                       "set_past_due", "clear_past_due"} => p.registered
        /\ c.type = "register" /\ ~p.registered =>
              may_be_registered_or_closed(c.mint, signed, own)
        /\ c.type = "close" /\ p.registered =>
              MayUnregister(p, c.mint, signed, own)

\* apply_changes: the position of the change's mint afterwards.
Changed(p, T, c) ==
    CASE c.type = "register" /\ ~p.registered ->
            set_balance(Registered(c.mint), T[c.mint])
      [] c.type = "close" -> Zeroed(c.mint)
      [] c.type = "price" /\ p.registered -> [p EXCEPT !.price = c.price]
      [] c.type = "set_required"   -> [p EXCEPT !.required = TRUE]
      [] c.type = "clear_required" -> [p EXCEPT !.required = FALSE]
      [] c.type = "set_past_due"   -> [p EXCEPT !.past_due = TRUE]
      [] c.type = "clear_past_due" -> [p EXCEPT !.past_due = FALSE]
      [] OTHER -> p

\* adapter::invoke with handle_adapter_result: the CPI leaves tokens T, all
\* token accounts it changed are among the passed ones, then the balances
\* and the returned change are recorded.
invoke(a, signed) ==
    \E c \in PositionChange :
      \E T \in CpiTokens(signed, c) :
        \E passed \in {Mints, {m \in Mints : T[m] # tokens[m]}} :
            LET P == update_balances(position, T, passed)
            IN  /\ a \in Adapters
                /\ Returnable(a, T, c)
                /\ ChangeOk(P, a, signed, c)
                /\ tokens' = T
                /\ position' = [P EXCEPT ![c.mint] = Changed(@, T, c)]

\* adapter_invoke: the owner, not during a liquidation, and the account has
\* to be healthy afterwards.
adapter_invoke(a) ==
    /\ open
    /\ ~is_liquidating
    /\ invoke(a, TRUE)
    /\ verify_healthy(position')
    /\ By("adapter_invoke", Owner)
    /\ UNCHANGED <<open, liquidator, liquidation, lost>>

\* accounting_invoke: anyone; not signed by the margin account.
accounting_invoke(a) ==
    /\ open
    /\ invoke(a, FALSE)
    /\ By("accounting_invoke", a)
    /\ UNCHANGED <<open, liquidator, liquidation, lost>>

-----------------------------------------------------------------------------
(* Liquidation.                                                            *)

\* liquidate_begin: the LiquidationState PDA is created (it must not exist)
\* and the loss budget is a share of the liabilities. The case of the same
\* liquidator is unreachable!() in the code.
liquidate_begin(l) ==
    /\ open
    /\ ~liquidation[l].active
    /\ verify_unhealthy(position)
    /\ liquidator = NoLiquidator
    /\ liquidator' = l
    /\ liquidation' = [liquidation EXCEPT ![l] =
            [active |-> TRUE, elapsed |-> 0, equity_loss |-> 0,
             max_equity_loss |->
                (liabilities(position)
                    * ((LIQUIDATION_MAX_TOTAL_EQUITY_LOSS_BPS * ONE_128) \div 10000))
                        \div ONE_128]]
    /\ lost' = [lost EXCEPT ![l] = 0]
    /\ By("liquidate_begin", l)
    /\ UNCHANGED <<open, position, tokens>>

\* Slip: the state is closed and the account stays in liquidation.
liquidate_end_half(who, l) ==
    /\ open
    /\ liquidator = l
    /\ liquidation[l].active
    /\ who = l \/ liquidation[l].elapsed >= LIQUIDATION_TIMEOUT
    /\ liquidation' = [liquidation EXCEPT ![l] = NoLiquidation]
    /\ By("liquidate_end", who)
    /\ UNCHANGED <<open, liquidator, position, tokens, lost>>

\* Slip: the timeout is forgotten.
liquidate_end_no_timeout(who, l) ==
    /\ open
    /\ liquidator = l
    /\ liquidation[l].active
    /\ who = l
    /\ liquidator' = NoLiquidator
    /\ liquidation' = [liquidation EXCEPT ![l] = NoLiquidation]
    /\ By("liquidate_end", who)
    /\ UNCHANGED <<open, position, tokens, lost>>

\* liquidate_end: by the liquidator, or by anyone after the timeout; the
\* LiquidationState is closed.
liquidate_end(who, l) ==
    /\ open
    /\ liquidator = l
    /\ liquidation[l].active
    /\ who = l \/ liquidation[l].elapsed >= LIQUIDATION_TIMEOUT
    /\ liquidator' = NoLiquidator
    /\ liquidation' = [liquidation EXCEPT ![l] = NoLiquidation]
    /\ By("liquidate_end", who)
    /\ lost' = [lost EXCEPT ![l] = 0]
    /\ UNCHANGED <<open, position, tokens>>

\* Slip: every step starts again from zero.
Charge_per_step(L, loss) == [L EXCEPT !.equity_loss = loss]

\* update_and_verify_liquidation: losses and gains of all steps add up.
Charge(L, loss) == [L EXCEPT !.equity_loss = @ + loss]

\* liquidator_invoke: checks the LiquidationState against its signer and
\* the margin account, and the loss in equity against the budget.
liquidator_invoke(l, a) ==
    /\ open
    /\ liquidation[l].active
    /\ ValuationOk(position)
    /\ invoke(a, TRUE)
    /\ ValuationOk(position')
    /\ liquidation' = [liquidation EXCEPT ![l] =
            Charge(@, equity(position) - equity(position'))]
    /\ liquidation'[l].equity_loss <= liquidation[l].max_equity_loss
    /\ liquidation'[l].equity_loss >= -MaxGain
    /\ lost' = [lost EXCEPT ![l] = @ + equity(position) - equity(position')]
    /\ By("liquidator_invoke", l)
    /\ UNCHANGED <<open, liquidator>>

-----------------------------------------------------------------------------
(* The environment (external).                                             *)

Older(age, oldest) == IF age < oldest THEN age + 1 ELSE age

\* A second passes.
tick ==
    /\ position' = [m \in Mints |-> [position[m] EXCEPT
            !.balance_age = Older(@, OldestBalance(m)),
            !.price.age = Older(@, MAX_PRICE_QUOTE_AGE + 1)]]
    /\ liquidation' = [l \in Liquidators |->
            IF liquidation[l].active
            THEN [liquidation[l] EXCEPT !.elapsed = Older(@, LIQUIDATION_TIMEOUT)]
            ELSE liquidation[l]]
    /\ By("tick", Anyone)
    /\ UNCHANGED <<open, liquidator, tokens, lost>>

\* Token movements outside the margin program: anyone can pay into a token
\* account, an adapter changes the notes it issues (a loan repaid by a third
\* party, an order filled).
outside_transfer(m, amount) ==
    /\ amount # tokens[m]
    /\ position[m].registered \/ m \in Deposits
    /\ OwnedByMargin(m) => amount > tokens[m]
    /\ tokens' = [tokens EXCEPT ![m] = amount]
    /\ By("outside", Anyone)
    /\ UNCHANGED <<open, liquidator, position, liquidation, lost>>

Next ==
    \/ create_account
    \/ close_account
    \/ \E who \in Signers, m \in Mints :
         \/ register_position(who, m)
         \/ create_deposit_position(who, m)
         \/ close_position(who, m)
    \/ \E m \in Mints : update_position_balance(m)
    \/ \E m \in Mints, price \in QuotedPrices, b \in BOOLEAN :
         refresh_deposit_position(m, price, b)
    \/ \E m \in Mints, amount \in Amounts :
         \/ transfer_deposit(m, amount)
         \/ admin_transfer_position(m, amount)
         \/ outside_transfer(m, amount)
    \/ \E a \in Adapters :
         \/ adapter_invoke(a)
         \/ accounting_invoke(a)
         \/ \E l \in Liquidators : liquidator_invoke(l, a)
    \/ \E l \in Liquidators :
         \/ liquidate_begin(l)
         \/ \E who \in Signers : liquidate_end(who, l)
    \/ tick

Spec == Init /\ [][Next]_vars

-----------------------------------------------------------------------------
(* Properties.                                                             *)

TypeOK ==
    /\ open \in BOOLEAN
    /\ liquidator \in Liquidators \cup {NoLiquidator}
    /\ \A m \in Mints : position[m] \in AccountPosition(m)
    /\ tokens \in [Mints -> Amounts]
    /\ \A l \in Liquidators :
          /\ liquidation[l].active \in BOOLEAN
          /\ liquidation[l].elapsed \in 0 .. LIQUIDATION_TIMEOUT

\* The program never believes the account holds more collateral in its own
\* token accounts than it does: whoever moved the tokens, and with whatever
\* instruction, the recorded balance was lowered with them.
CollateralNotOverstated ==
    \A m \in Mints : position[m].registered /\ OwnedByMargin(m) =>
        position[m].balance <= tokens[m]

\* While an account is being liquidated, the liquidator's LiquidationState
\* exists: the liquidation can be ended, and a second liquidate_begin by the
\* same liquidator fails before it reaches unreachable!().
LiquidationHasState ==
    is_liquidating => open /\ liquidation[liquidator].active

\* Over all the steps of a liquidation together, the equity the liquidator
\* has lost stays within the budget set when it began.
LossWithinBudget ==
    \A l \in Liquidators :
        liquidation[l].active => lost[l] <= liquidation[l].max_equity_loss

\* Debt that is up to date when the owner invokes an adapter stays covered:
\* valued with the tokens really in the accounts after the CPI, not with what
\* is recorded of them, the account is healthy. The notes an adapter keeps
\* itself, claims and pledges, have to be recorded well enough before; what
\* the margin account holds always is.
NotesUpToDate ==
    /\ \A m \in Claims : position[m].registered => position[m].balance >= tokens[m]
    /\ \A m \in Pledges : position[m].registered => position[m].balance <= tokens[m]

ActualPositions == [m \in Mints |-> [position[m] EXCEPT !.balance = tokens[m]]]

OwnerInvokeLeavesCovered ==
    [][op'.name = "adapter_invoke" /\ NotesUpToDate =>
          verify_healthy(ActualPositions)']_vars

\* Positions come and go only with the signature of the owner while nobody
\* liquidates the account, or of a liquidator who holds a LiquidationState
\* for it. Nothing anyone else sends adds a debt to the account or drops one.
RegistrationNeedsAuthority ==
    [][\A m \in Mints :
          position[m].registered # position'[m].registered =>
             \/ op'.by = Owner /\ ~is_liquidating
             \/ op'.by \in Liquidators /\ liquidation[op'.by].active]_vars

\* A position with tokens or with the REQUIRED flag is never forgotten.
NothingForgotten ==
    [][\A m \in Mints :
          position[m].registered /\ ~position'[m].registered =>
             /\ ~position[m].required
             /\ OwnedByMargin(m) => tokens[m] = 0 /\ tokens'[m] = 0]_vars

\* An unsigned invocation changes prices and flags of the invoked adapter's
\* own positions only.
AdapterStaysInScope ==
    [][op'.name = "accounting_invoke" =>
          \A m \in Mints : AdapterOf[m] # op'.by =>
             /\ position'[m].price = position[m].price
             /\ position'[m].required = position[m].required
             /\ position'[m].past_due = position[m].past_due]_vars

\* The clock runs, and once a liquidation has timed out somebody ends it:
\* liquidate_end is open to anyone then.
Fairness ==
    /\ WF_vars(tick)
    /\ \A l \in Liquidators : WF_vars(liquidate_end(Anyone, l))

FairSpec == Spec /\ Fairness

\* No liquidation lasts forever, whatever the liquidator and the owner do.
LiquidationEnds == is_liquidating ~> ~is_liquidating

\* lib.rs:415: liquidator_invoke "Requires the account already be in the
\* liquidation state, and the signer must be the same liquidator that
\* started the liquidation state."
InvokeOnlyInLiquidation ==
    op.name = "liquidator_invoke" => liquidator = op.by

\* positions.rs:142, PAST_DUE: "The claim must be repaid immediately. The
\* account will be considered unhealty if there is any balance on this
\* position."
PastDueIsUnhealthy ==
    open /\ ValuationOk(position) /\ past_due(position) =>
        ~verify_healthy(position)

=============================================================================

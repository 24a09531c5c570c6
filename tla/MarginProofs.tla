---------------------------- MODULE MarginProofs ----------------------------
(***************************************************************************)
(* For every set of mints, adapters and liquidators and every choice of    *)
(* limits: a margin account never overstates the collateral it holds       *)
(* itself; whenever it is under liquidation the LiquidationState of its    *)
(* liquidator exists; positions come and go by its authority only, none    *)
(* that is REQUIRED or has tokens goes, and no adapter touches another's;  *)
(* after an invocation by the owner the account is covered by the tokens   *)
(* that are there; and a liquidation stays within its budget.              *)
(***************************************************************************)
EXTENDS Margin, SumTheorems

-----------------------------------------------------------------------------
(* The inductive invariant, in two halves: the positions with the token    *)
(* accounts behind them, and the life cycle of the liquidations.           *)

PositionsTyped(P) ==
    /\ P = [m \in Mints |-> P[m]]
    /\ \A m \in Mints : P[m] \in AccountPosition(m)

PositionsInv ==
    /\ PositionsTyped(position)
    /\ tokens \in [Mints -> Amounts]
    /\ CollateralNotOverstated

LiquidationFields == {"active", "elapsed", "equity_loss", "max_equity_loss"}

LiquidationsInv ==
    /\ open \in BOOLEAN
    /\ liquidator \in Liquidators \cup {NoLiquidator}
    /\ DOMAIN liquidation = Liquidators
    /\ \A l \in Liquidators :
          /\ DOMAIN liquidation[l] = LiquidationFields
          /\ liquidation[l].active \in BOOLEAN
          /\ liquidation[l].elapsed \in 0 .. LIQUIDATION_TIMEOUT
    /\ LiquidationHasState

MarginInv == PositionsInv /\ LiquidationsInv

-----------------------------------------------------------------------------
(* The operators on one position.                                          *)

\* The limits and bounds are natural numbers.
LEMMA Limits ==
  /\ MaxTokens \in Nat /\ MAX_PRICE_QUOTE_AGE \in Nat
  /\ LIQUIDATION_TIMEOUT \in Nat
  /\ \A m \in Mints : MaxStaleness[m] \in Nat
  /\ Deposits \subseteq Mints
  BY MarginAssumption DEF Mints

\* A free slot, and a position as register_position leaves it, are
\* positions with no balance.
LEMMA FreshPositions ==
  ASSUME NEW m \in Mints
  PROVE  /\ Zeroed(m) \in AccountPosition(m)
         /\ Registered(m) \in AccountPosition(m)
         /\ ~Zeroed(m).registered
         /\ Registered(m).balance = 0
<1>1. /\ 0 \in Amounts
      /\ OldestBalance(m) \in 0 .. OldestBalance(m)
  BY Limits DEF Amounts, OldestBalance
<1>2. new_invalid \in PriceInfo
  BY Limits DEF PriceInfo, new_invalid
<1>3. /\ Zeroed(m) \in AccountPosition(m)
      /\ ~Zeroed(m).registered
      /\ Zeroed(m).balance = 0
  BY <1>1, <1>2 DEF Zeroed, AccountPosition
<1> QED BY <1>3 DEF Registered, AccountPosition

\* set_balance records the balance, with a new time stamp, and changes
\* nothing else.
LEMMA SetBalance ==
  ASSUME NEW m \in Mints, NEW p \in AccountPosition(m), NEW b \in Amounts
  PROVE  /\ set_balance(p, b) \in AccountPosition(m)
         /\ set_balance(p, b).balance = b
         /\ set_balance(p, b).registered = p.registered
<1>1. 0 \in 0 .. OldestBalance(m)
  BY Limits DEF OldestBalance
<1> QED BY <1>1 DEF set_balance, AccountPosition

\* Whatever the oracle quotes becomes a well formed price.
LEMMA Quotes == QuotedPrices \subseteq PriceInfo
<1> SUFFICES ASSUME NEW q \in PriceChangeInfo
             PROVE  try_into(q) \in PriceInfo
  BY DEF QuotedPrices
<1> QED
  BY Limits DEF try_into, new_invalid, new_valid, PriceInfo, PriceChangeInfo

\* Recording a price leaves the balance and the registration alone.
LEMMA SetPrice ==
  ASSUME NEW m \in Mints, NEW p \in AccountPosition(m), NEW q \in PriceInfo
  PROVE  /\ [p EXCEPT !.price = q] \in AccountPosition(m)
         /\ [p EXCEPT !.price = q].balance = p.balance
         /\ [p EXCEPT !.price = q].registered = p.registered
  BY DEF AccountPosition

\* A handler that writes one position and its token account keeps the
\* invariant of the positions if it does not overstate that one.
LEMMA WriteOne ==
  ASSUME PositionsInv, NEW m \in Mints, NEW p \in AccountPosition(m),
         NEW t \in Amounts,
         position' = [position EXCEPT ![m] = p],
         tokens' = [tokens EXCEPT ![m] = t],
         p.registered /\ OwnedByMargin(m) => p.balance <= t
  PROVE  PositionsInv'
<1>1. PositionsTyped(position')
  BY DEF PositionsInv, PositionsTyped
<1>2. tokens' \in [Mints -> Amounts]
  BY DEF PositionsInv
<1>3. CollateralNotOverstated'
  BY DEF PositionsInv, PositionsTyped, CollateralNotOverstated, OwnedByMargin
<1> QED BY <1>1, <1>2, <1>3 DEF PositionsInv, PositionsTyped

\* The same for a handler that leaves the token accounts alone.
LEMMA WritePosition ==
  ASSUME PositionsInv, NEW m \in Mints, NEW p \in AccountPosition(m),
         position' = [position EXCEPT ![m] = p], tokens' = tokens,
         p.registered /\ OwnedByMargin(m) => p.balance <= tokens[m]
  PROVE  PositionsInv'
<1>1. tokens[m] \in Amounts /\ tokens' = [tokens EXCEPT ![m] = tokens[m]]
  BY DEF PositionsInv
<1> QED BY <1>1, WriteOne

\* What an adapter's change leaves: the same balance in a position that was
\* registered before, the tokens that are there, or no position.
LEMMA ChangedPosition ==
  ASSUME NEW m \in Mints, NEW p \in AccountPosition(m),
         NEW T \in [Mints -> Amounts],
         NEW c \in PositionChange, c.mint = m
  PROVE  /\ Changed(p, T, c) \in AccountPosition(m)
         /\ \/ ~Changed(p, T, c).registered
            \/ Changed(p, T, c).balance = T[m]
            \/ /\ Changed(p, T, c).registered = p.registered
               /\ Changed(p, T, c).balance = p.balance
<1>1. CASE c.type = "register"
  <2>1. CASE ~p.registered
    <3>1. Changed(p, T, c) = set_balance(Registered(m), T[m])
      BY <1>1, <2>1 DEF Changed
    <3> QED BY <3>1, FreshPositions, SetBalance
  <2>2. CASE p.registered
    BY <1>1, <2>2 DEF Changed
  <2> QED BY <2>1, <2>2
<1>2. CASE c.type = "close"
  BY <1>2, FreshPositions DEF Changed
<1>3. CASE c.type = "price"
  <2>1. c.price \in PriceInfo
    BY <1>3, Quotes DEF PositionChange, NoChange
  <2>2. CASE p.registered
    <3>1. Changed(p, T, c) = [p EXCEPT !.price = c.price]
      BY <1>3, <2>2 DEF Changed
    <3> QED BY <2>1, <3>1, SetPrice
  <2>3. CASE ~p.registered
    <3>1. Changed(p, T, c) = p
      BY <1>3, <2>3 DEF Changed
    <3> QED BY <3>1
  <2> QED BY <2>2, <2>3
<1>4. CASE c.type \notin {"register", "close", "price"}
  <2>1. \/ Changed(p, T, c) = p
        \/ \E b \in BOOLEAN : \/ Changed(p, T, c) = [p EXCEPT !.required = b]
                            \/ Changed(p, T, c) = [p EXCEPT !.past_due = b]
    BY <1>4 DEF Changed
  <2>2. \A b \in BOOLEAN :
          /\ [p EXCEPT !.required = b] \in AccountPosition(m)
          /\ [p EXCEPT !.required = b].balance = p.balance
          /\ [p EXCEPT !.required = b].registered = p.registered
          /\ [p EXCEPT !.past_due = b] \in AccountPosition(m)
          /\ [p EXCEPT !.past_due = b].balance = p.balance
          /\ [p EXCEPT !.past_due = b].registered = p.registered
    BY DEF AccountPosition
  <2> QED BY <2>1, <2>2
<1> QED BY <1>1, <1>2, <1>3, <1>4

-----------------------------------------------------------------------------
(* A CPI to an adapter, signed by the margin account or not.               *)

\* adapter::invoke records the balance of every token account the CPI has
\* changed before it applies the adapter's result.
LEMMA InvokeStep ==
  ASSUME PositionsInv, NEW a, NEW signed, invoke(a, signed)
  PROVE  PositionsInv'
<1>0. PICK c, T, passed :
         /\ c \in PositionChange
         /\ T \in CpiTokens(signed, c)
         /\ passed \in {Mints, {m \in Mints : T[m] # tokens[m]}}
         /\ tokens' = T
         /\ position' = [update_balances(position, T, passed) EXCEPT
                           ![c.mint] = Changed(@, T, c)]
  BY DEF invoke
<1>1. /\ tokens' = T
      /\ position' = [update_balances(position, T, passed) EXCEPT
                        ![c.mint] = Changed(@, T, c)]
  BY <1>0
<1> DEFINE P == update_balances(position, T, passed)
<1>2. T \in [Mints -> Amounts]
  BY <1>0 DEF CpiTokens
<1>3. PositionsTyped(P)
  <2>1. \A m \in Mints : P[m] = IF m \in passed /\ position[m].registered
                               THEN set_balance(position[m], T[m])
                               ELSE position[m]
    BY DEF update_balances
  <2>2. ASSUME NEW m \in Mints PROVE P[m] \in AccountPosition(m)
    <3>1. position[m] \in AccountPosition(m) /\ T[m] \in Amounts
      BY <1>2 DEF PositionsInv, PositionsTyped
    <3> HIDE DEF P
    <3> QED BY <2>1, <3>1, SetBalance
  <2> QED BY <2>2 DEF PositionsTyped, update_balances
<1>4. ASSUME NEW m \in Mints, P[m].registered, OwnedByMargin(m)
      PROVE  P[m].balance <= T[m]
  <2>1. position[m] \in AccountPosition(m) /\ T[m] \in Amounts
    BY <1>2 DEF PositionsInv, PositionsTyped
  <2>2. P[m] = IF m \in passed /\ position[m].registered
               THEN set_balance(position[m], T[m])
               ELSE position[m]
    BY DEF update_balances
  <2> HIDE DEF P
  <2>3. CASE m \in passed /\ position[m].registered
    BY <2>1, <2>2, <2>3, SetBalance, Limits DEF Amounts
  <2>4. CASE m \notin passed /\ position[m].registered
    <3>1. T[m] = tokens[m]
      BY <1>0, <2>4
    <3> QED
      BY <2>2, <2>4, <3>1, <1>4 DEF PositionsInv, CollateralNotOverstated
  <2> QED BY <2>2, <2>3, <2>4, <1>4
<1> HIDE DEF P
<1>5. CASE c.mint \in Mints
  <2> DEFINE m == c.mint
             q == Changed(P[m], T, c)
  <2>1. /\ m \in Mints
        /\ P[m] \in AccountPosition(m)
        /\ position' = [P EXCEPT ![m] = q]
    BY <1>1, <1>3, <1>5 DEF P, PositionsTyped
  <2>2. /\ q \in AccountPosition(m)
        /\ \/ ~q.registered
           \/ q.balance = T[m]
           \/ q.registered = P[m].registered /\ q.balance = P[m].balance
    BY <1>0, <1>2, <1>5, <2>1, ChangedPosition
  <2> HIDE DEF q, m
  <2>3. /\ PositionsTyped(position')
        /\ position'[m] = q
        /\ \A n \in Mints \ {m} : position'[n] = P[n]
    BY <1>3, <2>1, <2>2 DEF PositionsTyped
  <2>4. CollateralNotOverstated'
    <3> SUFFICES ASSUME NEW n \in Mints, position'[n].registered,
                        OwnedByMargin(n)
                 PROVE  position'[n].balance <= T[n]
      BY <1>1 DEF CollateralNotOverstated, OwnedByMargin
    <3>1. CASE n # m
      BY <3>1, <2>3, <1>4
    <3>2. CASE n = m
      <4>1. T[m] \in Nat
        BY <1>2, <2>1, Limits DEF Amounts
      <4> QED BY <3>2, <4>1, <2>2, <2>3, <1>4
    <3> QED BY <3>1, <3>2
  <2> QED BY <1>1, <1>2, <2>3, <2>4 DEF PositionsInv, PositionsTyped
<1>6. CASE c.mint \notin Mints
  <2>1. position' = P
    BY <1>1, <1>3, <1>6 DEF P, PositionsTyped
  <2>2. CollateralNotOverstated'
    BY <1>1, <1>4, <2>1 DEF CollateralNotOverstated, OwnedByMargin
  <2> QED BY <1>1, <1>2, <1>3, <2>1, <2>2 DEF PositionsInv, PositionsTyped
<1> QED BY <1>5, <1>6

-----------------------------------------------------------------------------
(* Every instruction preserves the invariant.                              *)

\* A LiquidationState that does not exist has the fields of one that does.
LEMMA ClosedState ==
  /\ DOMAIN NoLiquidation = LiquidationFields
  /\ NoLiquidation.active = FALSE
  /\ NoLiquidation.elapsed \in 0 .. LIQUIDATION_TIMEOUT
<1>1. 0 \in 0 .. LIQUIDATION_TIMEOUT
  BY Limits
<1> QED BY <1>1 DEF NoLiquidation, LiquidationFields

\* Handlers that do not touch the account's liquidation.
LEMMA LiquidationsFrame ==
  ASSUME LiquidationsInv, UNCHANGED <<open, liquidator, liquidation>>
  PROVE  LiquidationsInv'
  BY DEF LiquidationsInv, LiquidationHasState, is_liquidating

\* create_account and close_account.
LEMMA LifeCycleStep ==
  ASSUME MarginInv, create_account \/ close_account
  PROVE  MarginInv'
<1> USE DEF MarginInv
<1>1. LiquidationsInv'
  BY DEF create_account, close_account, LiquidationsInv, LiquidationHasState,
         is_liquidating
<1>2. CASE create_account
  <2>1. PositionsTyped(position')
    BY <1>2, FreshPositions DEF create_account, PositionsTyped
  <2>2. CollateralNotOverstated'
    BY <1>2, FreshPositions DEF create_account, CollateralNotOverstated
  <2> QED
    BY <1>1, <1>2, <2>1, <2>2 DEF create_account, PositionsInv, PositionsTyped
<1>3. CASE close_account
  BY <1>1, <1>3 DEF close_account, PositionsInv, PositionsTyped,
                    CollateralNotOverstated, OwnedByMargin
<1> QED BY <1>2, <1>3

\* The instructions on one position that need the account's authority.
LEMMA RegistrationStep ==
  ASSUME MarginInv, NEW who, NEW m \in Mints,
         \/ register_position(who, m)
         \/ create_deposit_position(who, m)
         \/ close_position(who, m)
  PROVE  MarginInv'
<1> USE DEF MarginInv
<1>1. LiquidationsInv'
  BY LiquidationsFrame DEF register_position, create_deposit_position,
                           close_position, OnlyPositions
<1>2. tokens' = tokens
  BY DEF register_position, create_deposit_position, close_position,
         OnlyPositions
<1>0. tokens[m] >= 0
  BY Limits DEF PositionsInv, Amounts
<1>3. \/ position' = [position EXCEPT ![m] = Registered(m)]
      \/ position' = [position EXCEPT ![m] = Zeroed(m)]
  BY DEF register_position, create_deposit_position, close_position
<1>4. PositionsInv'
  BY <1>0, <1>2, <1>3, FreshPositions, WritePosition
<1> QED BY <1>1, <1>4

\* The instructions anyone may send, and the transfers.
LEMMA BalanceStep ==
  ASSUME MarginInv, NEW m \in Mints,
         \/ update_position_balance(m)
         \/ \E q \in QuotedPrices, b \in BOOLEAN :
               refresh_deposit_position(m, q, b)
         \/ \E t \in Amounts : \/ transfer_deposit(m, t)
                             \/ admin_transfer_position(m, t)
                             \/ outside_transfer(m, t)
  PROVE  MarginInv'
<1> USE DEF MarginInv
<1>1. LiquidationsInv'
  BY LiquidationsFrame DEF update_position_balance, refresh_deposit_position,
        transfer_deposit, admin_transfer_position, outside_transfer,
        OnlyPositions
<1> DEFINE p == position[m]
<1>2. /\ p \in AccountPosition(m)
      /\ tokens[m] \in Amounts
      /\ \A t \in Amounts : t <= t
      /\ p.registered /\ OwnedByMargin(m) => p.balance <= tokens[m]
  BY Limits DEF PositionsInv, PositionsTyped, CollateralNotOverstated, Amounts
<1>3. CASE update_position_balance(m)
  <2>1. /\ position' = [position EXCEPT ![m] = set_balance(p, tokens[m])]
        /\ tokens' = tokens
    BY <1>3 DEF update_position_balance, OnlyPositions
  <2> QED BY <1>1, <1>2, <2>1, SetBalance, WritePosition
<1>4. ASSUME NEW q \in QuotedPrices, NEW b \in BOOLEAN,
             refresh_deposit_position(m, q, b)
      PROVE  MarginInv'
  <2> DEFINE r == IF b THEN set_balance(p, tokens[m]) ELSE p
             s == [r EXCEPT !.price = q]
  <2>1. position' = [position EXCEPT ![m] = s] /\ tokens' = tokens
    BY <1>4 DEF refresh_deposit_position, OnlyPositions
  <2>2. /\ r \in AccountPosition(m)
        /\ r.registered /\ OwnedByMargin(m) => r.balance <= tokens[m]
    BY <1>2, SetBalance
  <2> HIDE DEF r
  <2>3. /\ s \in AccountPosition(m)
        /\ s.registered /\ OwnedByMargin(m) => s.balance <= tokens[m]
    BY <2>2, SetPrice, Quotes
  <2> HIDE DEF s
  <2> QED BY <1>1, <2>1, <2>3, WritePosition
<1>5. ASSUME NEW t \in Amounts,
             transfer_deposit(m, t) \/ admin_transfer_position(m, t)
      PROVE  MarginInv'
  <2>1. /\ position' = [position EXCEPT ![m] = set_balance(p, t)]
        /\ tokens' = [tokens EXCEPT ![m] = t]
    BY <1>5 DEF transfer_deposit, admin_transfer_position
  <2> QED BY <1>1, <1>2, <2>1, SetBalance, WriteOne
<1>6. ASSUME NEW t \in Amounts, outside_transfer(m, t)
      PROVE  MarginInv'
  <2>1. /\ position' = [position EXCEPT ![m] = p]
        /\ tokens' = [tokens EXCEPT ![m] = t]
        /\ OwnedByMargin(m) => t > tokens[m]
    BY <1>6 DEF outside_transfer, PositionsInv, PositionsTyped
  <2>2. p.balance \in Nat /\ tokens[m] \in Nat /\ t \in Nat
    BY <1>2, Limits DEF AccountPosition, Amounts
  <2>3. p.registered /\ OwnedByMargin(m) => p.balance <= t
    BY <1>2, <2>1, <2>2
  <2> QED BY <1>1, <1>2, <2>1, <2>3, WriteOne
<1> QED BY <1>3, <1>4, <1>5, <1>6

\* The three ways of invoking an adapter.
LEMMA InvocationStep ==
  ASSUME MarginInv, NEW a,
         \/ adapter_invoke(a)
         \/ accounting_invoke(a)
         \/ \E l \in Liquidators : liquidator_invoke(l, a)
  PROVE  MarginInv'
<1> USE DEF MarginInv
<1>1. PositionsInv'
  BY InvokeStep DEF adapter_invoke, accounting_invoke, liquidator_invoke
<1>2. CASE adapter_invoke(a) \/ accounting_invoke(a)
  BY <1>1, <1>2, LiquidationsFrame DEF adapter_invoke, accounting_invoke
<1>3. ASSUME NEW l \in Liquidators, liquidator_invoke(l, a)
      PROVE  MarginInv'
  <2> DEFINE loss == equity(position) - equity(position')
  <2>1. /\ liquidation' = [liquidation EXCEPT ![l] =
                [liquidation[l] EXCEPT !.equity_loss =
                    liquidation[l].equity_loss + loss]]
        /\ open' = open /\ liquidator' = liquidator
    BY <1>3 DEF liquidator_invoke, Charge
  <2> HIDE DEF loss
  <2>2. \A k \in Liquidators :
          /\ DOMAIN liquidation'[k] = LiquidationFields
          /\ liquidation'[k].active = liquidation[k].active
          /\ liquidation'[k].elapsed = liquidation[k].elapsed
    BY <2>1 DEF LiquidationsInv, LiquidationFields
  <2>3. DOMAIN liquidation' = Liquidators
    BY <2>1 DEF LiquidationsInv
  <2>4. LiquidationHasState'
    BY <2>1, <2>2 DEF LiquidationsInv, LiquidationHasState, is_liquidating
  <2> QED BY <1>1, <2>1, <2>2, <2>3, <2>4 DEF LiquidationsInv
<1> QED BY <1>2, <1>3

\* A liquidation begins with its LiquidationState and ends with it.
LEMMA LiquidationStep ==
  ASSUME MarginInv, NEW l \in Liquidators,
         liquidate_begin(l) \/ \E who \in Signers : liquidate_end(who, l)
  PROVE  MarginInv'
<1> USE DEF MarginInv
<1>1. PositionsInv'
  BY DEF liquidate_begin, liquidate_end, PositionsInv, PositionsTyped,
         CollateralNotOverstated, OwnedByMargin
<1>2. CASE liquidate_begin(l)
  <2> DEFINE budget == (liabilities(position)
                * ((LIQUIDATION_MAX_TOTAL_EQUITY_LOSS_BPS * ONE_128) \div 10000))
                    \div ONE_128
             begun == [active |-> TRUE, elapsed |-> 0, equity_loss |-> 0,
                       max_equity_loss |-> budget]
  <2>1. /\ liquidation' = [liquidation EXCEPT ![l] = begun]
        /\ open /\ open' = open /\ liquidator' = l
    BY <1>2 DEF liquidate_begin
  <2> HIDE DEF budget
  <2>2. /\ DOMAIN begun = LiquidationFields
        /\ begun.active = TRUE /\ begun.elapsed = 0
    BY DEF LiquidationFields
  <2>3. 0 \in 0 .. LIQUIDATION_TIMEOUT
    BY Limits
  <2> HIDE DEF begun
  <2>4. /\ DOMAIN liquidation' = Liquidators
        /\ liquidation'[l] = begun
        /\ \A k \in Liquidators \ {l} : liquidation'[k] = liquidation[k]
    BY <2>1 DEF LiquidationsInv
  <2>5. LiquidationHasState'
    BY <2>1, <2>2, <2>4 DEF LiquidationHasState
  <2> QED
    BY <1>1, <2>1, <2>2, <2>3, <2>4, <2>5 DEF LiquidationsInv
<1>3. CASE \E who \in Signers : liquidate_end(who, l)
  <2>1. /\ liquidation' = [liquidation EXCEPT ![l] = NoLiquidation]
        /\ open' = open /\ liquidator' = NoLiquidator
    BY <1>3 DEF liquidate_end
  <2>2. /\ DOMAIN liquidation' = Liquidators
        /\ liquidation'[l] = NoLiquidation
        /\ \A k \in Liquidators \ {l} : liquidation'[k] = liquidation[k]
    BY <2>1 DEF LiquidationsInv
  <2>3. LiquidationHasState'
    BY <2>1 DEF LiquidationHasState, is_liquidating
  <2> QED
    BY <1>1, <2>1, <2>2, <2>3, ClosedState DEF LiquidationsInv
<1> QED BY <1>2, <1>3

\* The clock changes ages only, and keeps them below their caps.
LEMMA TickStep ==
  ASSUME MarginInv, tick
  PROVE  MarginInv'
<1> USE DEF MarginInv
<1>1. \A n \in Nat : \A k \in 0 .. n : Older(k, n) \in 0 .. n
  BY DEF Older
<1>2. ASSUME NEW m \in Mints
      PROVE  /\ position'[m] \in AccountPosition(m)
             /\ position'[m].balance = position[m].balance
             /\ position'[m].registered = position[m].registered
  <2> DEFINE p == position[m]
             q == [p.price EXCEPT !.age = Older(@, MAX_PRICE_QUOTE_AGE + 1)]
             b == Older(p.balance_age, OldestBalance(m))
  <2>1. p \in AccountPosition(m)
    BY DEF PositionsInv, PositionsTyped
  <2>2. position'[m] = [[p EXCEPT !.balance_age = b] EXCEPT !.price = q]
    BY <2>1 DEF tick, AccountPosition
  <2>3. b \in 0 .. OldestBalance(m)
    <3>1. OldestBalance(m) \in Nat
      BY Limits DEF OldestBalance
    <3>2. p.balance_age \in 0 .. OldestBalance(m)
      BY <2>1 DEF AccountPosition
    <3> QED BY <1>1, <3>1, <3>2
  <2>4. q \in PriceInfo
    <3>1. p.price \in PriceInfo
      BY <2>1 DEF AccountPosition
    <3>2. p.price.age \in 0 .. MAX_PRICE_QUOTE_AGE + 1
      BY <3>1 DEF PriceInfo
    <3>3. Older(p.price.age, MAX_PRICE_QUOTE_AGE + 1)
            \in 0 .. MAX_PRICE_QUOTE_AGE + 1
      BY <1>1, <3>2, Limits
    <3> QED BY <3>1, <3>3 DEF PriceInfo
  <2> HIDE DEF p, q, b
  <2> QED BY <2>1, <2>2, <2>3, <2>4 DEF AccountPosition, p
<1>3. PositionsInv'
  <2>1. position' = [m \in Mints |-> position'[m]]
    BY DEF tick
  <2>2. tokens' = tokens
    BY DEF tick
  <2> QED
    BY <1>2, <2>1, <2>2 DEF PositionsInv, PositionsTyped,
                            CollateralNotOverstated, OwnedByMargin
<1>4. ASSUME NEW l \in Liquidators
      PROVE  /\ DOMAIN liquidation'[l] = LiquidationFields
             /\ liquidation'[l].active = liquidation[l].active
             /\ liquidation'[l].elapsed \in 0 .. LIQUIDATION_TIMEOUT
  <2>1. Older(liquidation[l].elapsed, LIQUIDATION_TIMEOUT)
          \in 0 .. LIQUIDATION_TIMEOUT
    BY <1>1, Limits DEF LiquidationsInv
  <2>2. liquidation'[l] =
          IF liquidation[l].active
          THEN [liquidation[l] EXCEPT !.elapsed =
                   Older(liquidation[l].elapsed, LIQUIDATION_TIMEOUT)]
          ELSE liquidation[l]
    BY DEF tick
  <2> QED BY <2>1, <2>2 DEF LiquidationsInv, LiquidationFields
<1>5. LiquidationsInv'
  BY <1>4 DEF tick, LiquidationsInv, LiquidationHasState, is_liquidating
<1> QED BY <1>3, <1>5

-----------------------------------------------------------------------------
(* The theorems.                                                           *)

\* The invariant holds of an account that does not exist yet.
LEMMA MarginInvInit == Init => MarginInv
<1> SUFFICES ASSUME Init PROVE MarginInv
  OBVIOUS
<1>1. PositionsInv
  <2>1. PositionsTyped(position)
    BY FreshPositions DEF Init, PositionsTyped
  <2>2. CollateralNotOverstated
    BY FreshPositions DEF Init, CollateralNotOverstated
  <2>3. tokens \in [Mints -> Amounts]
    BY Limits DEF Init, Amounts
  <2> QED BY <2>1, <2>2, <2>3 DEF PositionsInv
<1>2. LiquidationsInv
  BY ClosedState DEF Init, LiquidationsInv, LiquidationHasState,
                     is_liquidating
<1> QED BY <1>1, <1>2 DEF MarginInv

\* Every instruction, and every step of its environment, preserves it.
LEMMA MarginInvStep == MarginInv /\ [Next]_vars => MarginInv'
<1> SUFFICES ASSUME MarginInv, [Next]_vars
             PROVE  MarginInv'
  OBVIOUS
<1>1. CASE create_account \/ close_account
  BY <1>1, LifeCycleStep
<1>2. ASSUME NEW who \in Signers, NEW m \in Mints,
             \/ register_position(who, m)
             \/ create_deposit_position(who, m)
             \/ close_position(who, m)
      PROVE  MarginInv'
  BY <1>2, RegistrationStep
<1>3. ASSUME NEW m \in Mints,
             \/ update_position_balance(m)
             \/ \E q \in QuotedPrices, b \in BOOLEAN :
                   refresh_deposit_position(m, q, b)
             \/ \E t \in Amounts : \/ transfer_deposit(m, t)
                                 \/ admin_transfer_position(m, t)
                                 \/ outside_transfer(m, t)
      PROVE  MarginInv'
  BY <1>3, BalanceStep
<1>4. ASSUME NEW a \in Adapters,
             \/ adapter_invoke(a)
             \/ accounting_invoke(a)
             \/ \E l \in Liquidators : liquidator_invoke(l, a)
      PROVE  MarginInv'
  BY <1>4, InvocationStep
<1>5. ASSUME NEW l \in Liquidators,
             liquidate_begin(l) \/ \E who \in Signers : liquidate_end(who, l)
      PROVE  MarginInv'
  BY <1>5, LiquidationStep
<1>6. CASE tick
  BY <1>6, TickStep
<1>7. CASE UNCHANGED vars
  BY <1>7 DEF vars, MarginInv, PositionsInv, PositionsTyped, LiquidationsInv,
              CollateralNotOverstated, OwnedByMargin, LiquidationHasState,
              is_liquidating
<1> QED
  BY <1>1, <1>2, <1>3, <1>4, <1>5, <1>6, <1>7 DEF Next

\* Both halves of the invariant hold at all times.
THEOREM MarginInvAlways == Spec => []MarginInv
  BY MarginInvInit, MarginInvStep, PTL DEF Spec

\* Positions, prices, ages, token balances and liquidations keep their types.
THEOREM MarginTypeOK == Spec => []TypeOK
<1>1. MarginInv => TypeOK
  BY DEF MarginInv, PositionsInv, PositionsTyped, LiquidationsInv, TypeOK
<1> QED BY <1>1, MarginInvAlways, PTL

\* Whatever the instructions, the CPIs and their order, the balance recorded
\* for a token account of the margin account is at most what is in it.
THEOREM CollateralAlwaysBacked == Spec => []CollateralNotOverstated
<1>1. MarginInv => CollateralNotOverstated
  BY DEF MarginInv, PositionsInv
<1> QED BY <1>1, MarginInvAlways, PTL

\* An account under liquidation is open and has its liquidator's state.
THEOREM LiquidationAlwaysHasState == Spec => []LiquidationHasState
<1>1. MarginInv => LiquidationHasState
  BY DEF MarginInv, LiquidationsInv
<1> QED BY <1>1, MarginInvAlways, PTL

-----------------------------------------------------------------------------
(* Which positions come and go.                                            *)

\* A slot without position is all zero, as it is freed, and a closed account
\* has no position.
SlotsInv ==
    /\ \A m \in Mints : ~position[m].registered => position[m] = Zeroed(m)
    /\ ~open => \A m \in Mints : ~position[m].registered

\* What the result of an adapter does to the position of its mint.
LEMMA ChangeEffect ==
  ASSUME NEW m \in Mints, NEW p \in AccountPosition(m),
         NEW T \in [Mints -> Amounts], NEW P, P[m] = p,
         NEW c \in PositionChange, c.mint = m,
         NEW a, NEW signed \in BOOLEAN, ChangeOk(P, a, signed, c),
         ~p.registered => p = Zeroed(m)
  PROVE  LET q == Changed(p, T, c)
         IN  /\ q.registered /\ ~p.registered => signed /\ q.balance = T[m]
             /\ p.registered /\ ~q.registered =>
                  signed /\ ~OwnedByMargin(m) /\ ~p.required
             /\ ~q.registered => q = Zeroed(m)
             /\ q.registered /\ p.registered => q.balance = p.balance
             /\ ~signed /\ AdapterOf[m] # a => q = p
<1> DEFINE q == Changed(p, T, c)
<1>1. CASE c.type = "register"
  <2>1. CASE ~p.registered
    <3>1. q = set_balance(Registered(m), T[m])
      BY <1>1, <2>1 DEF Changed
    <3>2. may_be_registered_or_closed(m, signed, AdapterOf[m] = a)
      BY <1>1, <2>1 DEF ChangeOk
    <3>3. signed
      BY <3>2 DEF may_be_registered_or_closed
    <3>4. q.registered /\ q.balance = T[m]
      BY <3>1, FreshPositions, SetBalance DEF Registered, AccountPosition, Zeroed
    <3> HIDE DEF q
    <3> QED BY <2>1, <3>3, <3>4 DEF q
  <2>2. CASE p.registered
    <3>1. q = p
      BY <1>1, <2>2 DEF Changed
    <3> QED BY <2>2, <3>1
  <2> QED BY <2>1, <2>2
<1>2. CASE c.type = "close"
  <2>1. q = Zeroed(m) /\ ~q.registered
    BY <1>2, FreshPositions DEF Changed
  <2>2. CASE p.registered
    <3>1. MayUnregister(p, m, signed, AdapterOf[m] = a) /\ AdapterOf[m] = a
      BY <1>2, <2>2 DEF ChangeOk, NoChange
    <3>2. signed /\ ~OwnedByMargin(m) /\ ~p.required
      BY <3>1 DEF MayUnregister, may_be_registered_or_closed, OwnedByMargin
    <3> HIDE DEF q
    <3> QED BY <2>1, <2>2, <3>2 DEF q
  <2>3. CASE ~p.registered
    BY <2>1, <2>3
  <2> QED BY <2>2, <2>3
<1>3. CASE c.type \notin {"register", "close"} /\ ~p.registered
  <2>1. q = p
    BY <1>3 DEF Changed, ChangeOk
  <2> HIDE DEF q
  <2> QED BY <1>3, <2>1 DEF q
<1>4. CASE c.type \notin {"register", "close"} /\ p.registered
  <2>1. \/ q = p
        \/ q = [p EXCEPT !.price = c.price]
        \/ \E b \in BOOLEAN : \/ q = [p EXCEPT !.required = b]
                            \/ q = [p EXCEPT !.past_due = b]
    BY <1>4 DEF Changed
  <2>2. q.registered = p.registered /\ q.balance = p.balance
    BY <2>1 DEF AccountPosition
  <2>3. AdapterOf[m] # a => c = NoChange
    BY <1>4 DEF ChangeOk
  <2>4. c = NoChange => q = p
    BY DEF NoChange, Changed
  <2> HIDE DEF q
  <2> QED BY <1>4, <2>2, <2>3, <2>4 DEF q
<1> QED BY <1>1, <1>2, <1>3, <1>4

\* What one CPI does to a position. Registration needs the signature of the
\* margin account, and an adapter cannot drop what the account itself holds;
\* the balance is recorded unless the tokens did not move; another adapter's
\* position keeps its price and its flags.
InvokeEffect(a, signed, m) ==
    LET p == position[m]
        q == position'[m]
    IN  /\ q.registered /\ ~p.registered => signed
        /\ p.registered /\ ~q.registered =>
             signed /\ ~OwnedByMargin(m) /\ ~p.required
        /\ ~q.registered => q = Zeroed(m)
        /\ q.registered =>
             \/ q.balance = tokens'[m]
             \/ p.registered /\ q.balance = p.balance /\ tokens'[m] = tokens[m]
        /\ ~signed /\ AdapterOf[m] # a =>
             /\ q.price = p.price
             /\ q.required = p.required
             /\ q.past_due = p.past_due

LEMMA InvokeEffects ==
  ASSUME PositionsInv, SlotsInv, NEW a, NEW signed \in BOOLEAN,
         invoke(a, signed), NEW m \in Mints
  PROVE  InvokeEffect(a, signed, m)
<1>0. PICK c, T, passed :
         /\ c \in PositionChange
         /\ T \in CpiTokens(signed, c)
         /\ passed \in {Mints, {n \in Mints : T[n] # tokens[n]}}
         /\ ChangeOk(update_balances(position, T, passed), a, signed, c)
         /\ tokens' = T
         /\ position' = [update_balances(position, T, passed) EXCEPT
                           ![c.mint] = Changed(@, T, c)]
  BY DEF invoke
<1> DEFINE P == update_balances(position, T, passed)
           p == position[m]
           q == position'[m]
<1>1. T \in [Mints -> Amounts]
  BY <1>0 DEF CpiTokens
<1>2. /\ p \in AccountPosition(m) /\ T[m] \in Amounts
      /\ ~p.registered => p = Zeroed(m)
  BY <1>1 DEF PositionsInv, PositionsTyped, SlotsInv
<1>3. /\ DOMAIN P = Mints
      /\ P[m] = IF m \in passed /\ p.registered THEN set_balance(p, T[m]) ELSE p
  BY DEF update_balances
<1>4. /\ P[m] \in AccountPosition(m)
      /\ P[m].registered = p.registered
      /\ P[m].price = p.price
      /\ P[m].required = p.required
      /\ P[m].past_due = p.past_due
      /\ ~p.registered => P[m] = Zeroed(m)
      /\ p.registered => \/ P[m].balance = T[m]
                         \/ P[m].balance = p.balance /\ T[m] = tokens[m]
  <2> HIDE DEF P, p
  <2>1. CASE m \in passed /\ p.registered
    <3>1. P[m] = set_balance(p, T[m])
      BY <1>3, <2>1
    <3>2. /\ set_balance(p, T[m]).price = p.price
          /\ set_balance(p, T[m]).required = p.required
          /\ set_balance(p, T[m]).past_due = p.past_due
      BY <1>2 DEF set_balance, AccountPosition
    <3>3. /\ P[m] \in AccountPosition(m)
          /\ P[m].registered = p.registered
          /\ P[m].balance = T[m]
      BY <1>2, <3>1, SetBalance
    <3> QED BY <2>1, <3>1, <3>2, <3>3
  <2>2. CASE m \notin passed \/ ~p.registered
    <3>1. P[m] = p
      BY <1>3, <2>2
    <3>2. m \notin passed => T[m] = tokens[m]
      BY <1>0
    <3> QED BY <1>2, <2>2, <3>1, <3>2
  <2> QED BY <2>1, <2>2
<1>5. q = IF m = c.mint THEN Changed(P[m], T, c) ELSE P[m]
  BY <1>0, <1>3
<1>6. tokens' = T /\ ChangeOk(P, a, signed, c) /\ c \in PositionChange
  BY <1>0
<1> HIDE DEF P, p, q
<1>7. CASE m # c.mint
  BY <1>4, <1>5, <1>6, <1>7 DEF InvokeEffect, p, q
<1>8. CASE m = c.mint
  <2> DEFINE r == Changed(P[m], T, c)
  <2>1. q = r
    BY <1>5, <1>8
  <2>2. /\ r.registered /\ ~P[m].registered => signed /\ r.balance = T[m]
        /\ P[m].registered /\ ~r.registered =>
             signed /\ ~OwnedByMargin(m) /\ ~P[m].required
        /\ ~r.registered => r = Zeroed(m)
        /\ r.registered /\ P[m].registered => r.balance = P[m].balance
        /\ ~signed /\ AdapterOf[m] # a => r = P[m]
    <3>1. ~P[m].registered => P[m] = Zeroed(m)
      BY <1>4
    <3> QED BY <1>1, <1>4, <1>6, <1>8, <3>1, ChangeEffect
  <2> HIDE DEF r
  <2> QED BY <1>4, <1>6, <2>1, <2>2 DEF InvokeEffect, p, q
<1> QED BY <1>7, <1>8

\* Every instruction leaves free slots zero and closed accounts empty.
LEMMA SlotsStep == MarginInv /\ SlotsInv /\ [Next]_vars => SlotsInv'
<1> SUFFICES ASSUME MarginInv, SlotsInv, [Next]_vars
             PROVE  SlotsInv'
  OBVIOUS
<1>0. /\ \A m \in Mints : position[m] \in AccountPosition(m)
      /\ position = [m \in Mints |-> position[m]]
      /\ tokens \in [Mints -> Amounts]
  BY DEF MarginInv, PositionsInv, PositionsTyped
\* a handler that writes one position of an open account
<1>a. ASSUME NEW m \in Mints, NEW p, open /\ open' = open, position' = [position EXCEPT ![m] = p],
             ~p.registered => p = Zeroed(m)
      PROVE  SlotsInv'
  BY <1>0, <1>a DEF SlotsInv
<1>1. CASE create_account \/ close_account
  BY <1>1, FreshPositions DEF create_account, close_account, SlotsInv
<1>2. ASSUME NEW who \in Signers, NEW m \in Mints,
             \/ register_position(who, m)
             \/ create_deposit_position(who, m)
             \/ close_position(who, m)
      PROVE  SlotsInv'
  <2>0. open /\ open' = open
    BY <1>2 DEF register_position, create_deposit_position, close_position,
                OnlyPositions
  <2>1. \/ position' = [position EXCEPT ![m] = Registered(m)]
        \/ position' = [position EXCEPT ![m] = Zeroed(m)]
    BY <1>2 DEF register_position, create_deposit_position, close_position
  <2>2. Registered(m).registered
    BY FreshPositions DEF Registered, Zeroed
  <2> QED BY <1>a, <2>0, <2>1, <2>2
<1>3. ASSUME NEW m \in Mints,
             \/ update_position_balance(m)
             \/ \E q \in QuotedPrices, b \in BOOLEAN :
                   refresh_deposit_position(m, q, b)
             \/ \E t \in Amounts : \/ transfer_deposit(m, t)
                                 \/ admin_transfer_position(m, t)
      PROVE  SlotsInv'
  <2> DEFINE p == position[m]
  <2>1. PICK r \in {p} \cup {set_balance(p, t) : t \in Amounts}, q \in PriceInfo :
          /\ open /\ open' = open /\ p.registered
          /\ \/ position' = [position EXCEPT ![m] = r]
             \/ position' = [position EXCEPT ![m] = [r EXCEPT !.price = q]]
    <3>1. tokens[m] \in Amounts /\ QuotedPrices \subseteq PriceInfo /\ p.price \in PriceInfo
      BY <1>0, Quotes DEF AccountPosition
    <3> QED
      BY <1>3, <3>1 DEF update_position_balance, refresh_deposit_position,
              transfer_deposit, admin_transfer_position, OnlyPositions
  <2>2. r \in AccountPosition(m) /\ r.registered
    BY <1>0, <2>1, SetBalance
  <2>3. [r EXCEPT !.price = q].registered
    BY <2>2, SetPrice
  <2> HIDE DEF p
  <2> QED BY <1>a, <2>1, <2>2, <2>3
<1>4. ASSUME NEW a \in Adapters,
             \/ adapter_invoke(a)
             \/ accounting_invoke(a)
             \/ \E l \in Liquidators : liquidator_invoke(l, a)
      PROVE  SlotsInv'
  <2>1. invoke(a, TRUE) \/ invoke(a, FALSE)
    BY <1>4 DEF adapter_invoke, accounting_invoke, liquidator_invoke
  <2>0. open /\ open' = open
    BY <1>4 DEF adapter_invoke, accounting_invoke, liquidator_invoke
  <2>2. \A m \in Mints : ~position'[m].registered => position'[m] = Zeroed(m)
    BY <2>1, InvokeEffects DEF MarginInv, InvokeEffect
  <2> QED BY <2>0, <2>2 DEF SlotsInv
<1>5. CASE \/ \E m \in Mints, t \in Amounts : outside_transfer(m, t)
           \/ \E l \in Liquidators :
                liquidate_begin(l) \/ \E who \in Signers : liquidate_end(who, l)
           \/ UNCHANGED vars
  BY <1>5 DEF outside_transfer, liquidate_begin, liquidate_end, vars, SlotsInv
<1>6. CASE tick
  <2>1. ASSUME NEW m \in Mints
        PROVE  /\ position'[m].registered = position[m].registered
               /\ position[m] = Zeroed(m) => position'[m] = Zeroed(m)
    <3> DEFINE p == position[m]
               q == [p.price EXCEPT !.age = Older(p.price.age, MAX_PRICE_QUOTE_AGE + 1)]
               b == Older(p.balance_age, OldestBalance(m))
    <3>1. position'[m] = [[p EXCEPT !.balance_age = b] EXCEPT !.price = q]
      BY <1>0, <1>6 DEF tick, AccountPosition
    <3>2. position'[m].registered = position[m].registered
      BY <1>0, <3>1 DEF AccountPosition
    <3>3. /\ Older(OldestBalance(m), OldestBalance(m)) = OldestBalance(m)
          /\ Older(MAX_PRICE_QUOTE_AGE + 1, MAX_PRICE_QUOTE_AGE + 1) = MAX_PRICE_QUOTE_AGE + 1
      BY Limits DEF Older, OldestBalance
    <3>4. ASSUME p = Zeroed(m) PROVE position'[m] = Zeroed(m)
      <4>1. /\ p.balance_age = OldestBalance(m) /\ p.price = new_invalid
            /\ p.price.age = MAX_PRICE_QUOTE_AGE + 1
        BY <3>4 DEF Zeroed, new_invalid
      <4>2. q = new_invalid
        BY <3>3, <4>1 DEF new_invalid
      <4>3. b = OldestBalance(m)
        BY <3>3, <4>1
      <4> HIDE DEF b, q
      <4>4. /\ [p EXCEPT !.balance_age = p.balance_age] = p
            /\ [p EXCEPT !.price = p.price] = p
        BY <1>0 DEF AccountPosition
      <4> QED BY <3>1, <3>4, <4>1, <4>2, <4>3, <4>4
    <3> QED BY <3>2, <3>4
  <2>2. open' = open
    BY <1>6 DEF tick
  <2> QED BY <2>1, <2>2 DEF SlotsInv
<1> QED BY <1>1, <1>2, <1>3, <1>4, <1>5, <1>6 DEF Next

\* Free slots are zero and closed accounts empty at all times.
THEOREM SlotsAlways == Spec => []SlotsInv
<1>1. Init => SlotsInv
  BY FreshPositions DEF Init, SlotsInv
<1> QED BY <1>1, SlotsStep, MarginInvAlways, PTL DEF Spec

\* The instruction and its signer, as they are noted.
LEMMA ByWhom ==
  ASSUME NEW name, NEW who, By(name, who)
  PROVE  op'.name = name /\ op'.by = who
  BY DEF By

\* The only steps that are noted as an invocation by the owner or by anyone.
LEMMA WhoInvokes ==
  ASSUME Next, op'.name \in {"adapter_invoke", "accounting_invoke"}
  PROVE  \E a \in Adapters : adapter_invoke(a) \/ accounting_invoke(a)
<1>0. \A who : /\ ~By("create_account", who) /\ ~By("close_account", who)
               /\ ~By("register_position", who)
               /\ ~By("create_deposit_position", who)
               /\ ~By("close_position", who) /\ ~By("tick", who)
               /\ ~By("liquidator_invoke", who)
               /\ ~By("liquidate_begin", who) /\ ~By("liquidate_end", who)
  BY ByWhom
<1>1. ~create_account /\ ~close_account /\ ~tick
  BY <1>0 DEF create_account, close_account, tick
<1>2. \A who \in Signers, m \in Mints :
        /\ ~register_position(who, m)
        /\ ~create_deposit_position(who, m)
        /\ ~close_position(who, m)
  BY <1>0 DEF register_position, create_deposit_position, close_position
<1>3. \A m \in Mints :
        /\ ~update_position_balance(m)
        /\ \A q \in QuotedPrices, b \in BOOLEAN : ~refresh_deposit_position(m, q, b)
        /\ \A t \in Amounts : /\ ~transfer_deposit(m, t)
                             /\ ~admin_transfer_position(m, t)
                             /\ ~outside_transfer(m, t)
  BY ByWhom DEF update_position_balance, refresh_deposit_position,
       transfer_deposit, admin_transfer_position, outside_transfer
<1>4. \A l \in Liquidators :
        /\ ~liquidate_begin(l)
        /\ \A who \in Signers : ~liquidate_end(who, l)
        /\ \A a \in Adapters : ~liquidator_invoke(l, a)
  <2>1. \A l \in Liquidators : ~liquidate_begin(l)
    BY <1>0 DEF liquidate_begin
  <2>2. \A l \in Liquidators, who \in Signers : ~liquidate_end(who, l)
    BY <1>0 DEF liquidate_end
  <2>3. \A l \in Liquidators, a \in Adapters : ~liquidator_invoke(l, a)
    BY <1>0 DEF liquidator_invoke
  <2> QED BY <2>1, <2>2, <2>3
<1> QED BY <1>1, <1>2, <1>3, <1>4 DEF Next

\* The only steps that change which positions there are.
LEMMA WhoRegisters ==
  ASSUME MarginInv, SlotsInv, [Next]_vars, NEW m \in Mints,
         position[m].registered # position'[m].registered
  PROVE  \/ \E who \in Signers : \/ register_position(who, m)
                               \/ create_deposit_position(who, m)
                               \/ close_position(who, m)
         \/ \E a \in Adapters : \/ adapter_invoke(a)
                              \/ \E l \in Liquidators : liquidator_invoke(l, a)
<1>0. /\ \A n \in Mints : position[n] \in AccountPosition(n)
      /\ DOMAIN position = Mints
      /\ tokens \in [Mints -> Amounts]
  BY DEF MarginInv, PositionsInv, PositionsTyped
\* a handler that writes another position, or keeps the flag of this one
<1>a. ASSUME NEW n \in Mints, NEW p, position' = [position EXCEPT ![n] = p],
             n = m => p.registered = position[m].registered
      PROVE  FALSE
  BY <1>0, <1>a
<1>1. ~create_account /\ ~close_account
  BY FreshPositions DEF create_account, close_account, SlotsInv
<1>2. ASSUME NEW who \in Signers, NEW n \in Mints,
             \/ register_position(who, n)
             \/ create_deposit_position(who, n)
             \/ close_position(who, n)
      PROVE  n = m
  BY <1>a, <1>2 DEF register_position, create_deposit_position, close_position
<1>3. ASSUME NEW n \in Mints,
             \/ update_position_balance(n)
             \/ \E q \in QuotedPrices, b \in BOOLEAN :
                   refresh_deposit_position(n, q, b)
             \/ \E t \in Amounts : \/ transfer_deposit(n, t)
                                 \/ admin_transfer_position(n, t)
      PROVE  FALSE
  <2> DEFINE p == position[n]
  <2>1. PICK r \in {p} \cup {set_balance(p, t) : t \in Amounts}, q \in PriceInfo :
          \/ position' = [position EXCEPT ![n] = r]
          \/ position' = [position EXCEPT ![n] = [r EXCEPT !.price = q]]
    <3>1. tokens[n] \in Amounts /\ QuotedPrices \subseteq PriceInfo /\ p.price \in PriceInfo
      BY <1>0, Quotes DEF AccountPosition
    <3> QED
      BY <1>3, <3>1 DEF update_position_balance, refresh_deposit_position,
              transfer_deposit, admin_transfer_position
  <2>2. r \in AccountPosition(n) /\ r.registered = p.registered
    BY <1>0, <2>1, SetBalance
  <2>3. [r EXCEPT !.price = q].registered = p.registered
    BY <2>2, SetPrice
  <2> QED BY <1>a, <2>1, <2>2, <2>3
<1>4. ASSUME NEW a \in Adapters, accounting_invoke(a)
      PROVE  FALSE
  <2>1. InvokeEffect(a, FALSE, m)
    BY <1>4, InvokeEffects DEF accounting_invoke, MarginInv
  <2>2. position[m].registered \in BOOLEAN /\ position'[m].registered \in BOOLEAN
    BY <1>0, <1>4, InvokeStep DEF accounting_invoke, MarginInv, PositionsInv,
                                  PositionsTyped, AccountPosition
  <2> QED BY <2>1, <2>2 DEF InvokeEffect
<1>5. ~\/ \E n \in Mints, t \in Amounts : outside_transfer(n, t)
       \/ \E l \in Liquidators :
            liquidate_begin(l) \/ \E who \in Signers : liquidate_end(who, l)
       \/ UNCHANGED vars
  BY DEF outside_transfer, liquidate_begin, liquidate_end, vars
<1>6. ~tick
  <2> SUFFICES ASSUME tick PROVE FALSE
    OBVIOUS
  <2>1. position'[m] = [position[m] EXCEPT
           !.balance_age = Older(@, OldestBalance(m)),
           !.price.age = Older(@, MAX_PRICE_QUOTE_AGE + 1)]
    BY DEF tick
  <2> QED BY <1>0, <2>1 DEF AccountPosition
<1> QED BY <1>1, <1>2, <1>3, <1>4, <1>5, <1>6 DEF Next

\* No instruction of anyone else registers a position or drops one: debts
\* come and go with the owner, or with a liquidator that has a state.
THEOREM RegistrationAlwaysAuthorised == Spec => RegistrationNeedsAuthority
<1>1. ASSUME MarginInv, SlotsInv, [Next]_vars, NEW m \in Mints,
             position[m].registered # position'[m].registered
      PROVE  \/ op'.by = Owner /\ ~is_liquidating
             \/ op'.by \in Liquidators /\ liquidation[op'.by].active
  <2>1. ASSUME NEW who \in Signers,
               \/ register_position(who, m)
               \/ create_deposit_position(who, m)
               \/ close_position(who, m)
        PROVE  op'.by = who /\ verify_authority(who)
    BY <2>1, ByWhom DEF register_position, create_deposit_position, close_position
  <2>2. ASSUME NEW who, op'.by = who /\ verify_authority(who)
        PROVE  \/ op'.by = Owner /\ ~is_liquidating
               \/ op'.by \in Liquidators /\ liquidation[op'.by].active
    BY <1>1, <2>2 DEF verify_authority, is_liquidating, MarginInv,
                      LiquidationsInv, LiquidationHasState
  <2>3. ASSUME NEW a, adapter_invoke(a)
        PROVE  op'.by = Owner /\ ~is_liquidating
    BY <2>3 DEF adapter_invoke, By
  <2>4. ASSUME NEW a, NEW l \in Liquidators, liquidator_invoke(l, a)
        PROVE  op'.by \in Liquidators /\ liquidation[op'.by].active
    BY <2>4 DEF liquidator_invoke, By
  <2> QED BY <1>1, <2>1, <2>2, <2>3, <2>4, WhoRegisters
<1>2. MarginInv /\ SlotsInv /\ [Next]_vars =>
        [\A m \in Mints :
          position[m].registered # position'[m].registered =>
             \/ op'.by = Owner /\ ~is_liquidating
             \/ op'.by \in Liquidators /\ liquidation[op'.by].active]_vars
  BY <1>1
<1> QED
  BY <1>2, MarginInvAlways, SlotsAlways, PTL DEF Spec, RegistrationNeedsAuthority

\* A position is dropped only when it is not REQUIRED, and one whose tokens
\* the margin account holds only when there are none.
THEOREM NothingIsForgotten == Spec => NothingForgotten
<1>1. ASSUME MarginInv, SlotsInv, [Next]_vars, NEW m \in Mints,
             position[m].registered, ~position'[m].registered
      PROVE  /\ ~position[m].required
             /\ OwnedByMargin(m) => tokens[m] = 0 /\ tokens'[m] = 0
  <2>0. DOMAIN position = Mints
    BY <1>1 DEF MarginInv, PositionsInv, PositionsTyped
  <2>1. ASSUME NEW who \in Signers,
               register_position(who, m) \/ create_deposit_position(who, m)
        PROVE  FALSE
    BY <1>1, <2>1 DEF register_position, create_deposit_position
  <2>2. ASSUME NEW who \in Signers, close_position(who, m)
        PROVE  /\ ~position[m].required
               /\ OwnedByMargin(m) => tokens[m] = 0 /\ tokens'[m] = 0
    BY <2>2 DEF close_position, MayUnregister, OnlyPositions
  <2>3. ASSUME NEW a, invoke(a, TRUE)
        PROVE  ~position[m].required /\ ~OwnedByMargin(m)
    <3>1. InvokeEffect(a, TRUE, m)
      BY <1>1, <2>3, InvokeEffects DEF MarginInv
    <3> QED BY <1>1, <3>1 DEF InvokeEffect
  <2>4. ASSUME NEW a, adapter_invoke(a) \/ \E l \in Liquidators : liquidator_invoke(l, a)
        PROVE  invoke(a, TRUE)
    BY <2>4 DEF adapter_invoke, liquidator_invoke
  <2>5. position[m].registered # position'[m].registered
    BY <1>1
  <2> QED BY <1>1, <2>1, <2>2, <2>3, <2>4, <2>5, WhoRegisters
<1>2. MarginInv /\ SlotsInv /\ [Next]_vars =>
        [\A m \in Mints :
          position[m].registered /\ ~position'[m].registered =>
             /\ ~position[m].required
             /\ OwnedByMargin(m) => tokens[m] = 0 /\ tokens'[m] = 0]_vars
  BY <1>1
<1> QED BY <1>2, MarginInvAlways, SlotsAlways, PTL DEF Spec, NothingForgotten

\* An adapter invoked without the margin account's signature changes neither
\* price nor flags of a position of another adapter.
THEOREM AdapterAlwaysInScope == Spec => AdapterStaysInScope
<1>1. ASSUME Next, op'.name = "accounting_invoke"
      PROVE  \E a \in Adapters : accounting_invoke(a)
  <2>0. ~By("adapter_invoke", Owner)
    BY <1>1, ByWhom
  <2>1. \A a : ~adapter_invoke(a)
    BY <2>0 DEF adapter_invoke
  <2> QED BY <1>1, <2>1, WhoInvokes
<1>2. ASSUME MarginInv, SlotsInv, NEW a \in Adapters, accounting_invoke(a),
             NEW m \in Mints, AdapterOf[m] # op'.by
      PROVE  /\ position'[m].price = position[m].price
             /\ position'[m].required = position[m].required
             /\ position'[m].past_due = position[m].past_due
  <2>1. op'.by = a /\ invoke(a, FALSE)
    BY <1>2 DEF accounting_invoke, By
  <2>2. InvokeEffect(a, FALSE, m)
    BY <1>2, <2>1, InvokeEffects DEF MarginInv
  <2> QED BY <1>2, <2>1, <2>2 DEF InvokeEffect
<1>3. MarginInv /\ SlotsInv /\ [Next]_vars =>
        [op'.name = "accounting_invoke" =>
          \A m \in Mints : AdapterOf[m] # op'.by =>
             /\ position'[m].price = position[m].price
             /\ position'[m].required = position[m].required
             /\ position'[m].past_due = position[m].past_due]_vars
  BY <1>1, <1>2
<1> QED BY <1>3, MarginInvAlways, SlotsAlways, PTL DEF Spec, AdapterStaysInScope

-----------------------------------------------------------------------------
(* The valuation.                                                          *)

\* The values of a position are natural numbers, and grow with its balance.
LEMMA Valued ==
  ASSUME NEW m \in Mints, NEW p \in AccountPosition(m), NEW q \in AccountPosition(m),
         p.price = q.price, p.balance <= q.balance
  PROVE  /\ value(p) \in Nat /\ value(p) <= value(q)
         /\ collateral_value(m, p) \in Nat
         /\ collateral_value(m, p) <= collateral_value(m, q)
         /\ required_collateral_value(m, p) \in Nat
         /\ required_collateral_value(m, p) <= required_collateral_value(m, q)
<1>1. /\ p.balance \in Nat /\ q.balance \in Nat /\ p.price.value \in Nat
      /\ ONE_128 \in Nat \ {0} /\ Modifier[m] \in Nat
  <2>1. /\ p.balance \in Amounts /\ q.balance \in Amounts
        /\ p.price \in PriceInfo
    BY DEF AccountPosition
  <2>2. p.price.value \in Prices \cup {0}
    BY <2>1 DEF PriceInfo
  <2>3. Prices \subseteq Nat /\ ONE_128 \in Nat \ {0} /\ Modifier[m] \in Nat
    BY MarginAssumption
  <2>4. Amounts \subseteq Nat
    BY Limits DEF Amounts
  <2>5. p.balance \in Nat /\ q.balance \in Nat
    BY <2>1, <2>4
  <2>6. p.price.value \in Nat
    <3>1. \A x \in Prices \cup {0} : x \in Nat
      BY <2>3
    <3> QED BY <2>2, <3>1
  <2> QED BY <2>3, <2>5, <2>6
<1>2. value(p) \in Nat /\ value(q) \in Nat /\ value(p) <= value(q)
  <2> DEFINE x == p.balance * p.price.value
             y == q.balance * p.price.value
  <2>1. x \in Nat /\ y \in Nat /\ x <= y
    BY <1>1, MulNat
  <2>2. value(p) = x * ONE_128 /\ value(q) = y * ONE_128
    BY DEF value
  <2> HIDE DEF x, y
  <2> QED BY <1>1, <2>1, <2>2, MulNat
<1> DEFINE w == (Modifier[m] * ONE_128) \div 100
<1>3. w \in Nat /\ (Modifier[m] # 0 => w # 0)
  <2>1. Modifier[m] * ONE_128 \in Nat
    BY <1>1, MulNat
  <2>2. ONE_128 >= 100
    BY MarginAssumption
  <2>3. Modifier[m] # 0 => Modifier[m] * ONE_128 >= 100
    <3>1. Modifier[m] # 0 => 1 * ONE_128 <= Modifier[m] * ONE_128
      BY <1>1, MulNat
    <3> QED BY <1>1, <2>1, <2>2, <3>1
  <2> QED BY <2>1, <2>3
<1> HIDE DEF w
<1>4. collateral_value(m, p) \in Nat /\ collateral_value(m, p) <= collateral_value(m, q)
  <2>1. /\ w * value(p) \in Nat /\ w * value(q) \in Nat
        /\ w * value(p) <= w * value(q)
    BY <1>2, <1>3, MulNat
  <2> QED BY <1>1, <2>1, DivNat DEF collateral_value, w
<1>5. /\ required_collateral_value(m, p) \in Nat
      /\ required_collateral_value(m, p) <= required_collateral_value(m, q)
  <2>1. CASE Modifier[m] = 0
    BY <2>1 DEF required_collateral_value, NumberMax
  <2>2. CASE Modifier[m] # 0
    <3>1. /\ value(p) * ONE_128 \in Nat /\ value(q) * ONE_128 \in Nat
          /\ value(p) * ONE_128 <= value(q) * ONE_128
      BY <1>1, <1>2, MulNat
    <3>2. /\ (value(p) * ONE_128) \div w \in Nat
          /\ (value(p) * ONE_128) \div w <= (value(q) * ONE_128) \div w
      BY <1>3, <2>2, <3>1, DivNat
    <3> QED BY <2>2, <3>2 DEF required_collateral_value, w
  <2> QED BY <2>1, <2>2
<1> QED BY <1>2, <1>4, <1>5

\* Sums over an account's positions are integers, its liabilities positive.
LEMMA Valuation ==
  ASSUME NEW P, PositionsTyped(P)
  PROVE  liabilities(P) \in Nat /\ equity(P) \in Int
<1>1. \A m \in Mints : value(P[m]) \in Nat
  <2> SUFFICES ASSUME NEW m \in Mints PROVE value(P[m]) \in Nat
    OBVIOUS
  <2>1. P[m] \in AccountPosition(m) /\ P[m].balance <= P[m].balance
    BY Limits DEF PositionsTyped, AccountPosition, Amounts
  <2> QED BY <2>1, Valued
<1> DEFINE f == [m \in Mints |-> value(P[m])]
<1>2. /\ IsFiniteSet(Debts(P)) /\ IsFiniteSet(Assets(P))
      /\ Debts(P) \subseteq Mints /\ Assets(P) \subseteq Mints
  BY MarginAssumption, FS_Subset DEF Debts, Assets, Counted
<1>3. /\ \A m \in Debts(P) : f[m] \in Nat
      /\ \A m \in Assets(P) : f[m] \in Int
  BY <1>1, <1>2
<1> HIDE DEF f
<1>4. SumOver(f, Debts(P)) \in Nat /\ SumOver(f, Assets(P)) \in Int
  BY <1>2, <1>3, SumNat, SumType
<1>5. liabilities(P) \in Nat
  BY <1>4 DEF liabilities, f
<1>6. equity(P) = SumOver(f, Assets(P)) - liabilities(P)
  BY DEF equity, f
<1> QED BY <1>4, <1>5, <1>6

\* An account that is healthy by what is recorded is healthy by what is
\* there, when there is no more debt and no less collateral than recorded.
LEMMA HealthyByTokens ==
  ASSUME NEW P, PositionsTyped(P), NEW T \in [Mints -> Amounts],
         \A m \in Claims : P[m].registered => T[m] <= P[m].balance,
         \A m \in Mints \ Claims : P[m].registered => P[m].balance <= T[m],
         verify_healthy(P)
  PROVE  verify_healthy([m \in Mints |-> [P[m] EXCEPT !.balance = T[m]]])
<1> DEFINE Q == [m \in Mints |-> [P[m] EXCEPT !.balance = T[m]]]
<1>1. ASSUME NEW m \in Mints
      PROVE  /\ P[m] \in AccountPosition(m) /\ Q[m] \in AccountPosition(m)
             /\ Q[m].registered = P[m].registered /\ Q[m].price = P[m].price
             /\ Q[m].balance = T[m] /\ Q[m].balance_age = P[m].balance_age
             /\ P[m].balance \in Nat /\ T[m] \in Nat
             /\ Stale(Q, m) <=> Stale(P, m)
  <2>1. /\ P[m] \in AccountPosition(m) /\ Q[m] = [P[m] EXCEPT !.balance = T[m]]
        /\ T[m] \in Amounts
    BY DEF PositionsTyped
  <2> HIDE DEF Q
  <2>2. /\ Q[m] \in AccountPosition(m)
        /\ Q[m].registered = P[m].registered /\ Q[m].price = P[m].price
        /\ Q[m].balance = T[m] /\ Q[m].balance_age = P[m].balance_age
    BY <2>1 DEF AccountPosition
  <2>3. P[m].balance \in Nat /\ T[m] \in Nat
    BY <2>1, Limits DEF AccountPosition, Amounts
  <2>4. Stale(Q, m) <=> Stale(P, m)
    BY <2>2 DEF Stale
  <2> QED BY <2>1, <2>2, <2>3, <2>4
<1> HIDE DEF Q
<1>2. /\ Claims \subseteq Mints
      /\ \A S \in SUBSET Mints : IsFiniteSet(S)
  BY MarginAssumption, FS_Subset DEF Mints
<1>3. ASSUME NEW m \in Debts(Q)
      PROVE  m \in Debts(P) /\ T[m] <= P[m].balance /\ m \in Mints
  BY <1>1, <1>2, <1>3 DEF Debts, Counted
<1>4. ASSUME NEW m \in Assets(P)
      PROVE  m \in Assets(Q) /\ P[m].balance <= T[m] /\ m \in Mints
  BY <1>1, <1>4 DEF Assets, Counted
<1>5. /\ Debts(P) \subseteq Mints /\ Debts(Q) \subseteq Mints
      /\ Assets(P) \subseteq Mints /\ Assets(Q) \subseteq Mints
  BY DEF Debts, Assets, Counted
<1>6. ValuationOk(Q)
  BY <1>1, <1>3 DEF ValuationOk, verify_healthy
<1>7. liabilities(Q) <= liabilities(P)
  <2> DEFINE f == [m \in Mints |-> value(Q[m])]
             g == [m \in Mints |-> value(P[m])]
  <2>1. \A m \in Debts(Q) : f[m] \in Int /\ f[m] <= g[m]
    BY <1>1, <1>3, Valued
  <2>2. \A m \in Debts(P) : g[m] \in Int /\ 0 <= g[m]
    BY <1>1, <1>5, Valued
  <2> HIDE DEF f, g
  <2>3. SumOver(f, Debts(Q)) <= SumOver(g, Debts(P))
    BY <1>2, <1>3, <1>5, <2>1, <2>2, SumMonotone
  <2> QED BY <2>3 DEF liabilities, f, g
<1>8. required_collateral(Q) <= required_collateral(P)
  <2> DEFINE f == [m \in Mints |-> required_collateral_value(m, Q[m])]
             g == [m \in Mints |-> required_collateral_value(m, P[m])]
  <2>1. \A m \in Debts(Q) : f[m] \in Int /\ f[m] <= g[m]
    BY <1>1, <1>3, Valued
  <2>2. \A m \in Debts(P) : g[m] \in Int /\ 0 <= g[m]
    BY <1>1, <1>5, Valued
  <2> HIDE DEF f, g
  <2>3. SumOver(f, Debts(Q)) <= SumOver(g, Debts(P))
    BY <1>2, <1>3, <1>5, <2>1, <2>2, SumMonotone
  <2> QED BY <2>3 DEF required_collateral, f, g
<1> DEFINE f == [m \in Mints |-> collateral_value(m, P[m])]
           g == [m \in Mints |-> collateral_value(m, Q[m])]
<1>9. SumOver(f, Assets(P)) <= SumOver(g, Assets(Q))
  <2>1. \A m \in Assets(P) : f[m] \in Int /\ f[m] <= g[m]
    BY <1>1, <1>4, Valued
  <2>2. \A m \in Assets(Q) : g[m] \in Int /\ 0 <= g[m]
    BY <1>1, <1>5, Valued
  <2> HIDE DEF f, g
  <2> QED BY <1>2, <1>4, <1>5, <2>1, <2>2, SumMonotone
<1>10. /\ SumOver(f, Assets(P)) \in Int /\ SumOver(g, Assets(Q)) \in Int
       /\ required_collateral(P) \in Int /\ required_collateral(Q) \in Int
  <2> DEFINE r(R) == [m \in Mints |-> required_collateral_value(m, R[m])]
  <2>1. /\ \A m \in Assets(P) : f[m] \in Int
        /\ \A m \in Assets(Q) : g[m] \in Int
        /\ \A m \in Debts(P) : r(P)[m] \in Int
        /\ \A m \in Debts(Q) : r(Q)[m] \in Int
    BY <1>1, <1>5, Valued
  <2>2. required_collateral(P) = SumOver(r(P), Debts(P)) /\ required_collateral(Q) = SumOver(r(Q), Debts(Q))
    BY DEF required_collateral
  <2> HIDE DEF f, g, r
  <2> QED BY <1>2, <1>5, <2>1, <2>2, SumType
<1>11. liabilities(P) \in Int /\ liabilities(Q) \in Int
  <2>1. PositionsTyped(Q)
    BY <1>1 DEF PositionsTyped, Q
  <2> QED BY <2>1, Valuation
<1>12. effective_collateral(P) <= effective_collateral(Q)
  <2>1. /\ effective_collateral(P) = SumOver(f, Assets(P)) - liabilities(P)
        /\ effective_collateral(Q) = SumOver(g, Assets(Q)) - liabilities(Q)
    BY DEF effective_collateral
  <2> HIDE DEF f, g
  <2> QED BY <1>7, <1>9, <1>10, <1>11, <2>1
<1>13. effective_collateral(P) \in Int /\ effective_collateral(Q) \in Int
  <2>1. /\ effective_collateral(P) = SumOver(f, Assets(P)) - liabilities(P)
        /\ effective_collateral(Q) = SumOver(g, Assets(Q)) - liabilities(Q)
    BY DEF effective_collateral
  <2> HIDE DEF f, g
  <2> QED BY <1>10, <1>11, <2>1
<1>14. required_collateral(P) <= effective_collateral(P)
  BY DEF verify_healthy
<1>15. required_collateral(Q) <= effective_collateral(Q)
  BY <1>8, <1>10, <1>12, <1>13, <1>14
<1> QED BY <1>6, <1>15 DEF verify_healthy, Q

-----------------------------------------------------------------------------
(* What an invocation by the owner leaves.                                 *)

\* The three facts of the step, without the temporal operators.
LEMMA OwnerInvokeStep ==
  ASSUME MarginInv, SlotsInv, NEW a, adapter_invoke(a), NotesUpToDate
  PROVE  verify_healthy([m \in Mints |-> [position'[m] EXCEPT !.balance = tokens'[m]]])
<1>1. invoke(a, TRUE) /\ verify_healthy(position')
  BY DEF adapter_invoke
<1>2. PositionsInv'
  BY <1>1, InvokeStep DEF MarginInv
<1>3. PositionsTyped(position') /\ tokens' \in [Mints -> Amounts]
  BY <1>2 DEF PositionsInv, PositionsTyped
<1>4. ASSUME NEW m \in Claims \cup Pledges, position'[m].registered
      PROVE  /\ m \in Claims => tokens'[m] <= position'[m].balance
             /\ m \in Pledges => position'[m].balance <= tokens'[m]
  <2>1. m \in Mints
    BY DEF Mints
  <2>2. InvokeEffect(a, TRUE, m)
    BY <1>1, <2>1, InvokeEffects DEF MarginInv
  <2>3. tokens'[m] \in Nat
    BY <1>3, <2>1, Limits DEF Amounts
  <2> QED BY <1>4, <2>2, <2>3 DEF InvokeEffect, NotesUpToDate
<1>5. ASSUME NEW m \in Mints \ Claims, position'[m].registered
      PROVE  position'[m].balance <= tokens'[m]
  <2>1. CASE m \in Pledges
    BY <1>4, <1>5, <2>1
  <2>2. CASE OwnedByMargin(m)
    BY <1>2, <1>5, <2>2 DEF PositionsInv, CollateralNotOverstated, OwnedByMargin
  <2> QED BY <2>1, <2>2 DEF Mints, OwnedByMargin
<1> QED BY <1>1, <1>3, <1>4, <1>5, HealthyByTokens

\* After every adapter_invoke, whatever the CPI moved, the account is healthy
\* by the tokens that are really there.
THEOREM OwnerInvokeAlwaysLeavesCovered == Spec => OwnerInvokeLeavesCovered
<1>1. ASSUME Next, op'.name = "adapter_invoke"
      PROVE  \E a \in Adapters : adapter_invoke(a)
  <2>0. \A who : ~By("accounting_invoke", who)
    BY <1>1, ByWhom
  <2>1. \A a : ~accounting_invoke(a)
    BY <2>0 DEF accounting_invoke
  <2> QED BY <1>1, <2>1, WhoInvokes
<1>2. ASSUME verify_healthy([m \in Mints |->
                               [position'[m] EXCEPT !.balance = tokens'[m]]])
      PROVE  verify_healthy(ActualPositions)'
  BY <1>2 DEF ActualPositions, verify_healthy, ValuationOk, required_collateral,
       effective_collateral, liabilities, Debts, Assets, Counted, Stale,
       required_collateral_value, collateral_value, value, SumOver,
       MapThenSumSet, MapThenFoldSet
<1>3. MarginInv /\ SlotsInv /\ [Next]_vars =>
        [op'.name = "adapter_invoke" /\ NotesUpToDate =>
           verify_healthy(ActualPositions)']_vars
  BY <1>1, <1>2, OwnerInvokeStep
<1> QED BY <1>3, MarginInvAlways, SlotsAlways, PTL DEF Spec, OwnerInvokeLeavesCovered

-----------------------------------------------------------------------------
(* The losses of a liquidation.                                            *)

\* While a LiquidationState exists, the equity_loss it records is what its
\* liquidator has lost over all steps.
BudgetInv ==
    /\ DOMAIN lost = Liquidators
    /\ \A l \in Liquidators :
          /\ lost[l] \in Int
          /\ liquidation[l].active =>
               /\ liquidation[l].equity_loss = lost[l]
               /\ liquidation[l].max_equity_loss \in Int
               /\ lost[l] <= liquidation[l].max_equity_loss

\* Handlers that leave the liquidations alone.
LEMMA BudgetFrame ==
  ASSUME BudgetInv, UNCHANGED <<liquidation, lost>>
  PROVE  BudgetInv'
  BY DEF BudgetInv

\* The budget is a share of the liabilities, rounded down, and not negative.
LEMMA BudgetBegins ==
  ASSUME PositionsInv
  PROVE  (liabilities(position)
            * ((LIQUIDATION_MAX_TOTAL_EQUITY_LOSS_BPS * ONE_128) \div 10000))
                \div ONE_128 \in Nat
<1> DEFINE bps == LIQUIDATION_MAX_TOTAL_EQUITY_LOSS_BPS * ONE_128
<1>1. bps \in Nat /\ ONE_128 \in Nat \ {0}
  BY MarginAssumption, MulNat
<1> HIDE DEF bps
<1>2. bps \div 10000 \in Nat
  BY <1>1
<1>3. liabilities(position) \in Nat
  BY Valuation DEF PositionsInv
<1>4. liabilities(position) * (bps \div 10000) \in Nat
  BY <1>2, <1>3, MulNat
<1>5. \A n \in Nat : n \div ONE_128 \in Nat
  BY <1>1, DivNat
<1> QED BY <1>4, <1>5 DEF bps

\* Every step, liquidator_invoke above all, keeps the account of the losses.
LEMMA BudgetStep == MarginInv /\ MarginInv' /\ BudgetInv /\ [Next]_vars => BudgetInv'
<1> SUFFICES ASSUME MarginInv, MarginInv', BudgetInv, [Next]_vars
             PROVE  BudgetInv'
  OBVIOUS
<1>0. /\ DOMAIN liquidation = Liquidators /\ DOMAIN lost = Liquidators
      /\ \A l \in Liquidators : DOMAIN liquidation[l] = LiquidationFields
  BY DEF MarginInv, LiquidationsInv, BudgetInv
\* a handler that writes the state of one liquidator
<1>a. ASSUME NEW l \in Liquidators, NEW s, NEW x \in Int,
             liquidation' = [liquidation EXCEPT ![l] = s],
             lost' = [lost EXCEPT ![l] = x],
             s.active => /\ s.equity_loss = x /\ s.max_equity_loss \in Int
                         /\ x <= s.max_equity_loss
      PROVE  BudgetInv'
  BY <1>0, <1>a DEF BudgetInv
<1>1. CASE \/ create_account \/ close_account
           \/ \E who \in Signers, m \in Mints :
                \/ register_position(who, m)
                \/ create_deposit_position(who, m)
                \/ close_position(who, m)
  BY <1>1, BudgetFrame DEF create_account, close_account, register_position,
       create_deposit_position, close_position, OnlyPositions
<1>2. CASE \/ \E m \in Mints : update_position_balance(m)
           \/ \E m \in Mints, price \in QuotedPrices, b \in BOOLEAN :
                refresh_deposit_position(m, price, b)
           \/ \E m \in Mints, amount \in Amounts :
                \/ transfer_deposit(m, amount)
                \/ admin_transfer_position(m, amount)
                \/ outside_transfer(m, amount)
  BY <1>2, BudgetFrame DEF update_position_balance, refresh_deposit_position,
       transfer_deposit, admin_transfer_position, outside_transfer, OnlyPositions
<1>3. ASSUME NEW a, adapter_invoke(a) \/ accounting_invoke(a)
      PROVE  BudgetInv'
  BY <1>3, BudgetFrame DEF adapter_invoke, accounting_invoke
<1>4. ASSUME NEW a, NEW l \in Liquidators, liquidator_invoke(l, a)
      PROVE  BudgetInv'
  <2> DEFINE before == equity(position)
             after == equity(position')
             s == [liquidation[l] EXCEPT !.equity_loss =
                     liquidation[l].equity_loss + (before - after)]
  <2>1. before \in Int /\ after \in Int
    <3>1. PositionsTyped(position) /\ PositionsTyped(position')
      BY DEF MarginInv, PositionsInv, PositionsTyped
    <3> QED BY <3>1, Valuation
  <2>2. /\ liquidation[l].active
        /\ liquidation' = [liquidation EXCEPT ![l] = s]
        /\ liquidation'[l].equity_loss <= liquidation[l].max_equity_loss
        /\ lost' = [lost EXCEPT ![l] = lost[l] + before - after]
    BY <1>4 DEF liquidator_invoke, Charge
  <2> HIDE DEF before, after
  <2>3. /\ s.equity_loss = liquidation[l].equity_loss + (before - after)
        /\ s.max_equity_loss = liquidation[l].max_equity_loss
        /\ liquidation'[l] = s
    BY <1>0, <2>2 DEF LiquidationFields
  <2>4. /\ lost[l] \in Int /\ liquidation[l].equity_loss = lost[l]
        /\ liquidation[l].max_equity_loss \in Int
    BY <2>2 DEF BudgetInv
  <2> HIDE DEF s
  <2>5. /\ lost[l] + before - after \in Int
        /\ s.equity_loss = lost[l] + before - after
        /\ s.equity_loss <= s.max_equity_loss
    BY <2>1, <2>2, <2>3, <2>4
  <2> QED BY <1>a, <2>2, <2>3, <2>4, <2>5
<1>5. ASSUME NEW l \in Liquidators, liquidate_begin(l)
      PROVE  BudgetInv'
  <2> DEFINE budget == (liabilities(position)
                * ((LIQUIDATION_MAX_TOTAL_EQUITY_LOSS_BPS * ONE_128) \div 10000))
                    \div ONE_128
             s == [active |-> TRUE, elapsed |-> 0, equity_loss |-> 0,
                   max_equity_loss |-> budget]
  <2>1. liquidation' = [liquidation EXCEPT ![l] = s] /\ lost' = [lost EXCEPT ![l] = 0]
    BY <1>5 DEF liquidate_begin
  <2>2. budget \in Nat
    BY BudgetBegins DEF MarginInv
  <2> HIDE DEF budget
  <2>3. /\ s.equity_loss = 0 /\ s.max_equity_loss = budget
        /\ 0 \in Int /\ budget \in Int /\ 0 <= budget
    BY <2>2
  <2> HIDE DEF s
  <2> QED BY <1>a, <2>1, <2>3
<1>6. ASSUME NEW who, NEW l \in Liquidators, liquidate_end(who, l)
      PROVE  BudgetInv'
  <2>1. /\ liquidation' = [liquidation EXCEPT ![l] = NoLiquidation]
        /\ lost' = [lost EXCEPT ![l] = 0]
    BY <1>6 DEF liquidate_end
  <2>2. ~NoLiquidation.active /\ 0 \in Int
    BY ClosedState
  <2> QED BY <1>a, <2>1, <2>2
<1>7. CASE tick
  <2>1. ASSUME NEW l \in Liquidators
        PROVE  /\ liquidation'[l].active = liquidation[l].active
               /\ liquidation'[l].equity_loss = liquidation[l].equity_loss
               /\ liquidation'[l].max_equity_loss = liquidation[l].max_equity_loss
    <3>1. liquidation'[l] =
            IF liquidation[l].active
            THEN [liquidation[l] EXCEPT !.elapsed =
                     Older(liquidation[l].elapsed, LIQUIDATION_TIMEOUT)]
            ELSE liquidation[l]
      BY <1>7 DEF tick
    <3> QED BY <1>0, <3>1 DEF LiquidationFields
  <2>2. lost' = lost
    BY <1>7 DEF tick
  <2> QED BY <2>1, <2>2 DEF BudgetInv
<1>8. CASE UNCHANGED vars
  BY <1>8, BudgetFrame DEF vars
<1> QED BY <1>1, <1>2, <1>3, <1>4, <1>5, <1>6, <1>7, <1>8 DEF Next

\* Over all its steps together, no liquidator loses more of the account's
\* equity than the budget of its liquidation.
THEOREM LossAlwaysWithinBudget == Spec => []LossWithinBudget
<1>1. Init => BudgetInv
  BY ClosedState DEF Init, BudgetInv
<1>2. BudgetInv => LossWithinBudget
  BY DEF BudgetInv, LossWithinBudget
<1> QED BY <1>1, <1>2, BudgetStep, MarginInvAlways, PTL DEF Spec
=============================================================================

SPECIFICATION SpecBoth
CONSTANTS
  \* the pool
  Users = {u1, u2}
  ONE = 20
  Configs <- MCConfigs
  Week = 1
  Year = 1
  Terms <- MCTerms
  Changes <- MCChanges
  MaxPoolTokens = 2
  MaxLoanNotes = 2
  MaxTime = 2
  \* the margin account
  note = note
  debt = debt
  lender = lender
  swap = swap
  Deposits = {}
  Notes = {note}
  Claims = {debt}
  Pledges = {}
  AdapterOf <- MCAdapterOf
  Adapters = {lender, swap}
  Owner = owner
  Liquidators = {l1}
  Modifier <- MCModifier
  MaxStaleness <- MCMaxStaleness
  Prices = {1}
  ChangeTypes = {"price", "register", "close", "set_required", "clear_required"}
  MaxTokens = 1
  MaxGain = 0
  ONE_128 = 100
  MAX_PRICE_QUOTE_AGE = 0
  MAX_ORACLE_STALENESS = 0
  LIQUIDATION_TIMEOUT = 1
  LIQUIDATION_MAX_TOTAL_EQUITY_LOSS_BPS = 10000
INVARIANTS LedgerMatchesTokens ArithmeticDefined
PROPERTIES
  DepositorsNotDiluted
  DebtorsNotCharged
  RegistrationNeedsAuthority
  NothingForgotten
  AdapterStaysInScope
  LiquidationEnds

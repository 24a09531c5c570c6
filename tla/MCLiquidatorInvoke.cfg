SPECIFICATION Spec
CONSTANTS
    dep = dep
    debt = debt
    pool = pool
    Deposits = {dep}
    Notes = {}
    Claims = {debt}
    Pledges = {}
    AdapterOf <- MCAdapterOf
    Adapters = {pool}
    Owner = owner
    Liquidators = {l1}
    Modifier <- MCModifier
    MaxStaleness <- MCMaxStaleness
    Prices = {1, 2}
    ChangeTypes = {"price", "register", "close"}
    MaxTokens = 1
    MaxGain = 100
    ONE_128 = 100
    MAX_PRICE_QUOTE_AGE = 0
    MAX_ORACLE_STALENESS = 0
    LIQUIDATION_TIMEOUT = 1
    LIQUIDATION_MAX_TOTAL_EQUITY_LOSS_BPS = 10000
INVARIANTS
    InvokeOnlyInLiquidation

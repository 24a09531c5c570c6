SPECIFICATION SpecAll
CONSTANTS
  Accounts = {a1, a2}
  Margin = margin
  Adapters = {margin, pool, swap}
  Others = {proxy}
  MaxHeight = 5
  Mints = {1, 2, 3, 4, 5}
  Addresses = {1, 2}
  MaxBalance = 1
  SlotCount = 3
  MaxUserPositions = 2
  A = A
  B = B
  Airspaces = {A, B}
  Signers = {g, x}
  Members = {x}
  GOVERNOR_ID = g
  Nobody = nobody
  PositionTokens = {t}
  TokenUpdates <- UpdatesAsked
  AdapterPrograms = {p}
  Legacy = {x}
  DEFAULT_AIRSPACE = A
  Markets = {m1}
  Cranks = {c}
  MaxFees = 1
  Tokens = {t1}
  Oracles = {o1, o2}
  NoOracle = none
  Configs = {1, 2}
  Kinds = {"Collateral", "Claim"}
  SwapMints = {"sol", "usd", "jet"}
  SwapRoutes <- RoutesUsed
  BaseMint = "sol"
  BaseLotSize = 2
  LIQUIDATION_FEE = 3333
  MaxTokens = 3
  SwapAmounts = {1, 3}
  Builders <- SmallBuilders
  MaxBuilders = 4
  HEADER_SIZE = 2
  ACCOUNT_SIZE = 2
  MAX_TX_SIZE = 20
  ONE = 8
  MinBase = 2
  MaxQty = 40
  OriginationFee = 1
  FEE_UNIT = 10
  Traders = {u, v}
  TradePrices = {3, 4, 8}
  TradeSizes = {2, 3}
  SimulatedSizes = {1, 3, 6}
  MIN_BASE_SIZE_POSTED = 2
  MaxDepth = 2
  ClientPools = {"usd", "sol"}
  ClientTokens = {"jet"}
  ClientMarkets = {"m"}
  MaxHeld = 3
INVARIANTS
  DirectlyInvokedIsExact
  ZeroedOutsideInvocation
  MapMirrorsSlots
  SearchIsExact
  StaleKeysResolve
  AirspacesAreSeparate
  EntriesDescribePools
  CondensedIsBest
  SimulationAgrees
  ChartIsFillable
  CalmPlansLand
PROPERTIES
  ResultReachesItsAccount
  ImplementsPositionMap
  SwapSpendsOnlyItsInput

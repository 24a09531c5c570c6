SPECIFICATION FairSpec
CONSTANTS
  ONE = 4
  MinBase = 1
  MaxQty = 20
  MarginUsers = {alice}
  Wallets = {wallet}
  Settling <- MCSettling
  BorrowTenor = 2
  LendTenor = 1
  OriginationFee = 1
  FEE_UNIT = 10
  LendOrders <- MCLendOrders
  BorrowOrders <- MCBorrowOrders
  SellOrders <- MCSellOrders
  Amounts = {2}
  Recipients = {wallet}
  RollConfigs <- MCRollConfigs
  MaxVault = 2
  MaxDeposits = 1
  alice = alice
  wallet = wallet
  QueueCapacity = 3
  MaxOrders = 1
  MaxTime = 2
PROPERTY QueueDrains
CHECK_DEADLOCK FALSE
